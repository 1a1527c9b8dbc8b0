---------------------------- MODULE TrainingLoop ----------------------------
(***************************************************************************)
(* The training loops and optimizer hooks that the patcher puts in place   *)
(* of those of mmcv 1.x (patcher/mmcv_patch.py) and mmengine               *)
(* (patcher/mmengine_patch.py), in a training job that may crash and be    *)
(* resumed from its last checkpoint.                                       *)
(*                                                                         *)
(* A job is one process at a time.  What the process has in memory is lost *)
(* in a crash; what survives is the checkpoint.  The runner around the     *)
(* loops (resume, checkpoint hook) is the frameworks' own: mmcv's is read  *)
(* from the copy in model_examples/FlashOCC, mmengine's is external.       *)
(*                                                                         *)
(* A batch is its position in the order of the data, a gradient the batch  *)
(* it comes from with the iteration and the number its loss was divided    *)
(* by.  The parameters are known by the gradients that made them.  Left    *)
(* out: the profiler, which only watches, logging and gradient clipping; a *)
(* job resumed on another number of devices, for which resume() scales the *)
(* counter; and a loss_scale that is a fixed number: the scale is dynamic. *)
(***************************************************************************)
EXTENDS Integers, Sequences

CONSTANTS
  Jobs,        \* bound: the jobs that are run
  MaxRestarts, \* bound: crashes and relaunches in a job
  MaxSkips     \* bound: steps the loss scaler skips in one process

EpochLoops == {"EpochBasedRunner", "EpochBasedTrainLoop"}
IterLoops == {"IterBasedRunner", "IterBasedTrainLoop"}
CumulativeHooks ==
  {"GradientCumulativeOptimizerHook", "GradientCumulativeFp16OptimizerHook"}
Fp16Hooks == {"Fp16OptimizerHook", "GradientCumulativeFp16OptimizerHook"}
Hooks == {"OptimizerHook"} \cup CumulativeHooks \cup Fp16Hooks
NoBrake == -1
Positive == Nat \ {0}

\* A workflow is the list of flows of IterBasedRunner.
Job ==
  [ loop : EpochLoops \cup IterLoops, hook : Hooks,
    len : Positive,          \* batches in the data loader
    max : Nat,               \* max_epochs or max_iters
    cumulative : Positive,   \* cumulative_iters
    brake : Nat \cup {NoBrake},
    interval : Positive,     \* of the checkpoint hook
    workflow : Seq([mode : {"train", "val"}, iters : Positive]) ]

\* mmengine has no optimizer hook; its wrapper steps after every batch like
\* OptimizerHook.  A workflow that never trains does not end.
ASSUME TrainingAssumption ==
  /\ Jobs \subseteq Job
  /\ \A j \in Jobs :
       /\ j.loop \in {"EpochBasedTrainLoop", "IterBasedTrainLoop"}
            => j.hook = "OptimizerHook"
       /\ \E k \in DOMAIN j.workflow : j.workflow[k].mode = "train"
  /\ MaxRestarts \in Nat /\ MaxSkips \in Nat

VARIABLES
  job,      \* the job
  life,     \* of the process: "off", "on", "braked" (sys.exit) or "ended"
  pc,       \* where the loop is
  start,    \* the iteration the process began with
  iter,     \* _iter
  epoch,    \* _epoch
  drawn,    \* batches drawn from the loader: of the process or of the epoch
  flow,     \* the flow of the workflow, and the iterations of it behind us
  count,
  stop,     \* stop_training
  grads,    \* the gradients in the parameters' .grad
  params,   \* the gradients the optimizer was stepped with, and how many of
            \* the steps the scaler skipped
  scaler,   \* the loss scaler: how many overflows it remembers
  ckpt,     \* the last checkpoint
  restarts  \* crashes and relaunches so far

loop == <<start, iter, epoch, drawn, flow, count, stop>>
model == <<grads, params, scaler>>
vars == <<job, life, pc, loop, model, ckpt, restarts>>

MaxIters == IF job.loop \in EpochLoops THEN job.max * job.len ELSE job.max

Gradient == [iter : Nat, batch : Nat, factor : Positive]
Params == [seen : Seq(Gradient), skips : Nat]
Checkpoint == [iter : Nat, epoch : Nat, params : Params, scaler : Nat]

TrainingTypeOK ==
  /\ job \in Jobs
  /\ life \in {"off", "on", "braked", "ended"}
  /\ pc \in {"loop", "batch", "flow", "hooks", "count", "validate"}
  /\ start \in Nat /\ iter \in Nat /\ epoch \in Nat /\ drawn \in Nat
  /\ flow \in Positive /\ count \in Nat
  /\ stop \in BOOLEAN
  /\ grads \in Seq(Gradient)
  /\ params \in Params
  /\ scaler \in Nat
  /\ ckpt \in Checkpoint
  /\ restarts \in 0..MaxRestarts

NoParams == [seen |-> <<>>, skips |-> 0]

Init ==
  /\ job \in Jobs
  /\ life = "off" /\ pc = "loop"
  /\ start = 0 /\ iter = 0 /\ epoch = 0 /\ drawn = 0
  /\ flow = 1 /\ count = 0
  /\ stop = FALSE
  /\ grads = <<>> /\ params = NoParams /\ scaler = 0
  /\ ckpt = [iter |-> 0, epoch |-> 0, params |-> NoParams, scaler |-> 0]
  /\ restarts = 0

-----------------------------------------------------------------------------
(* The process *)

\* Mutants: the loader not advanced, the scaler not restored.
DrawnBeforeNone(done) == 0
ScalerFresh == 0

\* IterBasedTrainLoop.run passes over the batches trained before; the loader
\* of IterBasedRunner begins anew.
DrawnBefore(done) == IF job.loop = "IterBasedTrainLoop" THEN done ELSE 0

\* resume().  That of IterBasedRunner leaves runner.meta alone, where
\* Fp16OptimizerHook.before_run looks for the scaler.
ScalerAfterResume == IF job.loop = "IterBasedRunner" THEN 0 ELSE ckpt.scaler

Launch ==
  /\ life = "off"
  /\ life' = "on" /\ pc' = "loop"
  /\ start' = ckpt.iter /\ iter' = ckpt.iter /\ epoch' = ckpt.epoch
  /\ drawn' = DrawnBefore(ckpt.iter)
  /\ flow' = 1 /\ count' = 0 /\ stop' = FALSE
  /\ grads' = <<>> /\ params' = ckpt.params /\ scaler' = ScalerAfterResume
  /\ UNCHANGED <<job, ckpt, restarts>>

\* A crash at any point, or the job started again after the brake.
Restart ==
  /\ life \in {"on", "braked"}
  /\ restarts < MaxRestarts
  /\ life' = "off" /\ restarts' = restarts + 1
  /\ UNCHANGED <<job, pc, loop, model, ckpt>>

\* A mutant of Continues: IterBasedRunner looks at the workflow only.
ContinuesAlways ==
  IF job.loop \in EpochLoops THEN epoch < job.max /\ ~stop
                             ELSE (job.loop = "IterBasedRunner" \/ iter < job.max) /\ ~stop

\* The condition of the outermost loop.
Continues ==
  IF job.loop \in EpochLoops THEN epoch < job.max /\ ~stop
                             ELSE iter < job.max /\ ~stop

At(p) == life = "on" /\ pc = p

Finish ==
  /\ At("loop") /\ ~Continues
  /\ life' = "ended"
  /\ UNCHANGED <<job, pc, loop, model, ckpt, restarts>>

-----------------------------------------------------------------------------
(* One iteration *)

\* The place in the loop where a batch is trained.
AtTraining ==
  \/ job.loop \in EpochLoops /\ At("batch") /\ drawn < job.len
  \/ /\ job.loop = "IterBasedRunner" /\ At("flow")
     /\ flow <= Len(job.workflow) /\ job.workflow[flow].mode = "train"
     /\ count < job.workflow[flow].iters /\ iter < job.max
  \/ job.loop = "IterBasedTrainLoop" /\ At("loop") /\ Continues

\* IterBasedRunner takes _epoch from the loader, which counts its rounds when
\* it begins the next.
EpochSeen ==
  IF job.loop = "IterBasedRunner" /\ drawn > 0 THEN (drawn - 1) \div job.len
  ELSE IF job.loop = "IterBasedRunner" THEN 0
  ELSE epoch

\* The position in the data of the next batch.
Batch == IF job.loop \in EpochLoops THEN epoch * job.len + drawn ELSE drawn

\* remainder_iters
Remainder == MaxIters - (MaxIters \div job.cumulative) * job.cumulative

\* Mutants of LossFactor: the remainder forgotten, and taken for the end of
\* every run.
LossFactorWhole ==
  IF job.hook \notin CumulativeHooks THEN 1 ELSE job.cumulative
LossFactorLast ==
  IF job.hook \notin CumulativeHooks THEN 1
  ELSE IF iter < MaxIters - job.cumulative THEN job.cumulative
  ELSE Remainder

LossFactor ==
  IF job.hook \notin CumulativeHooks THEN 1
  ELSE IF iter < MaxIters - Remainder THEN job.cumulative
  ELSE Remainder

\* every_n_iters(cumulative_iters) or is_last_iter; the other hooks step always.
StepDue ==
  \/ job.hook \notin CumulativeHooks
  \/ (iter + 1) % job.cumulative = 0
  \/ iter + 1 = MaxIters

\* The other hooks clear the gradients before backward() and leave them.
Kept == IF job.hook \in CumulativeHooks THEN grads ELSE <<>>
Left(g) == IF job.hook \in CumulativeHooks THEN <<>> ELSE g

\* Whether the scaler finds the gradients finite.
StepOutcomes ==
  IF job.hook \in Fp16Hooks /\ scaler < MaxSkips THEN BOOLEAN ELSE {TRUE}

\* optimizer.step(), or its omission, and loss_scaler.update()
OptimizerStep(g) ==
  \E finite \in StepOutcomes :
    /\ params' = [seen |-> params.seen \o g,
                  skips |-> params.skips + (IF finite THEN 0 ELSE 1)]
    /\ scaler' = scaler + (IF finite THEN 0 ELSE 1)
    /\ grads' = Left(g)

\* The batch is drawn and the optimizer hook run, the first of the hooks of
\* after_train_iter.
TrainIter ==
  /\ AtTraining
  /\ drawn' = drawn + 1
  /\ epoch' = EpochSeen
  /\ LET g == Append(Kept, [iter |-> iter, batch |-> Batch, factor |-> LossFactor])
     IN IF StepDue THEN OptimizerStep(g)
                   ELSE grads' = g /\ UNCHANGED <<params, scaler>>
  /\ pc' = "hooks"
  /\ UNCHANGED <<job, life, start, iter, flow, count, stop, ckpt, restarts>>

Save(i, e) ==
  ckpt' = [iter |-> i, epoch |-> e, params |-> params, scaler |-> scaler]

\* CheckpointHook.after_train_iter, with by_epoch off for the iteration loops.
\* mmcv saves the number of the iteration under way, mmengine the next.
CheckpointIter ==
  /\ At("hooks")
  /\ IF job.loop \in IterLoops
        /\ ((iter + 1) % job.interval = 0 \/ iter + 1 = MaxIters)
     THEN IF job.loop = "IterBasedRunner" THEN Save(iter, epoch + 1)
                                          ELSE Save(iter + 1, epoch)
     ELSE UNCHANGED ckpt
  /\ pc' = "count"
  /\ UNCHANGED <<job, life, loop, model, restarts>>

\* A mutant of Brakes: compared before the counter is raised.
BrakesBefore(i) == job.brake \notin {NoBrake, 0} /\ i = job.brake + 1

\* A step of 0 is not among the options, and None equals no counter.
Brakes(i) == job.brake \notin {NoBrake, 0} /\ i = job.brake

AfterIter ==
  CASE job.loop \in EpochLoops -> "batch"
    [] job.loop = "IterBasedRunner" -> "flow"
    [] OTHER -> "validate"

\* sys.exit(0) or on with the loop.
BrakeOr(i, p) ==
  IF Brakes(i) THEN life' = "braked" /\ UNCHANGED pc
               ELSE pc' = p /\ UNCHANGED life

CountIter ==
  /\ At("count")
  /\ iter' = iter + 1
  /\ count' = count + 1
  /\ BrakeOr(iter', AfterIter)
  /\ UNCHANGED <<job, start, epoch, drawn, flow, stop, model, ckpt, restarts>>

-----------------------------------------------------------------------------
(* The loops around it *)

\* EpochBasedRunner.train, EpochBasedTrainLoop.run_epoch
BeginEpoch ==
  /\ job.loop \in EpochLoops
  /\ At("loop") /\ Continues
  /\ drawn' = 0
  /\ pc' = "batch"
  /\ UNCHANGED <<job, life, start, iter, epoch, flow, count, stop, model, ckpt,
                 restarts>>

\* after_train_epoch with its checkpoint hook, then _epoch += 1.
EndEpoch ==
  /\ job.loop \in EpochLoops
  /\ At("batch") /\ drawn = job.len
  /\ IF (epoch + 1) % job.interval = 0 \/ epoch + 1 = job.max
     THEN Save(iter, epoch + 1)
     ELSE UNCHANGED ckpt
  /\ epoch' = epoch + 1
  /\ pc' = IF job.loop = "EpochBasedTrainLoop" THEN "validate" ELSE "loop"
  /\ UNCHANGED <<job, life, start, iter, drawn, flow, count, stop, model, restarts>>

\* Validation of mmengine, when it is due and there is one; one of its hooks
\* may set stop_training.
Validate ==
  /\ At("validate")
  /\ stop' \in BOOLEAN
  /\ pc' = "loop"
  /\ UNCHANGED <<job, life, start, iter, epoch, drawn, flow, count, model, ckpt,
                 restarts>>

\* IterBasedRunner.run
BeginWorkflow ==
  /\ job.loop = "IterBasedRunner"
  /\ At("loop") /\ Continues
  /\ flow' = 1 /\ count' = 0
  /\ pc' = "flow"
  /\ UNCHANGED <<job, life, start, iter, epoch, drawn, stop, model, ckpt, restarts>>

FlowOver ==
  \/ count = job.workflow[flow].iters
  \/ job.workflow[flow].mode = "train" /\ iter >= job.max

NextFlow ==
  /\ At("flow") /\ FlowOver
  /\ IF flow < Len(job.workflow)
     THEN flow' = flow + 1 /\ count' = 0 /\ UNCHANGED pc
     ELSE pc' = "loop" /\ UNCHANGED <<flow, count>>
  /\ UNCHANGED <<job, life, start, iter, epoch, drawn, stop, model, ckpt, restarts>>

ValIter ==
  /\ At("flow")
  /\ job.workflow[flow].mode = "val" /\ count < job.workflow[flow].iters
  /\ count' = count + 1
  /\ BrakeOr(iter, "flow")
  /\ UNCHANGED <<job, start, iter, epoch, drawn, flow, stop, model, ckpt, restarts>>

Work ==
  \/ Launch \/ Finish
  \/ TrainIter \/ CheckpointIter \/ CountIter
  \/ BeginEpoch \/ EndEpoch \/ Validate
  \/ BeginWorkflow \/ NextFlow \/ ValIter

Over == life \in {"braked", "ended"} /\ UNCHANGED vars

Next == Work \/ Restart \/ Over

\* A crashed job is launched again and a running one goes on.
Spec == Init /\ [][Next]_vars /\ WF_vars(Work)

-----------------------------------------------------------------------------
(* Properties *)

\* Every step of the optimizer uses the mean of the losses since the one before:
\* the shares of a group add up to one, the shorter last group of the run
\* included.  Only the first group of a process resumed in the middle of one is
\* lighter, and none is heavier (_get_loss_factor, after_train_iter).
Stepped == SubSeq(params'.seen, Len(params.seen) + 1, Len(params'.seen))
MeanOf(g) == \A k \in DOMAIN g : g[k].factor = Len(g)
CutByResume(g) ==
  /\ start % job.cumulative # 0 /\ g[1].iter = start
  /\ \A k \in DOMAIN g : g[k].factor >= Len(g)
StepsTakeMeans ==
  [][Len(params'.seen) > Len(params.seen)
       => MeanOf(Stepped) \/ CutByResume(Stepped)]_vars

\* Whatever crashes, no batch trains the parameters twice and none is left out,
\* when a group of gradients does not span two epochs.  Otherwise batches may
\* be left out, those whose gradients a checkpoint does not hold.  The loader
\* of IterBasedRunner begins anew after a resume, and is no part of this.  A run
\* that reaches its last iteration leaves no gradient behind.
InFlight == IF job.hook \in CumulativeHooks THEN grads ELSE <<>>
Trained == params.seen \o InFlight
Increasing == \A k \in 2..Len(Trained) : Trained[k - 1].batch < Trained[k].batch
Gapless == /\ \A k \in 1..Len(Trained) : Trained[k].batch = k - 1
           /\ Len(Trained) = iter + (IF pc \in {"hooks", "count"} THEN 1 ELSE 0)
EachBatchOnce ==
  /\ life = "on" /\ job.loop # "IterBasedRunner" =>
       /\ Increasing
       /\ job.hook \notin CumulativeHooks \/ job.len % job.cumulative = 0 => Gapless
  /\ life = "ended" /\ iter = MaxIters => InFlight = <<>>

\* A process that began before the step of the brake stops exactly there, in
\* every loop and wherever it was resumed; one that began there or beyond never
\* does, and a step of 0 stops nothing.
BrakeStops ==
  /\ life = "braked" => job.brake > start /\ iter = job.brake
  /\ life \in {"on", "ended"} /\ job.brake > start => iter < job.brake

\* A resumed run goes on with the loss scale its checkpoint was saved with: the
\* scaler remembers every overflow, except under IterBasedRunner, which forgets
\* those of earlier processes.
ScalerKept ==
  life = "on" =>
    IF job.loop = "IterBasedRunner" THEN scaler <= params.skips
                                    ELSE scaler = params.skips

\* Every run ends or is stopped by the brake, if it stops crashing.
RunEnds == <>[](life \in {"ended", "braked"})
=============================================================================
