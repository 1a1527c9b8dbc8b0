--------------------------- MODULE MCTrainingLoop ---------------------------
\* Small jobs for TrainingLoop.
EXTENDS TrainingLoop

TrainOnly == <<[mode |-> "train", iters |-> 1]>>
TrainAndVal == <<[mode |-> "val", iters |-> 1], [mode |-> "train", iters |-> 2],
                 [mode |-> "val", iters |-> 1]>>

J(loop_, hook, len, max, cumulative, brake, interval, workflow) ==
  [loop |-> loop_, hook |-> hook, len |-> len, max |-> max,
   cumulative |-> cumulative, brake |-> brake, interval |-> interval,
   workflow |-> workflow]

\* Groups that divide the run and groups that do not, groups larger than the
\* run, checkpoints inside a group and brakes at 0, in and after the run.
MCJobs ==
  { J("EpochBasedRunner", h, len, 2, c, b, 1, TrainOnly) :
      h \in Hooks, len \in {2, 3}, c \in {2, 4, 7}, b \in {NoBrake, 0, 3} }
  \cup
  { J("IterBasedRunner", h, 2, 5, c, b, i, w) :
      h \in Hooks, c \in {2, 3}, b \in {NoBrake, 2}, i \in {2, 3},
      w \in {TrainOnly, TrainAndVal} }
  \cup
  { J(l, "OptimizerHook", 2, 4, 1, b, 2, TrainOnly) :
      l \in {"EpochBasedTrainLoop", "IterBasedTrainLoop"},
      b \in {NoBrake, 0, 2, 3} }
=============================================================================
