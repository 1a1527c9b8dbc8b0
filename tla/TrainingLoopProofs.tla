------------------------- MODULE TrainingLoopProofs -------------------------
(***************************************************************************)
(* Proofs about the training loops, for every job: any length of the data, *)
(* of the run and of a group of gradients, any brake, any workflow, and    *)
(* any number of crashes.                                                  *)
(***************************************************************************)
EXTENDS TrainingLoop, TLAPS

-----------------------------------------------------------------------------
(* Arithmetic *)

\* What integer division gives, in a form the solver can use.
LEMMA Division ==
  ASSUME NEW m \in Nat, NEW d \in Nat \ {0}
  PROVE  /\ m \div d \in Nat
         /\ m % d \in 0..(d - 1)
         /\ m = d * (m \div d) + (m % d)
OBVIOUS

\* Multiples of c are at least c apart.
LEMMA MultiplesApart ==
  ASSUME NEW c \in Nat \ {0}, NEW p \in Nat, NEW q \in Nat
  PROVE  /\ c * p \in Nat
         /\ p < q => c * p + c <= c * q
         /\ c * p < c * q => p < q
<1>1. c * p \in Nat /\ c * q \in Nat
  OBVIOUS
<1>2. ASSUME NEW x \in Nat, NEW y \in Nat, x < y PROVE c * x + c <= c * y
  <2>1. PICK k \in Nat : y = x + 1 + k
    <3>1. y - x - 1 \in Nat /\ y = x + 1 + (y - x - 1)
      BY <1>2
    <3> QED BY <3>1
  <2>2. c * y = c * x + c + c * k
    BY <2>1
  <2>3. c * k \in Nat /\ c * x \in Nat
    OBVIOUS
  <2> QED BY <2>2, <2>3
<1>3. c * p < c * q => p < q
  <2> SUFFICES ASSUME c * p < c * q, ~(p < q) PROVE FALSE
    OBVIOUS
  <2>1. CASE p = q
    BY <1>1, <2>1
  <2>2. CASE q < p
    BY <1>1, <1>2, <2>2
  <2> QED BY <2>1, <2>2
<1> QED BY <1>1, <1>2, <1>3

\* A multiple leaves no remainder.
LEMMA NoRemainder ==
  ASSUME NEW c \in Nat \ {0}, NEW p \in Nat
  PROVE  (c * p) % c = 0
<1> DEFINE m == c * p
<1>1. m \in Nat
  OBVIOUS
<1>2. m \div c \in Nat /\ m % c \in 0..(c - 1) /\ m = c * (m \div c) + (m % c)
  BY <1>1, Division
<1> DEFINE d == m \div c
           e == m % c
<1>3. d \in Nat /\ e \in 0..(c - 1) /\ c * p = c * d + e
  BY <1>2
<1> HIDE DEF d, e
<1>4. ~(p < d)
  BY <1>3, MultiplesApart
<1>5. ~(d < p)
  BY <1>3, MultiplesApart
<1>6. p = d
  BY <1>3, <1>4, <1>5
<1>7. e = 0
  BY <1>3, <1>6, MultiplesApart
<1> QED BY <1>7 DEF e

\* What leaves no remainder is a multiple.
LEMMA IsMultiple ==
  ASSUME NEW c \in Nat \ {0}, NEW m \in Nat, m % c = 0
  PROVE  \E p \in Nat : m = c * p
<1> DEFINE d == m \div c
           e == m % c
<1>1. d \in Nat /\ m = c * d + e
  BY Division
<1>2. e = 0
  OBVIOUS
<1> HIDE DEF d, e
<1>3. c * d \in Nat
  BY <1>1, MultiplesApart
<1>4. m = c * d
  BY <1>1, <1>2, <1>3
<1> QED BY <1>1, <1>4

\* The numbers a group of gradients is divided by.  The group began at iteration
\* b, no multiple of c lies behind b up to i, and the optimizer steps after i:
\* the next number is a multiple or the end of the run.  When b is a multiple
\* they all are the size of the group; otherwise none is smaller.
LEMMA GroupShares ==
  ASSUME NEW c \in Nat \ {0}, NEW M \in Nat, NEW b \in Nat, NEW i \in Nat,
         b <= i, i < M,
         \A m \in (b + 1)..i : m % c # 0,
         (i + 1) % c = 0 \/ i + 1 = M,
         NEW x \in b..i, NEW f,
         f = IF x < M - (M - ((M \div c) * c)) THEN c ELSE M - ((M \div c) * c)
  PROVE  /\ f >= i + 1 - b
         /\ b % c = 0 => f = i + 1 - b
<1> DEFINE Q == M \div c
           q == b \div c
           s == b % c
<1>1. Q \in Nat /\ M >= c * Q /\ M < c * Q + c /\ c * Q \in Nat
  <2>1. M \div c \in Nat /\ M % c \in 0..(c - 1) /\ M = c * (M \div c) + (M % c)
    BY Division
  <2> DEFINE e == M % c
  <2>2. Q \in Nat /\ e \in 0..(c - 1) /\ M = c * Q + e
    BY <2>1
  <2> HIDE DEF Q, e
  <2> QED BY <2>2, MultiplesApart
<1>2. q \in Nat /\ s \in 0..(c - 1) /\ b = c * q + s
  BY Division
<1>3. f = IF x < c * Q THEN c ELSE M - c * Q
  <2>1. f = IF x < M - (M - (Q * c)) THEN c ELSE M - (Q * c)
    OBVIOUS
  <2> HIDE DEF Q
  <2>2. Q * c = c * Q /\ M - (M - c * Q) = c * Q
    BY <1>1
  <2> QED BY <2>1, <2>2
<1> HIDE DEF Q, q, s
<1>4. i + 1 <= c * q + c
  <2> SUFFICES ASSUME c * q + c <= i PROVE FALSE
    BY <1>2, MultiplesApart
  <2>1. c * (q + 1) = c * q + c /\ q + 1 \in Nat
    BY <1>2
  <2>2. c * (q + 1) \in (b + 1)..i
    BY <1>2, <2>1, MultiplesApart
  <2>3. (c * (q + 1)) % c = 0
    BY <2>1, NoRemainder
  <2> QED BY <2>2, <2>3
<1>5. CASE (i + 1) % c = 0
  <2>1. PICK p \in Nat : i + 1 = c * p
    <3>1. i + 1 \in Nat
      OBVIOUS
    <3> QED BY <1>5, <3>1, IsMultiple, Zenon
  <2>2. q < p
    BY <1>2, <2>1, MultiplesApart
  <2>3. i + 1 = c * q + c
    BY <1>2, <1>4, <2>1, <2>2, MultiplesApart
  <2>4. p < Q + 1
    <3>1. c * (Q + 1) = c * Q + c
      BY <1>1
    <3>2. c * p < c * (Q + 1)
      BY <1>1, <2>1, <3>1
    <3> QED BY <1>1, <3>2, MultiplesApart
  <2>5. c * p <= c * Q
    BY <1>1, <2>4, MultiplesApart
  <2>6. f = c
    BY <1>1, <1>3, <2>1, <2>5
  <2>7. i + 1 - b = c - s
    BY <1>2, <2>3, MultiplesApart
  <2> QED BY <1>2, <2>6, <2>7 DEF s
<1>6. CASE (i + 1) % c # 0 /\ i + 1 = M
  <2>1. M # c * q + c
    <3>1. c * (q + 1) = c * q + c /\ q + 1 \in Nat
      BY <1>2
    <3>2. (c * (q + 1)) % c = 0
      BY <3>1, NoRemainder
    <3> QED BY <1>6, <3>1, <3>2
  <2>2. Q = q
    <3>1. c * q <= M /\ M < c * q + c
      BY <1>2, <1>4, <1>6, <2>1, MultiplesApart
    <3>2. ~(q < Q)
      BY <1>1, <1>2, <3>1, MultiplesApart
    <3>3. ~(Q < q)
      BY <1>1, <1>2, <3>1, MultiplesApart
    <3> QED BY <1>1, <1>2, <3>2, <3>3
  <2>3. c * q <= b /\ c * q \in Nat
    BY <1>2, MultiplesApart
  <2>4. f = M - c * q
    BY <1>3, <2>2, <2>3
  <2>5. i + 1 - b = M - c * q - s
    BY <1>2, <1>6, <2>3
  <2>6. f >= i + 1 - b /\ (s = 0 => f = i + 1 - b)
    BY <1>2, <1>6, <2>3, <2>4, <2>5
  <2> QED BY <2>6 DEF s
<1> QED BY <1>5, <1>6

-----------------------------------------------------------------------------
(* The invariant *)

\* The iterations begun so far, and the one the gradients at hand start with.
Seen == iter + (IF pc \in {"hooks", "count"} THEN 1 ELSE 0)
Base == Seen - Len(grads)

\* What _get_loss_factor makes of iteration i.
FactorAt(i) == IF i < MaxIters - Remainder THEN job.cumulative ELSE Remainder

\* The counters agree with the place in the loop, and no iteration is begun
\* that lies behind the end of the run.
Placed ==
  life = "on" =>
    /\ start <= iter
    /\ pc \in {"hooks", "count"} => iter < MaxIters
    /\ pc = "flow" => job.loop = "IterBasedRunner"
    /\ job.loop \in EpochLoops =>
         /\ pc \in {"loop", "validate"} => iter = epoch * job.len
         /\ pc \in {"batch", "hooks", "count"} =>
              epoch < job.max /\ drawn <= job.len /\ Seen = epoch * job.len + drawn

\* So does the checkpoint, and it is never ahead of the parameters; IterBasedRunner
\* saves the number of the iteration under way, which is never the brake's step yet.
Saved ==
  /\ job.loop \in EpochLoops => ckpt.iter = ckpt.epoch * job.len
  /\ Len(ckpt.params.seen) <= Len(params.seen)
  /\ job.loop = "IterBasedRunner" /\ job.brake > 0 =>
       ckpt.iter < job.brake /\ start < job.brake

\* The gradients of a cumulative hook are those of the iterations since the last
\* step of the optimizer, or since the process began.
Grouped ==
  life = "on" /\ job.hook \in CumulativeHooks =>
    /\ Base >= start
    /\ \A k \in 1..Len(grads) :
         grads[k].iter = Base + k - 1 /\ grads[k].factor = FactorAt(Base + k - 1)
    /\ Base = start \/ Base % job.cumulative = 0 \/ Base >= MaxIters
    /\ grads # <<>> => \A m \in (Base + 1)..Seen : m % job.cumulative # 0

LoopInv == TrainingTypeOK /\ Placed /\ Saved /\ Grouped /\ BrakeStops

\* The numbers a job is made of.
LEMMA JobFacts ==
  ASSUME job \in Jobs
  PROVE  /\ job.len \in Nat \ {0} /\ job.max \in Nat
         /\ job.cumulative \in Nat \ {0} /\ job.interval \in Nat \ {0}
         /\ job.brake \in Nat \cup {NoBrake}
         /\ MaxIters \in Nat
         /\ Remainder \in Nat
<1>1. /\ job.len \in Nat \ {0} /\ job.max \in Nat
      /\ job.cumulative \in Nat \ {0} /\ job.interval \in Nat \ {0}
      /\ job.brake \in Nat \cup {NoBrake}
  BY TrainingAssumption DEF Job, Positive
<1>2. MaxIters \in Nat
  BY <1>1 DEF MaxIters
<1> DEFINE c == job.cumulative
           m == MaxIters
           d == m \div c
           e == m % c
<1>3. d \in Nat /\ e \in 0..(c - 1) /\ m = c * d + e
  BY <1>1, <1>2, Division
<1>4. Remainder = m - d * c
  BY DEF Remainder
<1>5. c \in Nat \ {0} /\ m \in Nat
  BY <1>1, <1>2
<1> HIDE DEF c, m, d, e
<1>6. Remainder = e
  BY <1>3, <1>4, <1>5, MultiplesApart
<1> QED BY <1>1, <1>2, <1>3, <1>5, <1>6

\* Where a batch is trained, the run has not come to its end.
LEMMA TrainingBeforeEnd ==
  ASSUME TrainingTypeOK, Placed, AtTraining
  PROVE  /\ life = "on" /\ pc \in {"batch", "flow", "loop"}
         /\ iter < MaxIters
         /\ Seen = iter
<1>1. life = "on" /\ pc \in {"batch", "flow", "loop"} /\ Seen = iter
  BY DEF AtTraining, At, Seen, TrainingTypeOK
<1>2. CASE job.loop \in EpochLoops
  <2>1. pc = "batch" /\ drawn < job.len
    BY <1>2 DEF AtTraining, At, EpochLoops
  <2>2. epoch < job.max /\ iter = epoch * job.len + drawn
    BY <1>1, <1>2, <2>1 DEF Placed
  <2>3. job.len \in Nat \ {0} /\ job.max \in Nat /\ epoch \in Nat /\ drawn \in Nat
    BY JobFacts DEF TrainingTypeOK
  <2>4. job.len * epoch + job.len <= job.len * job.max
    BY <2>2, <2>3, MultiplesApart
  <2>5. MaxIters = job.max * job.len
    BY <1>2 DEF MaxIters
  <2>6. job.max * job.len = job.len * job.max /\ epoch * job.len = job.len * epoch
        /\ job.len * epoch \in Nat /\ job.len * job.max \in Nat
    BY <2>3
  <2> QED BY <1>1, <2>1, <2>2, <2>3, <2>4, <2>5, <2>6
<1>3. CASE job.loop \notin EpochLoops
  BY <1>1, <1>3 DEF AtTraining, At, Continues, MaxIters
<1> QED BY <1>1, <1>2, <1>3

\* The number the loss of the iteration to come is divided by.
LEMMA LossFactorFacts ==
  ASSUME TrainingTypeOK, Placed, AtTraining
  PROVE  /\ LossFactor \in Positive
         /\ job.hook \in CumulativeHooks => LossFactor = FactorAt(iter)
         /\ job.hook \notin CumulativeHooks => LossFactor = 1
<1>1. iter < MaxIters /\ iter \in Nat
  BY TrainingBeforeEnd DEF TrainingTypeOK
<1>2. job.cumulative \in Nat \ {0} /\ MaxIters \in Nat /\ Remainder \in Nat
  BY JobFacts DEF TrainingTypeOK
<1>3. ~(iter < MaxIters - Remainder) => Remainder \in Nat \ {0}
  BY <1>1, <1>2
<1> QED BY <1>2, <1>3 DEF LossFactor, FactorAt, Positive

\* The gradients at hand when the loss of the batch has been differentiated.
Fresh == Append(Kept, [iter |-> iter, batch |-> Batch, factor |-> LossFactor])

LEMMA FreshFacts ==
  ASSUME TrainingTypeOK, Placed, AtTraining
  PROVE  /\ Fresh \in Seq(Gradient) /\ Len(Fresh) = Len(Kept) + 1
         /\ \A k \in 1..Len(Kept) : Fresh[k] = Kept[k]
         /\ Fresh[Len(Kept) + 1].iter = iter
         /\ Fresh[Len(Kept) + 1].batch = Batch
         /\ Fresh[Len(Kept) + 1].factor = LossFactor
<1> DEFINE g == [iter |-> iter, batch |-> Batch, factor |-> LossFactor]
<1>1. job.len \in Nat \ {0} /\ epoch \in Nat /\ drawn \in Nat /\ iter \in Nat
  BY JobFacts DEF TrainingTypeOK
<1>2. epoch * job.len \in Nat
  BY <1>1
<1>3. Batch \in Nat
  BY <1>1, <1>2 DEF Batch
<1>4. g \in Gradient
  BY <1>1, <1>3, LossFactorFacts DEF Gradient
<1>5. Kept \in Seq(Gradient)
  BY DEF Kept, TrainingTypeOK
<1>6. g.iter = iter /\ g.batch = Batch /\ g.factor = LossFactor
  OBVIOUS
<1>7. Fresh = Append(Kept, g)
  BY DEF Fresh
<1> HIDE DEF g
<1> QED BY <1>4, <1>5, <1>6, <1>7

\* Training a batch keeps the types.
LEMMA TrainIterTypes ==
  ASSUME TrainingTypeOK, Placed, TrainIter
  PROVE  TrainingTypeOK' /\ Len(params.seen) <= Len(params'.seen)
<1>1. Fresh \in Seq(Gradient) /\ AtTraining
  BY FreshFacts DEF TrainIter
<1>2. \/ OptimizerStep(Fresh)
      \/ grads' = Fresh /\ UNCHANGED <<params, scaler>>
  BY DEF TrainIter, Fresh
<1>3. /\ grads' \in Seq(Gradient) /\ scaler' \in Nat
      /\ params' \in Params /\ Len(params.seen) <= Len(params'.seen)
  <2>1. params.seen \in Seq(Gradient) /\ params.skips \in Nat /\ scaler \in Nat
        /\ params \in Params
    BY DEF TrainingTypeOK, Params
  <2>2. CASE OptimizerStep(Fresh)
    <3>1. PICK finite \in StepOutcomes :
            /\ params' = [seen |-> params.seen \o Fresh,
                          skips |-> params.skips + (IF finite THEN 0 ELSE 1)]
            /\ scaler' = scaler + (IF finite THEN 0 ELSE 1)
            /\ grads' = Left(Fresh)
      BY <2>2 DEF OptimizerStep
    <3>2. params.seen \o Fresh \in Seq(Gradient)
          /\ Len(params.seen \o Fresh) = Len(params.seen) + Len(Fresh)
          /\ Len(Fresh) \in Nat /\ Len(params.seen) \in Nat
      BY <1>1, <2>1
    <3>3. grads' \in Seq(Gradient)
      BY <1>1, <3>1 DEF Left
    <3>4. params.skips + (IF finite THEN 0 ELSE 1) \in Nat
          /\ scaler + (IF finite THEN 0 ELSE 1) \in Nat
      BY <2>1
    <3>5. params' \in Params /\ params'.seen = params.seen \o Fresh
      BY <3>1, <3>2, <3>4 DEF Params
    <3> QED BY <3>1, <3>2, <3>3, <3>4, <3>5
  <2>3. CASE grads' = Fresh /\ UNCHANGED <<params, scaler>>
    BY <1>1, <2>1, <2>3
  <2> QED BY <1>2, <2>2, <2>3
<1>4. epoch' \in Nat
  <2>1. job.len \in Nat \ {0} /\ drawn \in Nat /\ epoch \in Nat
    BY JobFacts DEF TrainingTypeOK
  <2>2. drawn > 0 => (drawn - 1) \div job.len \in Nat
    <3>1. drawn > 0 => drawn - 1 \in Nat
      BY <2>1
    <3> QED BY <2>1, <3>1, Division
  <2> QED BY <2>1, <2>2 DEF TrainIter, EpochSeen
<1>5. /\ drawn' = drawn + 1 /\ pc' = "hooks"
      /\ UNCHANGED <<job, life, start, iter, flow, count, stop, ckpt, restarts>>
  BY DEF TrainIter
<1> QED BY <1>3, <1>4, <1>5 DEF TrainingTypeOK

\* It keeps the gradients of a group together.
LEMMA TrainIterGroups ==
  ASSUME TrainingTypeOK, Placed, Grouped, TrainIter
  PROVE  Grouped'
<1> SUFFICES ASSUME job.hook \in CumulativeHooks
             PROVE  Grouped'
  BY DEF Grouped, TrainIter
<1>1. AtTraining /\ life = "on" /\ iter < MaxIters /\ Seen = iter
  BY TrainingBeforeEnd DEF TrainIter
<1>2. MaxIters' = MaxIters /\ Remainder' = Remainder
  BY DEF TrainIter, MaxIters, Remainder
<1>3. Seen' = iter + 1 /\ job' = job /\ start' = start /\ iter \in Nat /\ start \in Nat
      /\ grads \in Seq(Gradient) /\ start <= iter
  BY <1>1 DEF TrainIter, Seen, TrainingTypeOK, Placed
<1>4. job.cumulative \in Nat \ {0} /\ MaxIters \in Nat
  BY JobFacts DEF TrainingTypeOK
<1>5. CASE StepDue
  <2>1. grads' = <<>>
    BY <1>5 DEF TrainIter, OptimizerStep, Left
  <2>2. (iter + 1) % job.cumulative = 0 \/ iter + 1 = MaxIters
    BY <1>5 DEF StepDue
  <2>3. Base' = iter + 1
    BY <1>3, <2>1 DEF Base
  <2> QED BY <1>2, <1>3, <1>4, <2>1, <2>2, <2>3 DEF Grouped
<1>6. CASE ~StepDue
  <2>1. grads' = Fresh /\ Kept = grads
    BY <1>6 DEF TrainIter, Fresh, Kept
  <2>2. /\ Len(grads') = Len(grads) + 1
        /\ \A k \in 1..Len(grads) : grads'[k] = grads[k]
        /\ grads'[Len(grads) + 1].iter = iter
        /\ grads'[Len(grads) + 1].factor = FactorAt(iter)
    BY <1>1, <2>1, FreshFacts, LossFactorFacts
  <2>3. Base' = Base /\ Base = iter - Len(grads) /\ Len(grads) \in Nat
    BY <1>1, <1>3, <2>2 DEF Base
  <2>4. \A k \in 1..Len(grads) :
          grads[k].iter = Base + k - 1 /\ grads[k].factor = FactorAt(Base + k - 1)
    BY <1>1 DEF Grouped
  <2>5. Base >= start /\ Base \in Nat
    BY <1>1, <1>3, <2>3 DEF Grouped
  <2>6. \A k \in 1..(Len(grads) + 1) :
          grads'[k].iter = Base + k - 1 /\ grads'[k].factor = FactorAt(Base + k - 1)
    <3> TAKE k \in 1..(Len(grads) + 1)
    <3>1. CASE k \in 1..Len(grads)
      BY <2>2, <2>4, <3>1
    <3>2. CASE k = Len(grads) + 1
      <4>1. Base + k - 1 = iter
        BY <1>3, <2>3, <3>2
      <4> QED BY <2>2, <3>2, <4>1
    <3> QED BY <2>3, <3>1, <3>2
  <2>7. \A k \in 1..Len(grads') :
          /\ grads'[k].iter = Base' + k - 1
          /\ grads'[k].factor = IF Base' + k - 1 < MaxIters' - Remainder'
                                  THEN job'.cumulative ELSE Remainder'
    BY <1>2, <1>3, <2>2, <2>3, <2>6 DEF FactorAt
  <2>8. \A m \in (Base + 1)..(iter + 1) : m % job.cumulative # 0
    <3> TAKE m \in (Base + 1)..(iter + 1)
    <3>1. (iter + 1) % job.cumulative # 0
      BY <1>6 DEF StepDue
    <3>2. CASE m = iter + 1
      BY <3>1, <3>2
    <3>3. CASE m \in (Base + 1)..iter
      <4>1. Len(grads) # 0
        BY <1>3, <2>3, <3>3
      <4>2. grads # <<>>
        BY <4>1
      <4> QED BY <1>1, <3>3, <4>2 DEF Grouped
    <3> QED BY <1>3, <2>3, <2>5, <3>2, <3>3
  <2>9. Base = start \/ Base % job.cumulative = 0
    <3>1. ~(Base >= MaxIters)
      BY <1>1, <1>3, <1>4, <2>3
    <3> QED BY <1>1, <3>1 DEF Grouped
  <2> QED BY <1>3, <2>3, <2>5, <2>7, <2>8, <2>9 DEF Grouped, FactorAt
<1> QED BY <1>5, <1>6

\* What the steps that train nothing do to the gradients of a process that
\* stays alive: nothing, and its count of iterations agrees with its place.
LEMMA SameGroups ==
  ASSUME Grouped, life = "on", UNCHANGED <<job, start, grads>>, life' = "on" => Seen' = Seen
  PROVE  Grouped'
<1> SUFFICES ASSUME life' = "on", job.hook \in CumulativeHooks
             PROVE  Grouped'
  BY DEF Grouped
<1>1. MaxIters' = MaxIters /\ Remainder' = Remainder
  BY DEF MaxIters, Remainder
<1>2. Seen' = Seen /\ Base' = Base
  BY DEF Base
<1> QED BY <1>1, <1>2 DEF Grouped, FactorAt

LEMMA LoopInit == Init => LoopInv
<1> SUFFICES ASSUME Init PROVE LoopInv
  OBVIOUS
<1>1. TrainingTypeOK
  <2>1. restarts \in 0..MaxRestarts
    BY TrainingAssumption DEF Init
  <2>2. NoParams \in Params
    BY DEF NoParams, Params
  <2>3. ckpt \in Checkpoint
    BY <2>2 DEF Init, Checkpoint
  <2>4. grads \in Seq(Gradient)
    BY DEF Init
  <2>5. /\ start \in Nat /\ iter \in Nat /\ epoch \in Nat /\ drawn \in Nat
        /\ flow \in Positive /\ count \in Nat
        /\ life \in {"off", "on", "braked", "ended"}
        /\ pc \in {"loop", "batch", "flow", "hooks", "count", "validate"}
        /\ params \in Params /\ scaler \in Nat /\ job \in Jobs
    BY <2>2 DEF Init, Positive
  <2>6. stop \in BOOLEAN
    BY Zenon DEF Init
  <2> QED BY <2>1, <2>3, <2>4, <2>5, <2>6 DEF TrainingTypeOK
<1>2. Saved
  <2>1. 0 * job.len = 0
    BY <1>1, JobFacts DEF TrainingTypeOK
  <2> QED BY <2>1 DEF Init, Saved, NoParams
<1>3. Placed /\ Grouped /\ BrakeStops
  BY DEF Init, Placed, Grouped, BrakeStops
<1> QED BY <1>1, <1>2, <1>3 DEF LoopInv

\* A process that starts takes over what the checkpoint holds.
LEMMA LaunchStep ==
  ASSUME LoopInv, Launch
  PROVE  LoopInv'
<1>1. TrainingTypeOK /\ Saved /\ job' = job /\ ckpt' = ckpt
  BY DEF LoopInv, Launch
<1>2. ckpt.iter \in Nat /\ ckpt.epoch \in Nat /\ ckpt.params \in Params /\ ckpt.scaler \in Nat
  BY <1>1 DEF TrainingTypeOK, Checkpoint
<1>3. TrainingTypeOK'
  <2>1. DrawnBefore(ckpt.iter) \in Nat /\ ScalerAfterResume \in Nat
    BY <1>2 DEF DrawnBefore, ScalerAfterResume
  <2>2. grads' \in Seq(Gradient)
    BY DEF Launch
  <2>3. /\ start' \in Nat /\ iter' \in Nat /\ epoch' \in Nat /\ drawn' \in Nat
        /\ flow' \in Positive /\ count' \in Nat
        /\ life' \in {"off", "on", "braked", "ended"}
        /\ pc' \in {"loop", "batch", "flow", "hooks", "count", "validate"}
        /\ params' \in Params /\ scaler' \in Nat /\ restarts' = restarts
    BY <1>2, <2>1 DEF Launch, Positive
  <2>4. stop' \in BOOLEAN
    BY Zenon DEF Launch
  <2> QED BY <1>1, <2>2, <2>3, <2>4 DEF TrainingTypeOK
<1>4. Placed'
  BY <1>1, <1>2 DEF Launch, Placed, Saved, Seen
<1>5. Saved'
  BY <1>1 DEF Launch, Saved, TrainingTypeOK, Params
<1>6. Grouped'
  <2>0. start' \in Nat
    BY <1>2 DEF Launch
  <2>1. grads' = <<>> /\ Seen' = start'
    BY <1>2 DEF Launch, Seen
  <2>2. Len(grads') = 0
    BY <2>1
  <2>3. Base' = start'
    <3>1. Base' = Seen' - Len(grads')
      BY Zenon DEF Base
    <3>2. \A n \in Nat : n - 0 = n
      OBVIOUS
    <3> QED BY <2>0, <2>1, <2>2, <3>1, <3>2, Zenon
  <2> QED BY <2>0, <2>1, <2>2, <2>3 DEF Grouped
<1>7. BrakeStops'
  BY <1>2 DEF Launch, BrakeStops
<1> QED BY <1>3, <1>4, <1>5, <1>6, <1>7 DEF LoopInv

LEMMA TrainIterStep ==
  ASSUME LoopInv, TrainIter
  PROVE  LoopInv'
<1>1. /\ TrainingTypeOK /\ Placed /\ Saved /\ Grouped /\ BrakeStops
      /\ AtTraining /\ life = "on" /\ iter < MaxIters /\ Seen = iter
      /\ pc \in {"batch", "flow", "loop"}
  BY TrainingBeforeEnd DEF LoopInv, TrainIter
<1>2. TrainingTypeOK' /\ Len(params.seen) <= Len(params'.seen)
  BY <1>1, TrainIterTypes
<1>3. Grouped'
  BY <1>1, TrainIterGroups
<1>4. Placed'
  <2>1. MaxIters' = MaxIters /\ Seen' = iter + 1 /\ iter \in Nat /\ drawn \in Nat /\ epoch \in Nat
    BY <1>1 DEF TrainIter, MaxIters, Seen, TrainingTypeOK
  <2>2. start' <= iter' /\ iter' < MaxIters' /\ pc' = "hooks"
    BY <1>1, <2>1 DEF TrainIter, Placed
  <2>3. CASE job.loop \in EpochLoops
    <3>1. pc = "batch" /\ drawn < job.len /\ job.loop # "IterBasedRunner"
      BY <1>1, <2>3 DEF AtTraining, At, EpochLoops
    <3>2. epoch' = epoch /\ drawn' = drawn + 1 /\ job' = job
      BY <3>1 DEF TrainIter, EpochSeen
    <3>3. epoch < job.max /\ iter = epoch * job.len + drawn
      BY <1>1, <2>3, <3>1 DEF Placed
    <3>4. job.len \in Nat
      BY <1>1, JobFacts DEF TrainingTypeOK
    <3>5. epoch * job.len \in Nat
      BY <2>1, <3>4
    <3>6. Seen' = epoch' * job'.len + drawn' /\ drawn' <= job'.len
      BY <2>1, <3>1, <3>2, <3>3, <3>4, <3>5
    <3> QED BY <2>2, <3>2, <3>3, <3>6 DEF Placed
  <2>4. CASE job.loop \notin EpochLoops
    BY <2>2, <2>4 DEF Placed, TrainIter
  <2> QED BY <2>3, <2>4
<1>5. Saved'
  <2>1. /\ params.seen \in Seq(Gradient) /\ params'.seen \in Seq(Gradient)
        /\ ckpt.params.seen \in Seq(Gradient)
    BY <1>1, <1>2 DEF TrainingTypeOK, Params, Checkpoint
  <2> QED BY <1>1, <1>2, <2>1 DEF TrainIter, Saved
<1>6. BrakeStops'
  BY <1>1 DEF TrainIter, BrakeStops
<1> QED BY <1>2, <1>3, <1>4, <1>5, <1>6 DEF LoopInv

\* The counter is raised, and the brake looks at it.
LEMMA CountIterStep ==
  ASSUME LoopInv, CountIter
  PROVE  LoopInv'
<1>1. /\ TrainingTypeOK /\ Placed /\ Saved /\ Grouped /\ BrakeStops
      /\ life = "on" /\ pc = "count"
      /\ UNCHANGED <<job, start, epoch, drawn, flow, stop, model, ckpt, restarts>>
      /\ iter' = iter + 1 /\ count' = count + 1
  BY DEF LoopInv, CountIter, At
<1>2. /\ iter \in Nat /\ start \in Nat /\ count \in Nat /\ start <= iter
      /\ job.brake \in Nat \cup {NoBrake}
  BY <1>1, JobFacts DEF TrainingTypeOK, Placed
<1>3. \/ Brakes(iter + 1) /\ life' = "braked" /\ pc' = pc
      \/ ~Brakes(iter + 1) /\ life' = "on" /\ pc' = AfterIter
  BY <1>1 DEF CountIter, BrakeOr
<1>4. AfterIter \in {"batch", "flow", "validate"}
      /\ (job.loop \in EpochLoops => AfterIter = "batch")
      /\ (AfterIter = "flow" => job.loop = "IterBasedRunner")
  BY DEF AfterIter, EpochLoops
<1>5. TrainingTypeOK'
  BY <1>1, <1>2, <1>3, <1>4 DEF TrainingTypeOK, model
<1>6. Seen = iter + 1 /\ (life' = "on" => Seen' = Seen)
  BY <1>1, <1>3, <1>4 DEF Seen
<1>7. Placed'
  BY <1>1, <1>2, <1>3, <1>4, <1>6 DEF Placed
<1>8. Saved'
  BY <1>1 DEF Saved, model
<1>9. Grouped'
  BY <1>1, <1>6, SameGroups DEF model
<1>10. BrakeStops'
  BY <1>1, <1>2, <1>3 DEF BrakeStops, Brakes, NoBrake
<1> QED BY <1>5, <1>7, <1>8, <1>9, <1>10 DEF LoopInv

\* The steps around the iterations: checkpoints, epochs, flows, validation.
LEMMA SurroundingSteps ==
  ASSUME LoopInv,
         \/ CheckpointIter \/ BeginEpoch \/ EndEpoch \/ Validate
         \/ BeginWorkflow \/ NextFlow \/ ValIter
  PROVE  LoopInv'
<1>1. /\ TrainingTypeOK /\ Placed /\ Saved /\ Grouped /\ BrakeStops /\ life = "on"
      /\ UNCHANGED <<job, start, iter, model, restarts>>
      /\ MaxIters' = MaxIters
  BY DEF LoopInv, CheckpointIter, BeginEpoch, EndEpoch, Validate, BeginWorkflow, NextFlow,
         ValIter, At, model, loop, MaxIters
<1>2. /\ iter \in Nat /\ epoch \in Nat /\ drawn \in Nat /\ count \in Nat /\ flow \in Positive
      /\ scaler \in Nat /\ params \in Params /\ job.len \in Nat \ {0} /\ job.max \in Nat
      /\ job.brake \in Nat \cup {NoBrake} /\ epoch * job.len \in Nat
  <2>1. job.len \in Nat \ {0} /\ epoch \in Nat
    BY <1>1, JobFacts DEF TrainingTypeOK
  <2>2. epoch * job.len \in Nat
    BY <2>1
  <2> QED BY <1>1, <2>2, JobFacts DEF TrainingTypeOK
<1>3. \A i, e \in Nat : Save(i, e) =>
        /\ ckpt' \in Checkpoint /\ ckpt'.iter = i /\ ckpt'.epoch = e /\ ckpt'.params = params
  BY <1>2 DEF Save, Checkpoint
<1>4. life' = "on" => Seen' = Seen
  BY <1>1, <1>2 DEF CheckpointIter, BeginEpoch, EndEpoch, Validate, BeginWorkflow, NextFlow,
     ValIter, At, BrakeOr, Seen, loop
<1>5. Grouped'
  BY <1>1, <1>4, SameGroups DEF model
<1>6. CASE CheckpointIter
  <2>1. /\ pc = "hooks" /\ pc' = "count" /\ life' = life
        /\ UNCHANGED <<epoch, drawn, flow, count, stop>>
    BY <1>6 DEF CheckpointIter, At, loop
  <2>2. \/ ckpt' = ckpt
        \/ job.loop \in IterLoops /\ \E i, e \in Nat : Save(i, e)
    BY <1>2, <1>6 DEF CheckpointIter
  <2>3. ckpt' \in Checkpoint
    BY <1>1, <1>3, <2>2 DEF TrainingTypeOK
  <2>4. TrainingTypeOK'
    BY <1>1, <2>1, <2>3 DEF TrainingTypeOK, model
  <2>5. Saved'
    <3>1. Len(params.seen) \in Nat
      BY <1>2 DEF Params
    <3>2. job.loop \in IterLoops => job.loop \notin EpochLoops
      BY DEF IterLoops, EpochLoops
    <3>3. Len(ckpt'.params.seen) <= Len(params'.seen)
      BY <1>1, <1>3, <2>2, <3>1 DEF Saved, model
    <3>4. job.loop = "IterBasedRunner" => ckpt' = ckpt \/ Save(iter, epoch + 1)
      BY <1>6 DEF CheckpointIter
    <3>5. job.loop = "IterBasedRunner" => ckpt'.iter \in {ckpt.iter, iter}
      BY <1>2, <1>3, <3>4
    <3>6. job'.loop \in EpochLoops => ckpt'.iter = ckpt'.epoch * job'.len
      BY <1>1, <2>2, <3>2 DEF Saved
    <3>7. job.loop = "IterBasedRunner" /\ job.brake > 0 => iter < job.brake
      BY <1>1 DEF Saved, BrakeStops
    <3> QED BY <1>1, <3>3, <3>5, <3>6, <3>7 DEF Saved
  <2>6. Placed'
    BY <1>1, <1>4, <2>1 DEF Placed
  <2>7. BrakeStops'
    BY <1>1, <2>1 DEF BrakeStops
  <2> QED BY <1>5, <2>4, <2>5, <2>6, <2>7 DEF LoopInv
<1>7. CASE EndEpoch
  <2>1. /\ job.loop \in EpochLoops /\ pc = "batch" /\ drawn = job.len /\ life' = life
        /\ epoch' = epoch + 1 /\ pc' \in {"loop", "validate"}
        /\ UNCHANGED <<drawn, flow, count, stop>>
        /\ (ckpt' = ckpt \/ Save(iter, epoch + 1))
    BY <1>7 DEF EndEpoch, At
  <2>2. iter = (epoch + 1) * job.len
    <3>1. iter = epoch * job.len + job.len
      <4>1. Seen = iter
        BY <1>2, <2>1 DEF Seen
      <4> QED BY <1>1, <2>1, <4>1 DEF Placed
    <3>2. (epoch + 1) * job.len = epoch * job.len + job.len
      BY <1>2
    <3> QED BY <3>1, <3>2
  <2>3. ckpt' \in Checkpoint /\ (Save(iter, epoch + 1) =>
          ckpt'.iter = iter /\ ckpt'.epoch = epoch + 1 /\ ckpt'.params = params)
    BY <1>1, <1>2, <1>3, <2>1 DEF TrainingTypeOK
  <2>4. TrainingTypeOK'
    BY <1>1, <1>2, <2>1, <2>3 DEF TrainingTypeOK, model
  <2>5. Saved'
    <3>1. Len(params.seen) \in Nat
      BY <1>2 DEF Params
    <3>2. job.loop # "IterBasedRunner"
      BY <2>1 DEF EpochLoops
    <3> QED BY <1>1, <2>1, <2>2, <2>3, <3>1, <3>2 DEF Saved, model
  <2>6. Placed'
    BY <1>1, <2>1, <2>2 DEF Placed
  <2>7. BrakeStops'
    BY <1>1, <2>1 DEF BrakeStops
  <2> QED BY <1>5, <2>4, <2>5, <2>6, <2>7 DEF LoopInv
<1>8. CASE BeginEpoch
  <2>1. /\ job.loop \in EpochLoops /\ pc = "loop" /\ pc' = "batch" /\ drawn' = 0
        /\ epoch < job.max /\ UNCHANGED <<life, epoch, flow, count, stop, ckpt>>
    BY <1>8 DEF BeginEpoch, At, Continues
  <2>2. TrainingTypeOK'
    BY <1>1, <2>1 DEF TrainingTypeOK, model
  <2>3. Placed'
    <3>1. iter = epoch * job.len
      BY <1>1, <2>1 DEF Placed
    <3>2. Seen' = iter
      BY <1>1, <1>2, <2>1 DEF Seen
    <3> QED BY <1>1, <1>2, <2>1, <3>1, <3>2 DEF Placed
  <2>4. Saved' /\ BrakeStops'
    BY <1>1, <2>1 DEF Saved, BrakeStops, model
  <2> QED BY <1>5, <2>2, <2>3, <2>4 DEF LoopInv
<1>9. CASE Validate
  <2>1. /\ pc = "validate" /\ pc' = "loop" /\ stop' \in BOOLEAN
        /\ UNCHANGED <<life, epoch, drawn, flow, count, ckpt>>
    BY <1>9 DEF Validate, At
  <2>2. TrainingTypeOK'
    BY <1>1, <2>1 DEF TrainingTypeOK, model
  <2>3. Placed' /\ Saved' /\ BrakeStops'
    BY <1>1, <2>1 DEF Placed, Saved, BrakeStops, model
  <2> QED BY <1>5, <2>2, <2>3 DEF LoopInv
<1>10. CASE BeginWorkflow \/ NextFlow \/ ValIter
  <2>1. /\ job.loop = "IterBasedRunner" /\ pc' \in {"loop", "flow"}
        /\ count' \in Nat /\ flow' \in Positive
        /\ UNCHANGED <<epoch, drawn, stop, ckpt>>
    BY <1>1, <1>2, <1>10
       DEF BeginWorkflow, NextFlow, ValIter, At, BrakeOr, Placed, Positive
  <2>2. life' = life \/ (Brakes(iter) /\ life' = "braked")
    BY <1>10 DEF BeginWorkflow, NextFlow, ValIter, BrakeOr, At
  <2>3. TrainingTypeOK'
    BY <1>1, <2>1, <2>2 DEF TrainingTypeOK, model
  <2>4. Placed'
    BY <1>1, <2>1 DEF Placed, EpochLoops
  <2>5. Saved' /\ BrakeStops'
    BY <1>1, <1>2, <2>1, <2>2 DEF Saved, BrakeStops, Brakes, NoBrake, model
  <2> QED BY <1>5, <2>3, <2>4, <2>5 DEF LoopInv
<1> QED BY <1>6, <1>7, <1>8, <1>9, <1>10

LEMMA LoopStep == LoopInv /\ [Next]_vars => LoopInv'
<1> SUFFICES ASSUME LoopInv, [Next]_vars PROVE LoopInv'
  OBVIOUS
<1>1. CASE Launch
  BY <1>1, LaunchStep
<1>2. CASE TrainIter
  BY <1>2, TrainIterStep
<1>3. CASE CountIter
  BY <1>3, CountIterStep
<1>4. CASE \/ CheckpointIter \/ BeginEpoch \/ EndEpoch \/ Validate
           \/ BeginWorkflow \/ NextFlow \/ ValIter
  BY <1>4, SurroundingSteps
<1>5. CASE Restart
  <2>1. restarts' \in 0..MaxRestarts
    BY <1>5, TrainingAssumption DEF Restart, LoopInv, TrainingTypeOK
  <2>2. TrainingTypeOK'
    BY <1>5, <2>1 DEF Restart, LoopInv, TrainingTypeOK, loop, model
  <2>3. Placed' /\ Saved' /\ Grouped' /\ BrakeStops'
    BY <1>5 DEF Restart, LoopInv, Placed, Saved, Grouped, BrakeStops, loop, model
  <2> QED BY <2>2, <2>3 DEF LoopInv
<1>6. CASE Finish
  <2>1. TrainingTypeOK'
    BY <1>6 DEF Finish, LoopInv, TrainingTypeOK, loop, model
  <2>2. Placed' /\ Saved' /\ Grouped' /\ BrakeStops'
    BY <1>6 DEF Finish, At, LoopInv, Placed, Saved, Grouped, BrakeStops, loop, model
  <2> QED BY <2>1, <2>2 DEF LoopInv
<1>7. CASE UNCHANGED vars
  <2>1. TrainingTypeOK'
    BY <1>7 DEF vars, LoopInv, TrainingTypeOK, loop, model
  <2>2. Placed' /\ Saved' /\ BrakeStops'
    BY <1>7 DEF vars, LoopInv, Placed, Seen, MaxIters, Saved, BrakeStops, loop, model
  <2>3. Grouped'
    BY <1>7 DEF vars, LoopInv, Grouped, Base, Seen, FactorAt, MaxIters, Remainder, loop, model
  <2> QED BY <2>1, <2>2, <2>3 DEF LoopInv
<1> QED BY <1>1, <1>2, <1>3, <1>4, <1>5, <1>6, <1>7 DEF Next, Work, Over

LEMMA LoopAlways == Spec => []LoopInv
BY LoopInit, LoopStep, PTL DEF Spec

-----------------------------------------------------------------------------
(* What the parameters were trained with *)

\* The iterations whose gradients the parameters have taken.
Behind == IF job.hook \in CumulativeHooks THEN Base ELSE Seen

\* The batches of a list of gradients come in their order, all of them before n;
\* none of those is missing.
Ordered(s, n) ==
  /\ \A k \in 1..Len(s) : s[k].batch < n
  /\ \A k \in 2..Len(s) : s[k - 1].batch < s[k].batch
Unbroken(s, n) == Len(s) = n /\ \A k \in 1..Len(s) : s[k].batch = k - 1

WholeGroups == job.hook \notin CumulativeHooks \/ job.len % job.cumulative = 0

\* The loader stands at the batch of the iteration to come.
LoaderKept ==
  life = "on" =>
    /\ job.loop = "IterBasedTrainLoop" => drawn = Seen
    /\ job.hook \in CumulativeHooks =>
         \A k \in 1..Len(grads) : grads[k].batch = grads[k].iter

\* What the parameters have taken, in the process and in the checkpoint.
History ==
  /\ life = "on" => Ordered(params.seen, Behind)
  /\ Ordered(ckpt.params.seen, ckpt.iter)
  /\ WholeGroups => /\ life = "on" => Unbroken(params.seen, Behind)
                    /\ Unbroken(ckpt.params.seen, ckpt.iter)

\* No gradient is left over where the run ends.
Flushed ==
  /\ life = "on" /\ job.hook \in CumulativeHooks /\ grads # <<>> => Seen # MaxIters
  /\ life = "ended" /\ iter = MaxIters => InFlight = <<>>

TrainedInv == (job.loop # "IterBasedRunner" => LoaderKept /\ History) /\ Flushed

\* A list that goes on with the batches from n on.
LEMMA ListGoesOn ==
  ASSUME NEW s \in Seq(Gradient), NEW g \in Seq(Gradient), NEW n \in Int,
         \A k \in 1..Len(g) : g[k].batch = n + k - 1
  PROVE  /\ Ordered(s, n) => Ordered(s \o g, n + Len(g))
         /\ Unbroken(s, n) => Unbroken(s \o g, n + Len(g))
<1> DEFINE t == s \o g
<1>1. /\ Len(s) \in Nat /\ Len(g) \in Nat /\ Len(t) = Len(s) + Len(g)
      /\ \A k \in 1..Len(s) : t[k] = s[k]
      /\ \A k \in (Len(s) + 1)..Len(t) : t[k] = g[k - Len(s)]
  OBVIOUS
<1>2. \A k \in 1..Len(s) : s[k].batch \in Nat
  <2> TAKE k \in 1..Len(s)
  <2>1. s[k] \in Gradient
    OBVIOUS
  <2> QED BY <2>1 DEF Gradient
<1> HIDE DEF t
<1>3. \A k \in (Len(s) + 1)..Len(t) : t[k].batch = n + k - Len(s) - 1
  <2> TAKE k \in (Len(s) + 1)..Len(t)
  <2>1. k - Len(s) \in 1..Len(g)
    BY <1>1
  <2> QED BY <1>1, <2>1
<1>4. ASSUME Ordered(s, n) PROVE Ordered(t, n + Len(g))
  <2>1. ASSUME NEW k \in 1..Len(t) PROVE t[k].batch < n + Len(g)
    <3>1. CASE k \in 1..Len(s)
      BY <1>1, <1>2, <1>4, <3>1 DEF Ordered
    <3>2. CASE k \in (Len(s) + 1)..Len(t)
      BY <1>1, <1>3, <3>2
    <3> QED BY <1>1, <3>1, <3>2
  <2>2. ASSUME NEW k \in 2..Len(t) PROVE t[k - 1].batch < t[k].batch
    <3>1. CASE k \in 2..Len(s)
      <4>1. t[k] = s[k] /\ t[k - 1] = s[k - 1]
        BY <1>1, <3>1
      <4> QED BY <1>4, <3>1, <4>1 DEF Ordered
    <3>2. CASE k = Len(s) + 1
      <4>1. k - 1 \in 1..Len(s) /\ t[k - 1] = s[k - 1]
        BY <1>1, <3>2
      <4>2. s[k - 1].batch < n
        BY <1>4, <4>1 DEF Ordered
      <4>3. t[k].batch = n
        <5>1. k \in (Len(s) + 1)..Len(t) /\ Len(s) \in Nat
          BY <1>1, <3>2
        <5>2. t[k].batch = n + k - Len(s) - 1
          BY <1>3, <5>1
        <5>3. n + k - Len(s) - 1 = n
          BY <3>2, <5>1
        <5> QED BY <5>2, <5>3
      <4> QED BY <4>1, <4>2, <4>3
    <3>3. CASE k \in (Len(s) + 2)..Len(t)
      <4>1. k \in (Len(s) + 1)..Len(t) /\ k - 1 \in (Len(s) + 1)..Len(t)
        BY <1>1, <3>3
      <4>2. t[k].batch = n + k - Len(s) - 1 /\ t[k - 1].batch = n + (k - 1) - Len(s) - 1
        BY <1>3, <4>1
      <4> QED BY <1>1, <4>1, <4>2
    <3> QED BY <1>1, <3>1, <3>2, <3>3
  <2> QED BY <2>1, <2>2 DEF Ordered
<1>5. ASSUME Unbroken(s, n) PROVE Unbroken(t, n + Len(g))
  <2>1. Len(s) = n /\ \A k \in 1..Len(s) : s[k].batch = k - 1
    BY <1>5 DEF Unbroken
  <2>2. ASSUME NEW k \in 1..Len(t) PROVE t[k].batch = k - 1
    <3>1. CASE k \in 1..Len(s)
      BY <1>1, <2>1, <3>1
    <3>2. CASE k \in (Len(s) + 1)..Len(t)
      BY <1>1, <1>3, <2>1, <3>2
    <3> QED BY <1>1, <3>1, <3>2
  <2> QED BY <1>1, <2>1, <2>2 DEF Unbroken
<1> QED BY <1>4, <1>5 DEF t

\* The next batch is that of the iteration to come.
LEMMA BatchIsIter ==
  ASSUME TrainingTypeOK, Placed, LoaderKept, AtTraining, job.loop # "IterBasedRunner"
  PROVE  Batch = iter
<1>1. life = "on" /\ Seen = iter /\ job.loop \in EpochLoops \cup IterLoops
  BY TrainingBeforeEnd, TrainingAssumption DEF TrainingTypeOK, Job
<1>2. CASE job.loop \in EpochLoops
  <2>1. pc = "batch"
    BY <1>2 DEF AtTraining, At, EpochLoops
  <2> QED BY <1>1, <1>2, <2>1 DEF Batch, Placed
<1>3. CASE job.loop = "IterBasedTrainLoop"
  BY <1>1, <1>3 DEF Batch, LoaderKept, EpochLoops
<1> QED BY <1>1, <1>2, <1>3 DEF IterLoops

\* The gradients at hand after a batch are those of the iterations behind which
\* the parameters have come.
LEMMA FreshGoesOn ==
  ASSUME LoopInv, LoaderKept, AtTraining, job.loop # "IterBasedRunner"
  PROVE  /\ Behind \in Int /\ Behind + Len(Fresh) = iter + 1
         /\ \A k \in 1..Len(Fresh) : Fresh[k].batch = Behind + k - 1
         /\ Fresh[Len(Fresh)].batch = Fresh[Len(Fresh)].iter
<1>1. /\ TrainingTypeOK /\ Placed /\ Grouped /\ Seen = iter /\ iter \in Nat /\ life = "on"
      /\ grads \in Seq(Gradient) /\ Batch = iter
  BY TrainingBeforeEnd, BatchIsIter DEF LoopInv, TrainingTypeOK
<1>2. /\ Len(Fresh) = Len(Kept) + 1
      /\ \A k \in 1..Len(Kept) : Fresh[k] = Kept[k]
      /\ Fresh[Len(Kept) + 1].batch = iter /\ Fresh[Len(Kept) + 1].iter = iter
  BY <1>1, FreshFacts
<1>3. CASE job.hook \in CumulativeHooks
  <2>1. Kept = grads /\ Len(grads) \in Nat /\ Behind = iter - Len(grads)
    BY <1>1, <1>3 DEF Kept, Behind, Base
  <2>2. \A k \in 1..Len(grads) : grads[k].batch = Behind + k - 1
    BY <1>1, <1>3 DEF Grouped, LoaderKept, Behind
  <2>3. \A k \in 1..Len(Fresh) : Fresh[k].batch = Behind + k - 1
    <3> TAKE k \in 1..Len(Fresh)
    <3>1. CASE k \in 1..Len(grads)
      BY <1>2, <2>1, <2>2, <3>1
    <3>2. CASE k = Len(grads) + 1
      BY <1>1, <1>2, <2>1, <3>2
    <3> QED BY <1>2, <2>1, <3>1, <3>2
  <2> QED BY <1>1, <1>2, <2>1, <2>3
<1>4. CASE job.hook \notin CumulativeHooks
  <2>1. Len(Kept) = 0 /\ Behind = iter
    BY <1>1, <1>4 DEF Kept, Behind
  <2> QED BY <1>1, <1>2, <2>1
<1> QED BY <1>3, <1>4

LEMMA TrainedInit == Init => TrainedInv
<1> SUFFICES ASSUME Init PROVE TrainedInv
  OBVIOUS
<1>1. Ordered(ckpt.params.seen, ckpt.iter) /\ Unbroken(ckpt.params.seen, ckpt.iter)
  BY DEF Init, NoParams, Ordered, Unbroken
<1> QED BY <1>1 DEF Init, TrainedInv, LoaderKept, History, Flushed

LEMMA TrainedLaunch ==
  ASSUME LoopInv, TrainedInv, Launch
  PROVE  TrainedInv'
<1>1. /\ job' = job /\ ckpt' = ckpt /\ life' = "on" /\ pc' = "loop"
      /\ iter' = ckpt.iter /\ drawn' = DrawnBefore(ckpt.iter) /\ grads' = <<>>
      /\ params' = ckpt.params /\ ckpt.iter \in Nat
  BY DEF Launch, LoopInv, TrainingTypeOK, Checkpoint
<1>2. Seen' = ckpt.iter
  BY <1>1 DEF Seen
<1>3. Base' = ckpt.iter
  <2>1. Base' = Seen' - Len(grads')
    BY Zenon DEF Base
  <2>2. Len(grads') = 0
    BY <1>1
  <2>3. \A n \in Nat : n - 0 = n
    OBVIOUS
  <2> QED BY <1>1, <1>2, <2>1, <2>2, <2>3, Zenon
<1>4. Behind' = ckpt.iter
  BY <1>2, <1>3, Zenon DEF Behind
<1>5. CASE job.loop # "IterBasedRunner"
  <2>1. LoaderKept'
    BY <1>1, <1>2 DEF LoaderKept, DrawnBefore
  <2>2. History'
    BY <1>1, <1>4, <1>5 DEF TrainedInv, History, WholeGroups, Ordered, Unbroken
  <2>3. Flushed'
    BY <1>1 DEF Flushed
  <2> QED BY <1>1, <2>1, <2>2, <2>3 DEF TrainedInv
<1>6. CASE job.loop = "IterBasedRunner"
  <2>1. Flushed'
    BY <1>1 DEF Flushed
  <2> QED BY <1>1, <1>6, <2>1 DEF TrainedInv
<1> QED BY <1>5, <1>6

LEMMA TrainedIter ==
  ASSUME LoopInv, TrainedInv, TrainIter
  PROVE  TrainedInv'
<1>1. /\ TrainingTypeOK /\ Placed /\ Grouped /\ AtTraining /\ life = "on" /\ iter < MaxIters
      /\ Seen = iter /\ iter \in Nat /\ drawn \in Nat /\ grads \in Seq(Gradient)
      /\ Fresh \in Seq(Gradient) /\ params.seen \in Seq(Gradient)
  BY TrainingBeforeEnd, FreshFacts DEF LoopInv, TrainIter, TrainingTypeOK, Params
<1>2. /\ UNCHANGED <<job, life, start, iter, ckpt>> /\ drawn' = drawn + 1 /\ pc' = "hooks"
      /\ Seen' = iter + 1 /\ MaxIters' = MaxIters
  BY DEF TrainIter, Seen, MaxIters
<1>3. CASE StepDue
  <2>0. OptimizerStep(Fresh)
    BY <1>3 DEF TrainIter, Fresh
  <2>1. params'.seen = params.seen \o Fresh /\ grads' = Left(Fresh)
    BY <2>0 DEF OptimizerStep
  <2>2. job.hook \in CumulativeHooks => grads' = <<>>
    BY <2>1 DEF Left
  <2>3. Behind' = iter + 1
    <3>1. CASE job.hook \in CumulativeHooks
      <4>1. Base' = Seen' - Len(grads') /\ Len(grads') = 0
        BY <2>2, <3>1, Zenon DEF Base
      <4>2. iter + 1 - 0 = iter + 1
        BY <1>1
      <4> QED BY <1>2, <3>1, <4>1, <4>2 DEF Behind
    <3>2. CASE job.hook \notin CumulativeHooks
      BY <1>2, <3>2 DEF Behind
    <3> QED BY <3>1, <3>2
  <2>4. ASSUME job.loop # "IterBasedRunner" PROVE LoaderKept' /\ History'
    <3>1. LoaderKept /\ History
      BY <2>4 DEF TrainedInv
    <3>2. LoaderKept'
      BY <1>1, <1>2, <2>2, <3>1 DEF LoaderKept
    <3>3. /\ Behind \in Int /\ Behind + Len(Fresh) = iter + 1
          /\ \A k \in 1..Len(Fresh) : Fresh[k].batch = Behind + k - 1
      BY <1>1, <2>4, <3>1, FreshGoesOn
    <3>4. /\ Ordered(params.seen, Behind) => Ordered(params'.seen, iter + 1)
          /\ Unbroken(params.seen, Behind) => Unbroken(params'.seen, iter + 1)
      BY <1>1, <2>1, <3>3, ListGoesOn
    <3>5. /\ Ordered(params'.seen, Behind')
          /\ WholeGroups => Unbroken(params'.seen, Behind')
      BY <1>1, <2>3, <3>1, <3>4 DEF History
    <3>6. History'
      BY <1>2, <3>1, <3>5 DEF History, WholeGroups, Ordered, Unbroken
    <3> QED BY <3>2, <3>6
  <2>5. Flushed'
    BY <1>1, <1>2, <2>2 DEF Flushed
  <2> QED BY <1>2, <2>4, <2>5 DEF TrainedInv
<1>4. CASE ~StepDue
  <2>1. /\ grads' = Fresh /\ params' = params /\ job.hook \in CumulativeHooks /\ Kept = grads
        /\ iter + 1 # MaxIters
    BY <1>4 DEF TrainIter, Fresh, StepDue, Kept
  <2>2. Len(Fresh) = Len(grads) + 1 /\ \A k \in 1..Len(grads) : Fresh[k] = grads[k]
    BY <1>1, <2>1, FreshFacts
  <2>3. Behind' = Behind
    <3>1. Base' = iter + 1 - (Len(grads) + 1) /\ Base = iter - Len(grads) /\ Len(grads) \in Nat
      BY <1>1, <1>2, <2>1, <2>2 DEF Base
    <3>2. Base' = Base
      BY <1>1, <3>1
    <3> QED BY <1>2, <2>1, <3>2 DEF Behind
  <2>4. ASSUME job.loop # "IterBasedRunner" PROVE LoaderKept' /\ History'
    <3>1. LoaderKept /\ History
      BY <2>4 DEF TrainedInv
    <3>2. \A k \in 1..Len(Fresh) : Fresh[k].batch = Fresh[k].iter
      <4> TAKE k \in 1..Len(Fresh)
      <4>1. CASE k \in 1..Len(grads)
        BY <1>1, <2>1, <2>2, <3>1, <4>1 DEF LoaderKept
      <4>2. CASE k = Len(Fresh)
        BY <1>1, <2>4, <3>1, <4>2, FreshGoesOn
      <4> QED BY <1>1, <2>2, <4>1, <4>2
    <3>3. LoaderKept'
      BY <1>1, <1>2, <2>1, <3>1, <3>2 DEF LoaderKept
    <3>4. History'
      BY <1>2, <2>1, <2>3, <3>1 DEF History, WholeGroups, Ordered, Unbroken
    <3> QED BY <3>3, <3>4
  <2>5. Flushed'
    BY <1>1, <1>2, <2>1 DEF Flushed
  <2> QED BY <1>2, <2>4, <2>5 DEF TrainedInv
<1> QED BY <1>3, <1>4

\* The steps that train nothing and save nothing.
LEMMA TrainedSame ==
  ASSUME TrainedInv, UNCHANGED <<job, grads, params, ckpt>>,
         life' \in {life, "braked", "off"}, life = "on" => Seen' = Seen,
         life = "on" /\ life' = "on" /\ job.loop = "IterBasedTrainLoop" => drawn' = drawn,
         life = "ended" => iter' = iter
  PROVE  TrainedInv'
<1>1. MaxIters' = MaxIters
  BY DEF MaxIters
<1>2. life' = "on" => life = "on" /\ Seen' = Seen /\ Behind' = Behind
  BY DEF Behind, Base
<1>3. Flushed'
  BY <1>1, <1>2 DEF TrainedInv, Flushed, InFlight
<1>4. ASSUME job.loop # "IterBasedRunner" PROVE LoaderKept' /\ History'
  BY <1>2, <1>4 DEF TrainedInv, LoaderKept, History, WholeGroups, Ordered, Unbroken
<1> QED BY <1>3, <1>4 DEF TrainedInv

\* A checkpoint is written behind an iteration of mmengine's, and behind an epoch.
LEMMA TrainedCheckpoint ==
  ASSUME LoopInv, TrainedInv, CheckpointIter
  PROVE  TrainedInv'
<1>1. /\ life = "on" /\ pc = "hooks" /\ pc' = "count" /\ UNCHANGED <<job, life, loop, model>>
  BY DEF CheckpointIter, At
<1>2. iter \in Nat /\ Seen = iter + 1 /\ Seen' = Seen /\ job \in Jobs
  BY <1>1 DEF LoopInv, TrainingTypeOK, Seen, loop
<1>3. CASE ckpt' = ckpt
  BY <1>1, <1>2, <1>3, TrainedSame DEF loop, model
<1>4. CASE job.loop = "IterBasedRunner"
  <2>1. Flushed'
    BY <1>1, <1>2 DEF TrainedInv, Flushed, InFlight, MaxIters, loop, model
  <2> QED BY <1>1, <1>4, <2>1 DEF TrainedInv
<1>5. CASE job.loop \in IterLoops /\ job.loop # "IterBasedRunner" /\ Save(iter + 1, epoch)
  <2>1. job.loop = "IterBasedTrainLoop" /\ job.hook = "OptimizerHook"
    BY <1>2, <1>5, TrainingAssumption DEF IterLoops
  <2>2. job.hook \notin CumulativeHooks
    BY <2>1 DEF CumulativeHooks
  <2>3. Behind = Seen /\ Behind' = Behind
    BY <1>1, <1>2, <2>2 DEF Behind, model
  <2>4. ckpt'.iter = iter + 1 /\ ckpt'.params = params
    BY <1>5 DEF Save
  <2>5. History'
    BY <1>1, <1>2, <1>5, <2>3, <2>4
       DEF TrainedInv, History, WholeGroups, Ordered, Unbroken, model
  <2>6. LoaderKept'
    BY <1>1, <1>2, <1>5 DEF TrainedInv, LoaderKept, loop, model
  <2>7. Flushed'
    BY <1>1, <1>2 DEF TrainedInv, Flushed, InFlight, MaxIters, loop, model
  <2> QED BY <2>5, <2>6, <2>7 DEF TrainedInv
<1> QED BY <1>3, <1>4, <1>5 DEF CheckpointIter

LEMMA TrainedEpoch ==
  ASSUME LoopInv, TrainedInv, EndEpoch
  PROVE  TrainedInv'
<1>1. /\ job.loop \in EpochLoops /\ life = "on" /\ pc = "batch" /\ drawn = job.len
      /\ pc' \in {"loop", "validate"}
      /\ UNCHANGED <<job, life, start, iter, drawn, model>>
      /\ (ckpt' = ckpt \/ Save(iter, epoch + 1))
  BY DEF EndEpoch, At
<1>2. /\ iter \in Nat /\ epoch \in Nat /\ Seen = iter /\ Seen' = Seen /\ grads \in Seq(Gradient)
      /\ job.loop \notin IterLoops /\ job.len \in Nat \ {0} /\ job.cumulative \in Nat \ {0}
      /\ start \in Nat /\ Grouped /\ iter = epoch * job.len + job.len
  BY <1>1, JobFacts DEF LoopInv, TrainingTypeOK, Seen, EpochLoops, IterLoops, Placed
<1>3. CASE ckpt' = ckpt
  BY <1>1, <1>2, <1>3, TrainedSame DEF model, IterLoops
<1>4. CASE Save(iter, epoch + 1)
  <2>1. ckpt'.iter = iter /\ ckpt'.params = params
    BY <1>4 DEF Save
  <2>2. LoaderKept /\ History
    BY <1>1 DEF TrainedInv, EpochLoops
  <2>3. Behind' = Behind /\ Behind <= iter
    BY <1>1, <1>2 DEF Behind, Base, model
  <2>4. WholeGroups => Behind = iter
    <3> SUFFICES ASSUME job.hook \in CumulativeHooks, job.len % job.cumulative = 0
                 PROVE  grads = <<>>
      BY <1>2 DEF WholeGroups, Behind, Base
    <3>1. iter % job.cumulative = 0
      <4> DEFINE c == job.cumulative
                 len == job.len
      <4>1. PICK p \in Nat : len = c * p
        BY <1>2, IsMultiple, Zenon
      <4>2. iter = epoch * len + len /\ c \in Nat \ {0}
        BY <1>2
      <4> HIDE DEF c, len
      <4>3. iter = c * (epoch * p + p)
        BY <1>2, <4>1, <4>2
      <4>4. epoch * p + p \in Nat
        BY <1>2
      <4>5. (c * (epoch * p + p)) % c = 0
        BY <4>2, <4>4, NoRemainder
      <4> QED BY <4>3, <4>5 DEF c
    <3> SUFFICES ASSUME grads # <<>> PROVE FALSE
      OBVIOUS
    <3>2. Base = iter - Len(grads) /\ Len(grads) \in Nat \ {0} /\ Base >= start
      BY <1>1, <1>2 DEF Base, Grouped
    <3>3. iter \in (Base + 1)..Seen
      BY <1>2, <3>2
    <3> QED BY <1>1, <1>2, <3>1, <3>3 DEF Grouped
  <2>5. Ordered(params.seen, iter)
    <3>1. Ordered(params.seen, Behind) /\ Behind \in Int
      BY <1>1, <1>2, <2>2 DEF History, Behind, Base
    <3>2. \A k \in 1..Len(params.seen) : params.seen[k].batch \in Nat
      <4>1. params.seen \in Seq(Gradient)
        BY DEF LoopInv, TrainingTypeOK, Params
      <4> TAKE k \in 1..Len(params.seen)
      <4>2. params.seen[k] \in Gradient
        BY <4>1
      <4> QED BY <4>2 DEF Gradient
    <3>3. \A k \in 1..Len(params.seen) : params.seen[k].batch < iter
      BY <1>2, <2>3, <3>1, <3>2 DEF Ordered
    <3> QED BY <3>1, <3>3 DEF Ordered
  <2>6. History'
    BY <1>1, <2>1, <2>2, <2>3, <2>4, <2>5 DEF History, WholeGroups, Ordered, Unbroken, model
  <2>7. LoaderKept'
    BY <1>1, <1>2, <2>2 DEF LoaderKept, model, IterLoops
  <2>8. Flushed'
    BY <1>1, <1>2 DEF TrainedInv, Flushed, InFlight, MaxIters, model
  <2> QED BY <2>6, <2>7, <2>8 DEF TrainedInv
<1> QED BY <1>1, <1>3, <1>4

LEMMA TrainedStep == LoopInv /\ TrainedInv /\ [Next]_vars => TrainedInv'
<1> SUFFICES ASSUME LoopInv, TrainedInv, [Next]_vars PROVE TrainedInv'
  OBVIOUS
<1>0. iter \in Nat
  BY DEF LoopInv, TrainingTypeOK
<1>1. CASE Launch
  BY <1>1, TrainedLaunch
<1>2. CASE TrainIter
  BY <1>2, TrainedIter
<1>3. CASE CheckpointIter
  BY <1>3, TrainedCheckpoint
<1>4. CASE EndEpoch
  BY <1>4, TrainedEpoch
<1>5. CASE CountIter
  <2>1. /\ life = "on" /\ pc = "count" /\ iter' = iter + 1 /\ life' \in {"on", "braked"}
        /\ life' = "on" => pc' = AfterIter
        /\ UNCHANGED <<job, drawn, model, ckpt>>
    BY <1>5 DEF CountIter, At, BrakeOr
  <2>2. AfterIter \notin {"hooks", "count"}
    BY DEF AfterIter
  <2>3. life' = "on" => Seen' = Seen
    BY <1>0, <2>1, <2>2 DEF Seen
  <2>4. CASE life' = "on"
    BY <2>1, <2>3, <2>4, TrainedSame DEF model
  <2>5. CASE life' = "braked"
    <3>1. Flushed' /\ LoaderKept'
      BY <2>5 DEF Flushed, LoaderKept
    <3>2. job.loop # "IterBasedRunner" => History'
      BY <2>1, <2>5 DEF TrainedInv, History, WholeGroups, Ordered, Unbroken
    <3> QED BY <2>1, <3>1, <3>2 DEF TrainedInv
  <2> QED BY <2>1, <2>4, <2>5
<1>6. CASE BeginEpoch \/ Validate \/ BeginWorkflow \/ NextFlow \/ ValIter
  <2>1. /\ life = "on" /\ pc \notin {"hooks", "count"} /\ life' \in {"on", "braked"}
        /\ pc' \notin {"hooks", "count"} /\ UNCHANGED <<job, iter, model, ckpt>>
    BY <1>6 DEF BeginEpoch, Validate, BeginWorkflow, NextFlow, ValIter, At, BrakeOr
  <2>2. job.loop = "IterBasedTrainLoop" => drawn' = drawn
    BY <1>6 DEF BeginEpoch, Validate, BeginWorkflow, NextFlow, ValIter, EpochLoops
  <2>3. Seen' = Seen
    BY <2>1 DEF Seen
  <2> QED BY <2>1, <2>2, <2>3, TrainedSame DEF model
<1>7. CASE Restart
  <2>1. UNCHANGED <<job, ckpt, grads, params, iter, drawn, pc>> /\ life' = "off"
        /\ life \in {"on", "braked"}
    BY <1>7 DEF Restart, loop, model
  <2>2. Seen' = Seen
    BY <2>1 DEF Seen
  <2> QED BY <2>1, <2>2, TrainedSame
<1>8. CASE Finish
  <2>1. /\ life = "on" /\ pc = "loop" /\ life' = "ended" /\ ~Continues
        /\ UNCHANGED <<job, pc, loop, model, ckpt>>
    BY <1>8 DEF Finish, At
  <2>2. Seen = iter /\ MaxIters' = MaxIters
    BY <1>0, <2>1 DEF Seen, MaxIters
  <2>3. Flushed'
    BY <2>1, <2>2 DEF TrainedInv, Flushed, InFlight, loop, model
  <2>4. LoaderKept'
    BY <2>1 DEF LoaderKept
  <2>5. job.loop # "IterBasedRunner" => History'
    BY <2>1 DEF TrainedInv, History, WholeGroups, Ordered, Unbroken
  <2> QED BY <2>1, <2>3, <2>4, <2>5 DEF TrainedInv
<1>9. CASE UNCHANGED vars
  <2>1. UNCHANGED <<job, ckpt, grads, params, life, iter, drawn, pc>>
    BY <1>9 DEF vars, loop, model
  <2>2. Seen' = Seen
    BY <2>1 DEF Seen
  <2> QED BY <2>1, <2>2, TrainedSame
<1> QED BY <1>1, <1>2, <1>3, <1>4, <1>5, <1>6, <1>7, <1>8, <1>9 DEF Next, Work, Over

-----------------------------------------------------------------------------
(* The theorems *)

\* Every variable keeps its type, however often the job crashes: no loss is
\* divided by a remainder of zero.
THEOREM LoopTypes == Spec => []TrainingTypeOK
<1>1. LoopInv => TrainingTypeOK
  BY DEF LoopInv
<1> QED BY <1>1, LoopAlways, PTL

\* The brake stops a process at its step exactly, in every loop and after any
\* resume from before that step, and never a process that began at it or beyond.
THEOREM BrakeExact == Spec => []BrakeStops
<1>1. LoopInv => BrakeStops
  BY DEF LoopInv
<1> QED BY <1>1, LoopAlways, PTL

\* Each step of the optimizer takes the mean of the losses of its group, for
\* any size of a group and any length of the run; the group that a resume cut
\* into is lighter and never heavier.
THEOREM StepsAreMeans == Spec => StepsTakeMeans
<1> DEFINE Mean == Len(params'.seen) > Len(params.seen)
                     => MeanOf(Stepped) \/ CutByResume(Stepped)
<1>1. LoopInv /\ [Next]_vars => [Mean]_vars
  <2> SUFFICES ASSUME LoopInv, Next, Len(params'.seen) > Len(params.seen)
               PROVE  MeanOf(Stepped) \/ CutByResume(Stepped)
    BY DEF vars
  <2>1. TrainingTypeOK /\ Placed /\ Saved /\ Grouped
    BY DEF LoopInv
  <2>2. TrainIter /\ StepDue
    <3>1. params.seen \in Seq(Gradient) /\ ckpt.params.seen \in Seq(Gradient)
      BY <2>1 DEF TrainingTypeOK, Params, Checkpoint
    <3>2. params' # params /\ Len(params.seen) \in Nat /\ Len(ckpt.params.seen) \in Nat
      BY <3>1
    <3>3. ~Launch
      BY <2>1, <3>2 DEF Launch, Saved
    <3>4. TrainIter
      BY <3>2, <3>3 DEF Next, Work, Restart, Over, Finish, CheckpointIter, CountIter, BeginEpoch,
         EndEpoch, Validate, BeginWorkflow, NextFlow, ValIter, vars, model
    <3> QED BY <3>2, <3>4 DEF TrainIter
  <2>3. AtTraining
    BY <2>2 DEF TrainIter
  <2>4. Fresh \in Seq(Gradient) /\ params'.seen = params.seen \o Fresh
        /\ params.seen \in Seq(Gradient)
    <3>1. params.seen \in Seq(Gradient) /\ Fresh \in Seq(Gradient)
      BY <2>1, <2>3, FreshFacts DEF TrainingTypeOK, Params
    <3>2. OptimizerStep(Fresh)
      BY <2>2 DEF TrainIter, Fresh
    <3>3. params'.seen = params.seen \o Fresh
      BY <3>2 DEF OptimizerStep
    <3> QED BY <3>1, <3>3
  <2>5. /\ Len(Stepped) = Len(Fresh)
        /\ \A k \in 1..Len(Fresh) : Stepped[k] = Fresh[k]
        /\ DOMAIN Stepped = 1..Len(Fresh)
    BY <2>4 DEF Stepped
  <2>6. CASE job.hook \notin CumulativeHooks
    <3>1. Len(Kept) = 0
      BY <2>6 DEF Kept
    <3>2. Len(Fresh) = 1 /\ Fresh[1].factor = 1
      BY <2>1, <2>3, <2>6, <3>1, FreshFacts, LossFactorFacts
    <3> QED BY <2>5, <3>2 DEF MeanOf
  <2>7. CASE job.hook \in CumulativeHooks
    <3> DEFINE c == job.cumulative
    <3>1. /\ Kept = grads /\ grads \in Seq(Gradient) /\ Len(Fresh) = Len(grads) + 1
          /\ \A k \in 1..Len(grads) : Fresh[k] = grads[k]
          /\ Fresh[Len(grads) + 1].iter = iter
          /\ Fresh[Len(grads) + 1].factor = FactorAt(iter)
      BY <2>1, <2>3, <2>7, FreshFacts, LossFactorFacts DEF Kept, TrainingTypeOK
    <3>2. /\ life = "on" /\ iter < MaxIters /\ Seen = iter /\ iter \in Nat /\ start \in Nat
          /\ c \in Nat \ {0} /\ MaxIters \in Nat
      BY <2>1, <2>3, TrainingBeforeEnd, JobFacts DEF TrainingTypeOK
    <3>3. Base = iter - Len(grads) /\ Len(grads) \in Nat
      BY <3>1, <3>2 DEF Base
    <3>4. Base >= start
      BY <2>1, <2>7, <3>2 DEF Grouped
    <3>5. Base \in Nat /\ Base <= iter /\ Len(Fresh) = iter + 1 - Base
      BY <3>1, <3>2, <3>3, <3>4
    <3>6. \A k \in 1..Len(Fresh) :
            Fresh[k].iter = Base + k - 1 /\ Fresh[k].factor = FactorAt(Base + k - 1)
      <4> TAKE k \in 1..Len(Fresh)
      <4>1. CASE k \in 1..Len(grads)
        BY <2>1, <2>7, <3>1, <3>2, <4>1 DEF Grouped
      <4>2. CASE k = Len(grads) + 1
        <5>1. Base + k - 1 = iter
          BY <3>2, <3>3, <4>2
        <5> QED BY <3>1, <4>2, <5>1
      <4> QED BY <3>1, <3>3, <4>1, <4>2
    <3>7. \A m \in (Base + 1)..iter : m % c # 0
      <4> SUFFICES ASSUME NEW m \in (Base + 1)..iter PROVE m % c # 0
        OBVIOUS
      <4>1. grads # <<>>
        BY <3>1, <3>2, <3>3
      <4> QED BY <2>1, <2>7, <3>2, <4>1 DEF Grouped
    <3>8. (iter + 1) % c = 0 \/ iter + 1 = MaxIters
      BY <2>2, <2>7 DEF StepDue
    <3>9. \A k \in 1..Len(Fresh) :
            /\ Fresh[k].factor >= Len(Fresh)
            /\ Base % c = 0 => Fresh[k].factor = Len(Fresh)
      <4> TAKE k \in 1..Len(Fresh)
      <4> DEFINE x == Base + k - 1
                 f == FactorAt(x)
      <4>1. x \in Base..iter
        BY <3>2, <3>5
      <4>2. f = IF x < MaxIters - (MaxIters - ((MaxIters \div c) * c))
                  THEN c ELSE MaxIters - ((MaxIters \div c) * c)
        BY DEF FactorAt, Remainder
      <4>3. Fresh[k].factor = f
        BY <3>6
      <4> HIDE DEF x, f, c
      <4>4. f >= iter + 1 - Base /\ (Base % c = 0 => f = iter + 1 - Base)
        BY <3>2, <3>5, <3>7, <3>8, <4>1, <4>2, GroupShares, Zenon
      <4> QED BY <3>5, <4>3, <4>4
    <3>10. CASE Base % c = 0
      BY <2>5, <3>9, <3>10 DEF MeanOf
    <3>11. CASE Base % c # 0
      <4>1. Base = start
        <5>1. ~(Base >= MaxIters)
          BY <3>2, <3>5
        <5> QED BY <2>1, <2>7, <3>2, <3>11, <5>1 DEF Grouped
      <4>2. 1 \in 1..Len(Fresh) /\ Base + 1 - 1 = Base
        BY <3>1, <3>3, <3>5
      <4>3. Stepped[1].iter = start
        BY <2>5, <3>6, <4>1, <4>2
      <4> QED BY <2>5, <3>9, <3>11, <4>1, <4>3 DEF CutByResume
    <3> QED BY <3>10, <3>11
  <2> QED BY <2>6, <2>7
<1> QED BY <1>1, LoopAlways, PTL DEF Spec, StepsTakeMeans

\* The loss scale of a resumed process is that of its parameters, whatever the
\* scaler skipped and whenever the job crashed.
THEOREM ScalerFollows == Spec => []ScalerKept
<1> DEFINE ScalerSaved == /\ ckpt.params.skips \in Nat
                          /\ job.loop # "IterBasedRunner" => ckpt.scaler = ckpt.params.skips
           Inv == ScalerKept /\ ScalerSaved
<1>1. Init => Inv
  BY DEF Init, ScalerKept, NoParams
<1>2. LoopInv /\ Inv /\ [Next]_vars => Inv'
  <2> SUFFICES ASSUME LoopInv, Inv, [Next]_vars PROVE Inv'
    OBVIOUS
  <2>1. /\ scaler \in Nat /\ params.skips \in Nat
        /\ ckpt.params.skips \in Nat
    BY DEF LoopInv, TrainingTypeOK, Params, Checkpoint
  <2>2. CASE Launch
    BY <2>1, <2>2 DEF Launch, ScalerAfterResume, ScalerKept
  <2>3. CASE TrainIter
    <3>1. \/ UNCHANGED <<params, scaler>>
          \/ \E d \in {0, 1} : params'.skips = params.skips + d /\ scaler' = scaler + d
      <4>1. ASSUME NEW g, OptimizerStep(g)
            PROVE  \E d \in {0, 1} : params'.skips = params.skips + d /\ scaler' = scaler + d
        <5>1. PICK finite \in StepOutcomes :
                /\ params' = [seen |-> params.seen \o g,
                              skips |-> params.skips + (IF finite THEN 0 ELSE 1)]
                /\ scaler' = scaler + (IF finite THEN 0 ELSE 1)
          BY <4>1 DEF OptimizerStep
        <5>2. params'.skips = params.skips + (IF finite THEN 0 ELSE 1)
          BY <5>1
        <5> QED BY <5>1, <5>2
      <4> QED BY <2>3, <4>1 DEF TrainIter
    <3>2. UNCHANGED <<life, job, ckpt>> /\ life = "on"
      BY <2>3 DEF TrainIter, AtTraining, At
    <3> QED BY <2>1, <3>1, <3>2 DEF ScalerKept
  <2>4. ASSUME life = "on", UNCHANGED <<job, params, scaler>>,
               UNCHANGED ckpt \/ \E i, e \in Nat : Save(i, e)
        PROVE  Inv'
    BY <2>1, <2>4 DEF ScalerKept, Save
  <2>5. CASE \/ CheckpointIter \/ CountIter \/ BeginEpoch \/ EndEpoch \/ Validate
             \/ BeginWorkflow \/ NextFlow \/ ValIter
    <3>1. iter \in Nat /\ epoch \in Nat
      BY DEF LoopInv, TrainingTypeOK
    <3> QED BY <2>4, <2>5, <3>1 DEF CheckpointIter, CountIter, BeginEpoch, EndEpoch, Validate,
                 BeginWorkflow, NextFlow, ValIter, At, model, loop
  <2>6. CASE Restart \/ Finish \/ UNCHANGED vars
    BY <2>1, <2>6 DEF Restart, Finish, vars, model, loop, ScalerKept
  <2> QED BY <2>2, <2>3, <2>5, <2>6 DEF Next, Work, Over
<1>3. Inv => ScalerKept
  OBVIOUS
<1> QED BY <1>1, <1>2, <1>3, LoopAlways, PTL DEF Spec

\* No batch trains the parameters twice, whenever the job crashes and whatever
\* the checkpoint of its last process holds; where groups of gradients do not span
\* epochs none is left out either, and a run that comes to its end leaves no
\* gradient behind.
THEOREM BatchesOnce == Spec => []EachBatchOnce
<1>1. LoopInv /\ TrainedInv => EachBatchOnce
  <2> SUFFICES ASSUME LoopInv, TrainedInv PROVE EachBatchOnce
    OBVIOUS
  <2>1. life = "ended" /\ iter = MaxIters => InFlight = <<>>
    BY DEF TrainedInv, Flushed
  <2>2. ASSUME life = "on", job.loop # "IterBasedRunner"
        PROVE  Increasing /\ (WholeGroups => Gapless)
    <3>1. LoaderKept /\ History /\ Grouped
      BY <2>2 DEF TrainedInv, LoopInv
    <3>2. /\ params.seen \in Seq(Gradient) /\ grads \in Seq(Gradient) /\ iter \in Nat
          /\ Seen \in Nat
      BY DEF LoopInv, TrainingTypeOK, Params, Seen
    <3>3. /\ InFlight \in Seq(Gradient) /\ Behind \in Int
          /\ Behind + Len(InFlight) = Seen
          /\ \A k \in 1..Len(InFlight) : InFlight[k].batch = Behind + k - 1
      <4>1. CASE job.hook \in CumulativeHooks
        BY <2>2, <3>1, <3>2, <4>1 DEF InFlight, Behind, Base, LoaderKept, Grouped
      <4>2. CASE job.hook \notin CumulativeHooks
        <5>1. InFlight = <<>> /\ Behind = Seen /\ Len(InFlight) = 0
          BY <4>2 DEF InFlight, Behind
        <5>2. Seen + 0 = Seen /\ <<>> \in Seq(Gradient)
          BY <3>2
        <5> QED BY <3>2, <5>1, <5>2
      <4> QED BY <4>1, <4>2
    <3>4. /\ Ordered(Trained, Seen)
          /\ WholeGroups => Unbroken(Trained, Seen)
      BY <2>2, <3>1, <3>2, <3>3, ListGoesOn DEF Trained, History
    <3> QED BY <3>4 DEF Increasing, Gapless, Ordered, Unbroken, Seen
  <2> QED BY <2>1, <2>2 DEF EachBatchOnce, WholeGroups
<1>2. Spec => []TrainedInv
  BY TrainedInit, TrainedStep, LoopAlways, PTL DEF Spec
<1> QED BY <1>1, <1>2, LoopAlways, PTL
=============================================================================
