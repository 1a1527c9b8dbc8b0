------------------------------ MODULE Samplers ------------------------------
(***************************************************************************)
(* The load-balancing samplers of mx_driving (dataset/utils/               *)
(* dynamic_sampler.py, dataset/agent_dataset.py) over the buckets of its   *)
(* dynamic datasets (dataset/utils/dynamic_dataset.py, agent_dataset.py),  *)
(* used by the processes of a distributed training (the ranks).            *)
(*                                                                         *)
(* Each rank draws its own list of samples for each epoch, without asking  *)
(* the others, and takes it batch by batch; every batch ends in a          *)
(* collective operation that waits for all ranks.  That the lists fit      *)
(* together rests on every rank computing the same shuffled order from the *)
(* same seed and epoch.                                                    *)
(*                                                                         *)
(* The samples are numbered in the order the dataset sorted them in, so a  *)
(* bucket is a range of them.  The trainer and its collective operations   *)
(* are external.                                                           *)
(***************************************************************************)
EXTENDS Integers, SequencesExt, FiniteSetsExt, TLC

CONSTANTS
  Trainings,  \* bound: the trainings that are run
  Epochs      \* bound: how many epochs each of them lasts

SamplerKinds == {"DynamicDistributedSampler", "ReplicasDistributedSampler",
                 "AgentDynamicBatchSampler"}

Training ==
  [ buckets : Seq(Seq(Nat)),  \* of the dataset
    sampler : SamplerKinds,
    num_replicas : Nat \ {0},
    shuffle : BOOLEAN,
    drop_last : BOOLEAN,      \* AgentDynamicBatchSampler only
    batch_size : Nat \ {0},
    tells : BOOLEAN ]         \* whether the trainer calls set_epoch()

\* The samples are numbered bucket by bucket.
Numbered(buckets) ==
  FlattenSeq(buckets) = [i \in 1..Len(FlattenSeq(buckets)) |-> i - 1]

ASSUME SamplersAssumption ==
  /\ Epochs \in Nat \ {0}
  /\ \A t \in Trainings : t \in Training /\ t.buckets # <<>> /\ Numbered(t.buckets)

VARIABLES
  training,
  orders,    \* what the generator makes of an epoch; NoOrder before it is asked
  round,     \* the epoch each rank is in
  epoch,     \* what its sampler believes it to be (self.epoch)
  rest,      \* the samples each rank has still to take, or NotDrawn
  batch,     \* the batch each rank is training, <<>> between two batches
  failed,    \* the ranks whose sampler raised
  given      \* history: epoch -> rank -> the batches it was given

vars == <<training, orders, round, epoch, rest, batch, failed, given>>

Buckets == training.buckets
R == training.num_replicas
Ranks == 0..(R - 1)
InOrder == FlattenSeq(Buckets)
Size == Len(InOrder)
Samples == 0..(Size - 1)

NoOrder == <<-1>>
NotDrawn == <<-1>>

-----------------------------------------------------------------------------
(* Bucketing *)

\* A run of `size' samples from number `from' on.
Slice(from, size) == [i \in 1..size |-> from + i - 1]

\* UniformBucketingDynamicDataset.bucketing
UniformBuckets(n, num_buckets) ==
  [b \in 1..num_buckets |->
     LET size == n \div num_buckets
         extra == n % num_buckets
     IN Slice((b - 1) * size + Min({b - 1, extra}),
               size + (IF b - 1 < extra THEN 1 ELSE 0))]

\* CapacityBucketingDynamicDataset.bucketing
CapacityBuckets(n, capacity) ==
  [b \in 1..((n + capacity - 1) \div capacity) |->
     Slice((b - 1) * capacity, Min({capacity, n - (b - 1) * capacity}))]

\* AgentDynamicDataset.sorting and bucketing: samples with the same tens of
\* agents share a bucket, and no bucket is empty.  agents_num comes sorted.
AgentBuckets(agents_num) ==
  LET tens(i) == agents_num[i] \div 10
      starts == {i \in DOMAIN agents_num : i = 1 \/ tens(i) # tens(i - 1)}
      first == SetToSortSeq(starts, <)
  IN [b \in DOMAIN first |->
        Slice(first[b] - 1,
               (IF b < Len(first) THEN first[b + 1] ELSE Len(agents_num) + 1) - first[b])]

-----------------------------------------------------------------------------
(* The order of an epoch *)

\* torch.randperm: a permutation of the positions of a sequence.
Shuffles(s) == {[i \in DOMAIN s |-> s[p[i]]] : p \in Bijection(DOMAIN s, DOMAIN s)}

\* The buckets in any order, each of them shuffled.
ShuffledBuckets ==
  UNION { {f \in [DOMAIN bs -> UNION {Shuffles(Buckets[i]) : i \in DOMAIN Buckets}] :
             \A b \in DOMAIN bs : f[b] \in Shuffles(bs[b])} :
          bs \in Shuffles(Buckets) }

\* Mutant: a bucket goes to one replica as a whole.
DealtWhole(bs) ==
  [r \in 1..R |-> FlattenSeq([b \in DOMAIN bs |-> IF b % R = r - 1 THEN bs[b] ELSE <<>>])]

\* ReplicasDistributedSampler deals every bucket out, one sample a replica.
Dealt(bs) ==
  [r \in 1..R |-> FlattenSeq([b \in DOMAIN bs |->
     IF r <= Len(bs[b]) THEN <<bs[b][r]>> ELSE <<>>])]

\* bucket_arange
Arrangements ==
  IF training.sampler = "ReplicasDistributedSampler"
    THEN UNION {{FlattenSeq(d) : d \in Shuffles(Dealt(bs))} : bs \in ShuffledBuckets}
    ELSE {FlattenSeq(bs) : bs \in ShuffledBuckets}

\* replicas_buckets[i] of a bucket with more samples than replicas.
DealFails ==
  /\ training.sampler = "ReplicasDistributedSampler" /\ training.shuffle
  /\ \E b \in DOMAIN Buckets : Len(Buckets[b]) > R

-----------------------------------------------------------------------------
(* The list of one rank *)

DropsLast == training.sampler = "AgentDynamicBatchSampler" /\ training.drop_last

\* num_samples
NumSamples ==
  IF DropsLast THEN Size \div R ELSE (Size + R - 1) \div R

TotalSize == NumSamples * R

\* Padded with a slice of itself, or cut, to total_size.
Even(s) == SubSeq(s, 1, Min({TotalSize, Len(s)}))
             \o SubSeq(s, 1, Min({TotalSize - Len(s), Len(s)}))

\* Subsampling: a part in one piece, or every R-th sample.
Share(s, r) ==
  IF training.sampler = "AgentDynamicBatchSampler"
    THEN [i \in 1..((Len(s) - r + R - 1) \div R) |-> s[r + 1 + (i - 1) * R]]
    ELSE SubSeq(s, r * NumSamples + 1, Min({(r + 1) * NumSamples, Len(s)}))

\* Mutant: only the rank whose part is too short notices.
WrongLengthPart(r, order) == Len(Share(Even(order), r)) # NumSamples

\* ValueError of __iter__
WrongLength(r, order) ==
  \/ training.sampler # "AgentDynamicBatchSampler" /\ Len(Even(order)) # TotalSize
  \/ Len(Share(Even(order), r)) # NumSamples

-----------------------------------------------------------------------------
(* Training *)

Init ==
  /\ training \in Trainings
  /\ orders = [e \in 0..(Epochs - 1) |-> NoOrder]
  /\ round = [r \in Ranks |-> 0]
  /\ epoch = [r \in Ranks |-> 0]
  /\ rest = [r \in Ranks |-> NotDrawn]
  /\ batch = [r \in Ranks |-> <<>>]
  /\ failed = {}
  /\ given = [e \in 0..(Epochs - 1) |-> [r \in Ranks |-> <<>>]]

\* Mutant: an epoch too many.
TrainsOneMore(r) == r \notin failed /\ round[r] <= Epochs

Trains(r) == r \notin failed /\ round[r] < Epochs

\* Mutant of EpochFor: ranks seed their generators differently.
EpochForRank(r) == r % Epochs

\* What set_epoch() leaves in the sampler.
EpochFor(r) == IF training.tells THEN round[r] ELSE epoch[r]

\* The order of epoch e: without shuffling the buckets as they are.  The
\* generator is seeded with it, so whoever asks gets the same one.
OrdersOf(e) ==
  IF ~training.shuffle THEN {InOrder}
  ELSE IF orders[e] # NoOrder THEN {orders[e]}
  ELSE Arrangements

\* The trainer begins an epoch: set_epoch() and __iter__().
Draw(r) ==
  /\ Trains(r) /\ rest[r] = NotDrawn
  /\ epoch' = [epoch EXCEPT ![r] = EpochFor(r)]
  /\ IF DealFails
     THEN /\ failed' = failed \cup {r}
          /\ UNCHANGED <<orders, rest>>
     ELSE \E order \in OrdersOf(epoch'[r]) :
            /\ orders' = [orders EXCEPT ![epoch'[r]] = order]
            /\ IF WrongLength(r, order)
               THEN failed' = failed \cup {r} /\ UNCHANGED rest
               ELSE rest' = [rest EXCEPT ![r] = Share(Even(order), r)] /\ UNCHANGED failed
  /\ UNCHANGED <<training, round, batch, given>>

\* The next batch; DynamicBatchSampler gives out a last one that is not full.
TakeBatch(r) ==
  /\ Trains(r) /\ rest[r] \notin {NotDrawn, <<>>} /\ batch[r] = <<>>
  /\ LET k == Min({training.batch_size, Len(rest[r])})
     IN /\ batch' = [batch EXCEPT ![r] = SubSeq(rest[r], 1, k)]
        /\ rest' = [rest EXCEPT ![r] = SubSeq(rest[r], k + 1, Len(rest[r]))]
        /\ given' = [given EXCEPT ![round[r]][r] = Append(@, SubSeq(rest[r], 1, k))]
  /\ UNCHANGED <<training, orders, round, epoch, failed>>

\* The collective operation that ends a batch: nobody leaves before all came.
AllReduce ==
  /\ \A r \in Ranks : batch[r] # <<>>
  /\ batch' = [r \in Ranks |-> <<>>]
  /\ UNCHANGED <<training, orders, round, epoch, rest, failed, given>>

\* The rank has trained all its batches and is ready for the next epoch, while
\* others may still be at theirs.
EndEpoch(r) ==
  /\ Trains(r) /\ rest[r] = <<>> /\ batch[r] = <<>>
  /\ round' = [round EXCEPT ![r] = @ + 1]
  /\ rest' = [rest EXCEPT ![r] = NotDrawn]
  /\ UNCHANGED <<training, orders, epoch, batch, failed, given>>

Work == AllReduce \/ \E r \in Ranks : Draw(r) \/ TakeBatch(r) \/ EndEpoch(r)

Over == (\A r \in Ranks : ~Trains(r)) /\ UNCHANGED vars

Next == Work \/ Over

\* Every rank goes on as long as it can.
Spec == Init /\ [][Next]_vars /\ WF_vars(Work)

-----------------------------------------------------------------------------
(* Properties *)

SamplersTypeOK ==
  /\ training \in Trainings
  /\ \A r \in Ranks :
       /\ round[r] \in 0..Epochs
       /\ epoch[r] \in 0..(Epochs - 1)
       /\ rest[r] = NotDrawn \/ (Len(rest[r]) <= NumSamples /\ ToSet(rest[r]) \subseteq Samples)
       /\ ToSet(batch[r]) \subseteq Samples
  /\ failed \subseteq Ranks

\* Who has trained sample s in epoch e, and in which batches.
Uses(e, s) ==
  {u \in Ranks \X (1..TotalSize) \X (1..training.batch_size) :
     /\ u[2] \in DOMAIN given[e][u[1]] /\ u[3] \in DOMAIN given[e][u[1]][u[2]]
     /\ given[e][u[1]][u[2]][u[3]] = s}
Times(e, s) == Cardinality(Uses(e, s))

\* When an epoch is over, the ranks have trained every sample of the dataset
\* between them, and as few of them twice as it takes to give all ranks the
\* same number; with drop_last none is trained twice and fewer than one for
\* each rank are left out.
EpochCovered ==
  \A e \in 0..(Epochs - 1) : (\A r \in Ranks : round[r] > e) =>
    IF DropsLast
      THEN /\ \A s \in Samples : Times(e, s) <= 1
           /\ Cardinality({s \in Samples : Times(e, s) = 0}) < R
      ELSE /\ \A s \in Samples : Times(e, s) \in {1, 2}
           /\ Cardinality({s \in Samples : Times(e, s) = 2}) < R

\* The batches of one collective operation come from one bucket, when every
\* bucket holds a sample for each rank: no rank waits for a heavier one.
Fits(b) == IF training.sampler = "ReplicasDistributedSampler" THEN Len(b) = R
           ELSE training.sampler = "AgentDynamicBatchSampler" /\ Len(b) % R = 0
SameBucket ==
  /\ training.batch_size = 1 /\ (training.shuffle \/ training.sampler # "ReplicasDistributedSampler")
  /\ \A b \in DOMAIN Buckets : Fits(Buckets[b])
  /\ \A r \in Ranks : batch[r] # <<>>
  => \E b \in DOMAIN Buckets : \A r \in Ranks : batch[r][1] \in ToSet(Buckets[b])

\* Every epoch ends for every rank: no collective operation waits for a rank
\* that has nothing left, and if a sampler raises, that of every rank does, of
\* the same cause and before anything is trained.
EpochsEnd == <>[](\/ \A r \in Ranks : round[r] = Epochs
                  \/ failed = Ranks /\ \A r \in Ranks : round[r] = 0)
=============================================================================
