----------------------------- MODULE MCSamplers -----------------------------
\* Small trainings for Samplers.
EXTENDS Samplers

T(bs, kind, replicas, sh, drop, size, told) ==
  [buckets |-> bs, sampler |-> kind, num_replicas |-> replicas, shuffle |-> sh,
   drop_last |-> drop, batch_size |-> size, tells |-> told]

\* Datasets the ranks divide and datasets they do not, buckets smaller than,
\* equal to and larger than the number of ranks, with and without set_epoch(),
\* and one sample for two ranks with drop_last, which leaves both without any.
MCTrainings ==
  {T(bs, "DynamicDistributedSampler", r, sh, FALSE, size, TRUE) :
     bs \in {UniformBuckets(5, 2), UniformBuckets(2, 3)}, r \in {2, 3},
     sh \in BOOLEAN, size \in {1, 2}}
  \cup
  {T(UniformBuckets(1, 1), "DynamicDistributedSampler", 3, TRUE, FALSE, 1, TRUE)}
  \cup
  {T(bs, "ReplicasDistributedSampler", 2, sh, FALSE, 1, told) :
     bs \in {CapacityBuckets(4, 2), CapacityBuckets(5, 2), CapacityBuckets(4, 3)},
     sh \in BOOLEAN, told \in BOOLEAN}
  \cup
  {T(bs, "AgentDynamicBatchSampler", 2, TRUE, drop, size, FALSE) :
     bs \in {AgentBuckets(<<3, 12, 15, 31, 38>>), AgentBuckets(<<3, 9, 21, 25>>)},
     drop \in BOOLEAN, size \in {1, 2}}
  \cup
  {T(AgentBuckets(<<3>>), "AgentDynamicBatchSampler", 2, TRUE, TRUE, 1, FALSE)}
=============================================================================
