---------------------------- MODULE UpgradeParts ----------------------------
(***************************************************************************)
(* Five parts of the upgrade that can be looked at by themselves: the      *)
(* read-once buffer cache, the queue that feeds a pool of threads, the     *)
(* bytes of the commands, the padding of the writes that are persisted,    *)
(* and the number of workers.  A behaviour is about one of them.           *)
(***************************************************************************)
EXTENDS ReadOnceBufferCache, UnorderedElementQueue, CommandBytes, PadCommand, ThreadCounts

VARIABLE part   \* "cache", "queue", "bytes", "padding" or "workers"
vars == <<part, cacheVars, poolVars, byteVars, padVars, countsVars>>

\* A cache with nothing left to do: the upgrade it was made for is over.
CacheOver ==
  /\ robc_maximum_buffers_to_cache = 0
  /\ robci_buffers = {} /\ robcm_bytes_remaining = [k \in {} |-> 0]
  /\ robcm_next_key_to_fetch = Key(StreamSize) + 1 /\ robcm_state = "Done"
  /\ robc_reader_wait_cv = {} /\ robc_prefetcher_wait_cv = FALSE
  /\ prefetcher = [pc |-> "returned", key |-> Key(StreamSize)]
  /\ reader = [r \in Readers |-> Idle]
  /\ taken = RequestIds /\ finished = RequestIds

\* A queue that all of its consumers wait for and nobody will enqueue to.
NothingToEnqueue ==
  /\ uoeqi_queue = << >> /\ uoeqi_state = "Running" /\ uoeq_cv = Consumers
  /\ pending = {} /\ failed = {} /\ accepted = << >> /\ delivered = << >>
  /\ consumer = [c \in Consumers |-> "ready"]

\* An upgrade with one thread, which has no workers.
NoWorkers == thread_count = 1 /\ cpu_count = 1 /\ counts = NotStarted

NotUpgraded == ByteInit /\ upgrade = CHOOSE u \in ByteUpgrades : TRUE

Init ==
  \E p \in {"cache", "queue", "bytes", "padding", "workers"} :
    /\ part = p
    /\ IF p = "cache" THEN CacheInit ELSE CacheOver
    /\ IF p = "queue" THEN PoolInit ELSE NothingToEnqueue
    /\ IF p = "bytes" THEN ByteInit ELSE NotUpgraded
    /\ PadInit
    /\ IF p = "workers" THEN CountsInit ELSE NoWorkers

Next ==
  /\ UNCHANGED part
  /\ \/ part = "cache" /\ CacheNext /\ UNCHANGED <<poolVars, byteVars, padVars, countsVars>>
     \/ part = "queue" /\ PoolNext /\ UNCHANGED <<cacheVars, byteVars, padVars, countsVars>>
     \/ part = "bytes" /\ ByteNext /\ UNCHANGED <<cacheVars, poolVars, padVars, countsVars>>
     \/ part = "padding" /\ PadNext /\ UNCHANGED <<cacheVars, poolVars, byteVars, countsVars>>
     \/ part = "workers" /\ CountsNext /\ UNCHANGED <<cacheVars, poolVars, byteVars, padVars>>

Spec == Init /\ [][Next]_vars
FairSpec == Spec /\ CacheFairness /\ PoolFairness
=============================================================================
