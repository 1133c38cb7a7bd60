---------------------------- MODULE ThreadCounts ----------------------------
(***************************************************************************)
(* How many workers Coordinator::run starts, given the thread_count option *)
(* and the number of CPUs.                                                 *)
(***************************************************************************)
EXTENDS Integers

CONSTANTS MaxGiven, MaxCpus   \* bounds: the options and machines considered
ASSUME BoundsAssumption == MaxGiven \in Nat /\ MaxCpus \in Nat

MAX_COMMAND_CONSTRUCTION_THREADS == 8
COMMAND_CONSTRUCTION_THREAD_COUNT_RATIO == 1
COMPRESSOR_THREAD_COUNT_RATIO == 2
THREAD_COUNT_RATIO_DENOMINATOR ==
  COMMAND_CONSTRUCTION_THREAD_COUNT_RATIO + COMPRESSOR_THREAD_COUNT_RATIO
NON_MP_THREAD_TYPES == 4
NUM_THREAD_TYPES == 6

Least(a, b) == IF a <= b THEN a ELSE b

MaxThreadCount(given, cpus) ==
  LET half == cpus \div 2
  IN  IF given = 0 THEN half ELSE Least(given, half)

\* Faulty variant of ConstructionThreads: the cap is dropped.
ConstructionThreadsUncapped(variable) ==
  (variable * COMMAND_CONSTRUCTION_THREAD_COUNT_RATIO) \div THREAD_COUNT_RATIO_DENOMINATOR

ConstructionThreads(variable) ==
  Least((variable * COMMAND_CONSTRUCTION_THREAD_COUNT_RATIO)
          \div THREAD_COUNT_RATIO_DENOMINATOR,
        MAX_COMMAND_CONSTRUCTION_THREADS)

get_thread_counts(given, cpus) ==
  LET max == MaxThreadCount(given, cpus)
      variable == max - NON_MP_THREAD_TYPES
      constructors == ConstructionThreads(variable)
  IN  IF max <= NUM_THREAD_TYPES
      THEN [constructors |-> 1, compressors |-> 1]
      ELSE [constructors |-> constructors, compressors |-> variable - constructors]

\* The workers the coordinator starts.
TotalThreads(c) == NON_MP_THREAD_TYPES + c.constructors + c.compressors

-----------------------------------------------------------------------------
VARIABLES thread_count, cpu_count, counts
countsVars == <<thread_count, cpu_count, counts>>

NotStarted == [constructors |-> 0, compressors |-> 0]

\* SendStream::upgrade starts the coordinator unless thread_count is 1.
CountsInit ==
  /\ thread_count \in 0 .. MaxGiven \ {1}
  /\ cpu_count \in 1 .. MaxCpus
  /\ counts = NotStarted

StartWorkers ==
  /\ counts = NotStarted
  /\ counts' = get_thread_counts(thread_count, cpu_count)
  /\ UNCHANGED <<thread_count, cpu_count>>

CountsNext == StartWorkers

-----------------------------------------------------------------------------
\* What is right about counts for an option and a machine: each kind of worker
\* has a thread, compression has no fewer than construction,
\* and beyond the six that are needed no thread is started
\* that the option or the machine does not allow, and none is left unused.
GoodCounts(given, cpus, c) ==
  LET allowed == IF given = 0 THEN cpus \div 2 ELSE Least(given, cpus \div 2)
  IN  /\ c.constructors \in 1 .. MAX_COMMAND_CONSTRUCTION_THREADS
      /\ c.constructors <= c.compressors
      /\ TotalThreads(c) = IF allowed < NUM_THREAD_TYPES THEN NUM_THREAD_TYPES ELSE allowed

\* get_thread_counts distributes the threads that are allowed.
CountsAreGood == counts # NotStarted => GoodCounts(thread_count, cpu_count, counts)
=============================================================================
