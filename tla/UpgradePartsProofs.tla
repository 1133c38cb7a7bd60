------------------------- MODULE UpgradePartsProofs -------------------------
(***************************************************************************)
(* Parts of the multi-threaded upgrade: UnorderedElementQueue for every    *)
(* set of elements and every finite nonempty pool of consumers; the        *)
(* padding of writes for every stream of commands, whatever their sizes;   *)
(* get_thread_counts for every option and every number of CPUs.            *)
(***************************************************************************)
EXTENDS UnorderedElementQueue, PadCommand, ThreadCounts, FiniteSetTheorems, TLAPS

(***************************************************************************)
(* The unordered queue: type correctness.                                  *)
(***************************************************************************)
\* What notify_one leaves behind is the wait set without one waiter.
LEMMA NotifyOneWakes ==
  ASSUME NEW waiting, NEW left \in NotifyOne(waiting)
  PROVE  \/ waiting = {} /\ left = {}
         \/ \E t \in waiting : left = waiting \ {t}
BY DEF NotifyOne

\* Every reachable state of the queue is well typed.
THEOREM TypeCorrect == PoolSpec => []PoolTypeOK
<1>1. PoolInit => PoolTypeOK
  BY DEF PoolInit, PoolTypeOK, PrimitiveState
<1>2. PoolTypeOK /\ [PoolNext]_poolVars => PoolTypeOK'
  <2> SUFFICES ASSUME PoolTypeOK, [PoolNext]_poolVars PROVE PoolTypeOK'
    OBVIOUS
  <2> USE DEF PoolTypeOK
  <2>1. ASSUME NEW e \in Elements, Enqueue(e) PROVE PoolTypeOK'
    <3>1. uoeq_cv' \subseteq uoeq_cv
      <4>1. uoeq_cv' = uoeq_cv \/ uoeq_cv' \in NotifyOne(uoeq_cv)
        BY <2>1 DEF Enqueue, EnqueueHalted, EnqueueRunning
      <4>2. \A left \in NotifyOne(uoeq_cv) : left \subseteq uoeq_cv
        BY NotifyOneWakes
      <4>. QED  BY <4>1, <4>2
    <3>2. CASE EnqueueHalted(e)
      BY <2>1, <3>1, <3>2 DEF Enqueue, EnqueueHalted
    <3>3. CASE EnqueueRunning(e)
      <4>1. uoeqi_queue' \in Seq(Elements) /\ accepted' \in Seq(Elements)
        BY <3>3 DEF EnqueueRunning
      <4>. QED  BY <2>1, <3>1, <3>3, <4>1 DEF Enqueue, EnqueueRunning
    <3>. QED  BY <2>1, <3>2, <3>3 DEF Enqueue
  <2>2. ASSUME NEW c \in Consumers, Wait(c) PROVE PoolTypeOK'
    BY <2>2 DEF Wait
  <2>3. ASSUME NEW c \in Consumers, DequeueHalted(c) PROVE PoolTypeOK'
    BY <2>3 DEF DequeueHalted
  <2>4. ASSUME NEW c \in Consumers, DequeueElement(c) PROVE PoolTypeOK'
    BY <2>4 DEF DequeueElement
  <2>5. ASSUME NEW c \in Consumers, Resume(c) PROVE PoolTypeOK'
    BY <2>5 DEF Resume
  <2>6. ASSUME NEW c \in Consumers, SpuriousQueueWakeup(c) PROVE PoolTypeOK'
    BY <2>6 DEF SpuriousQueueWakeup
  <2>7. ASSUME NEW unplanned \in BOOLEAN, HaltQueue(unplanned) PROVE PoolTypeOK'
    BY <2>7 DEF HaltQueue, HaltedState, NotifyAll, PrimitiveState
  <2>8. CASE UNCHANGED poolVars
    BY <2>8 DEF poolVars
  <2>. QED
    BY <2>1, <2>2, <2>3, <2>4, <2>5, <2>6, <2>7, <2>8 DEF PoolNext, Dequeue
<1>. QED  BY <1>1, <1>2, PTL DEF PoolSpec

(***************************************************************************)
(* First in, first out.                                                    *)
(***************************************************************************)
\* Whatever the interleaving, what came in is what went out followed by what
\* the queue still holds.
THEOREM FirstInFirstOut == PoolSpec => []FifoOrder
<1>1. PoolInit => FifoOrder
  BY DEF PoolInit, FifoOrder
<1>2. PoolTypeOK /\ FifoOrder /\ [PoolNext]_poolVars => FifoOrder'
  <2> SUFFICES ASSUME PoolTypeOK, FifoOrder, [PoolNext]_poolVars PROVE FifoOrder'
    OBVIOUS
  <2>1. CASE UNCHANGED <<uoeqi_queue, accepted, delivered>>
    BY <2>1 DEF FifoOrder
  <2>2. ASSUME NEW e \in Elements, EnqueueRunning(e), UNCHANGED delivered
        PROVE  FifoOrder'
    <3>1. /\ uoeqi_queue' = Append(uoeqi_queue, e)
          /\ accepted' = Append(accepted, e) /\ delivered' = delivered
      BY <2>2 DEF EnqueueRunning
    <3>2. \A s, t \in Seq(Elements) : Append(s \o t, e) = s \o Append(t, e)
      OBVIOUS
    <3>. QED  BY <3>1, <3>2 DEF FifoOrder, PoolTypeOK
  <2>3. ASSUME NEW c \in Consumers, DequeueElement(c) PROVE FifoOrder'
    <3>1. /\ uoeqi_queue # << >> /\ uoeqi_queue' = Tail(uoeqi_queue)
          /\ delivered' = Append(delivered, Head(uoeqi_queue))
          /\ accepted' = accepted
      BY <2>3 DEF DequeueElement
    <3>2. \A s, t \in Seq(Elements) :
            t # << >> => Append(s, Head(t)) \o Tail(t) = s \o t
      OBVIOUS
    <3>. QED  BY <3>1, <3>2 DEF FifoOrder, PoolTypeOK
  <2>. QED
    BY <2>1, <2>2, <2>3
       DEF PoolNext, Dequeue, Enqueue, EnqueueHalted, Wait, DequeueHalted, Resume,
           SpuriousQueueWakeup, HaltQueue, poolVars
<1>. QED  BY <1>1, <1>2, TypeCorrect, PTL DEF PoolSpec

(***************************************************************************)
(* Wake-ups.  A woken thread counts as awake only because sleeping threads *)
(* are inside dequeue(): that is the strengthening.                        *)
(***************************************************************************)
SleepersAreReady == \A c \in uoeq_cv : consumer[c] = "ready"

\* Counting the awake consumers: the set is finite, and one consumer more or
\* less changes its size by one.
LEMMA AwakeCount ==
  ASSUME NEW S, S \subseteq Consumers
  PROVE  /\ Cardinality(S) \in Nat
         /\ \A c \in Consumers \ S : Cardinality(S \union {c}) = Cardinality(S) + 1
         /\ \A c \in S : Cardinality(S \ {c}) = Cardinality(S) - 1
<1>1. IsFiniteSet(S)
  BY PoolAssumption, FS_Subset
<1>. QED  BY <1>1, FS_CardinalityType, FS_AddElement, FS_RemoveElement

\* As long as somebody sleeps, every queued element has an awake consumer of
\* its own.
THEOREM EnoughAwake == PoolSpec => []AwakeForEachElement
<1> DEFINE IInv == SleepersAreReady /\ AwakeForEachElement
<1>1. PoolInit => IInv
  BY DEF PoolInit, SleepersAreReady, AwakeForEachElement
<1>2. PoolTypeOK /\ IInv /\ [PoolNext]_poolVars => IInv'
  <2> SUFFICES ASSUME PoolTypeOK, SleepersAreReady, AwakeForEachElement,
                      [PoolNext]_poolVars
               PROVE  IInv'
    OBVIOUS
  <2> USE DEF PoolTypeOK, SleepersAreReady
  <2>0. /\ AwakeConsumers \subseteq Consumers
        /\ Cardinality(AwakeConsumers) \in Nat
    BY AwakeCount DEF AwakeConsumers
  <2>1. ASSUME NEW e \in Elements, Enqueue(e) PROVE IInv'
    <3>1. CASE EnqueueHalted(e)
      BY <2>1, <3>1 DEF Enqueue, EnqueueHalted, AwakeForEachElement,
                        AwakeConsumers
    <3>2. CASE EnqueueRunning(e)
      <4>1. CASE uoeq_cv = {}
        BY <2>1, <3>2, <4>1, NotifyOneWakes
           DEF Enqueue, EnqueueRunning, AwakeForEachElement
      <4>2. CASE uoeq_cv # {}
        <5>1. PICK t \in uoeq_cv : uoeq_cv' = uoeq_cv \ {t}
          BY <3>2, <4>2, NotifyOneWakes DEF EnqueueRunning
        <5>2. consumer' = consumer /\ uoeqi_state' = "Running"
          BY <2>1, <3>2 DEF Enqueue, EnqueueRunning
        <5>3. /\ t \in Consumers \ AwakeConsumers
              /\ AwakeConsumers' = AwakeConsumers \union {t}
          BY <5>1, <5>2 DEF AwakeConsumers
        <5>4. Len(uoeqi_queue') = Len(uoeqi_queue) + 1
          BY <3>2 DEF EnqueueRunning
        <5>5. Cardinality(AwakeConsumers') = Cardinality(AwakeConsumers) + 1
          BY <5>3, <2>0, AwakeCount
        <5>6. Cardinality(AwakeConsumers) >= Len(uoeqi_queue)
          BY <4>2, <3>2 DEF AwakeForEachElement, EnqueueRunning
        <5>7. AwakeForEachElement'
          BY <5>4, <5>5, <5>6, <2>0 DEF AwakeForEachElement
        <5>. QED  BY <5>1, <5>2, <5>7
      <4>. QED  BY <4>1, <4>2
    <3>. QED  BY <2>1, <3>1, <3>2 DEF Enqueue
  <2>2. ASSUME NEW c \in Consumers, Wait(c) PROVE IInv'
    <3>1. uoeqi_queue' = << >>
      BY <2>2 DEF Wait
    <3>2. AwakeConsumers' \subseteq Consumers
      BY DEF AwakeConsumers
    <3>3. Cardinality(AwakeConsumers') \in Nat
      BY <3>2, AwakeCount
    <3>4. AwakeForEachElement'
      BY <3>1, <3>3 DEF AwakeForEachElement
    <3>. QED  BY <2>2, <3>4 DEF Wait, AwakeConsumers
  <2>3. ASSUME NEW c \in Consumers, DequeueHalted(c) PROVE IInv'
    BY <2>3 DEF DequeueHalted, AwakeConsumers, AwakeForEachElement
  <2>4. ASSUME NEW c \in Consumers, DequeueElement(c) PROVE IInv'
    <3>1. /\ c \in AwakeConsumers
          /\ AwakeConsumers' = AwakeConsumers \ {c}
          /\ uoeq_cv' = uoeq_cv /\ uoeqi_state' = uoeqi_state
      BY <2>4 DEF DequeueElement, AwakeConsumers
    <3>2. Len(uoeqi_queue') = Len(uoeqi_queue) - 1
      BY <2>4 DEF DequeueElement
    <3>3. Cardinality(AwakeConsumers') = Cardinality(AwakeConsumers) - 1
      BY <3>1, <2>0, AwakeCount
    <3>4. AwakeForEachElement'
      BY <3>1, <3>2, <3>3, <2>0 DEF AwakeForEachElement
    <3>. QED  BY <2>4, <3>4 DEF DequeueElement, AwakeConsumers
  <2>5. ASSUME NEW c \in Consumers, Resume(c) PROVE IInv'
    <3>1. /\ c \in Consumers \ AwakeConsumers
          /\ AwakeConsumers' = AwakeConsumers \union {c}
          /\ uoeq_cv' = uoeq_cv /\ uoeqi_state' = uoeqi_state
          /\ uoeqi_queue' = uoeqi_queue
      BY <2>5 DEF Resume, AwakeConsumers
    <3>2. Cardinality(AwakeConsumers') = Cardinality(AwakeConsumers) + 1
      BY <3>1, <2>0, AwakeCount
    <3>3. AwakeForEachElement'
      BY <3>1, <3>2, <2>0 DEF AwakeForEachElement
    <3>. QED  BY <2>5, <3>3 DEF Resume
  <2>6. ASSUME NEW c \in Consumers, SpuriousQueueWakeup(c) PROVE IInv'
    <3>1. /\ c \in Consumers \ AwakeConsumers
          /\ AwakeConsumers' = AwakeConsumers \union {c}
          /\ uoeq_cv # {} /\ uoeqi_state' = uoeqi_state
          /\ uoeqi_queue' = uoeqi_queue
      BY <2>6 DEF SpuriousQueueWakeup, AwakeConsumers
    <3>2. Cardinality(AwakeConsumers') = Cardinality(AwakeConsumers) + 1
      BY <3>1, <2>0, AwakeCount
    <3>3. AwakeForEachElement'
      BY <3>1, <3>2, <2>0 DEF AwakeForEachElement
    <3>. QED  BY <2>6, <3>3 DEF SpuriousQueueWakeup
  <2>7. ASSUME NEW unplanned \in BOOLEAN, HaltQueue(unplanned) PROVE IInv'
    BY <2>7 DEF HaltQueue, HaltedState, NotifyAll, AwakeForEachElement
  <2>8. CASE UNCHANGED poolVars
    BY <2>8 DEF poolVars, AwakeConsumers, AwakeForEachElement
  <2>. QED
    BY <2>1, <2>2, <2>3, <2>4, <2>5, <2>6, <2>7, <2>8 DEF PoolNext, Dequeue
<1>. QED  BY <1>1, <1>2, TypeCorrect, PTL DEF PoolSpec

(***************************************************************************)
(* The queue implements the promise of the BlockingQueue trait.            *)
(***************************************************************************)
\* Waiting and waking are invisible; every other step is a step of the
\* promise.
THEOREM QueueImplementsPromise == PoolSpec => ImplementsPromise
<1>1. PoolInit => Promise!Init
  BY DEF PoolInit, Promise!Init, Entries
<1>2. PoolTypeOK /\ [PoolNext]_poolVars => [Promise!Next]_Promise!vars
  <2> SUFFICES ASSUME PoolTypeOK, [PoolNext]_poolVars
               PROVE  Promise!Next \/ UNCHANGED Promise!vars
    OBVIOUS
  <2> USE DEF PoolTypeOK
  <2>1. CASE UNCHANGED <<uoeqi_queue, uoeqi_state, consumer, delivered>>
    BY <2>1 DEF Promise!vars, Entries
  <2>2. ASSUME NEW e \in Elements, EnqueueRunning(e),
               UNCHANGED <<uoeqi_state, consumer, delivered>>
        PROVE  Promise!Enqueue
    <3> DEFINE entry == [ticket |-> Len(delivered) + Len(uoeqi_queue), item |-> e]
    <3>1. Entries' = Entries \union {entry}
      <4>1. /\ Len(uoeqi_queue') = Len(uoeqi_queue) + 1
            /\ DOMAIN uoeqi_queue = 1 .. Len(uoeqi_queue)
            /\ DOMAIN uoeqi_queue' = 1 .. Len(uoeqi_queue) + 1
            /\ uoeqi_queue'[Len(uoeqi_queue) + 1] = e
            /\ \A i \in 1 .. Len(uoeqi_queue) : uoeqi_queue'[i] = uoeqi_queue[i]
        BY <2>2 DEF EnqueueRunning
      <4>2. Len(delivered) \in Nat /\ Len(uoeqi_queue) \in Nat
        OBVIOUS
      <4>3. ASSUME NEW x \in Entries' PROVE x \in Entries \union {entry}
        <5>1. PICK i \in 1 .. Len(uoeqi_queue) + 1 :
                x = [ticket |-> Len(delivered) + i - 1, item |-> uoeqi_queue'[i]]
          BY <2>2, <4>1 DEF Entries
        <5>2. CASE i = Len(uoeqi_queue) + 1
          <6>1. Len(delivered) + i - 1 = Len(delivered) + Len(uoeqi_queue)
            BY <4>2, <5>2
          <6>. QED  BY <4>1, <5>1, <5>2, <6>1
        <5>3. CASE i # Len(uoeqi_queue) + 1
          <6>1. i \in 1 .. Len(uoeqi_queue)
            BY <4>2, <5>3
          <6>. QED  BY <4>1, <5>1, <6>1 DEF Entries
        <5>. QED  BY <5>2, <5>3
      <4>4. ASSUME NEW x \in Entries PROVE x \in Entries'
        <5>1. PICK i \in 1 .. Len(uoeqi_queue) :
                x = [ticket |-> Len(delivered) + i - 1, item |-> uoeqi_queue[i]]
          BY <4>1 DEF Entries
        <5>2. i \in 1 .. Len(uoeqi_queue) + 1
          BY <4>2
        <5>. QED  BY <2>2, <4>1, <5>1, <5>2 DEF Entries
      <4>5. entry \in Entries'
        <5> DEFINE n == Len(uoeqi_queue) + 1
        <5>1. n \in DOMAIN uoeqi_queue' /\ uoeqi_queue'[n] = e
          BY <4>1, <4>2
        <5>2. Len(delivered') + n - 1 = Len(delivered) + Len(uoeqi_queue)
          BY <2>2, <4>2
        <5>. QED  BY <5>1, <5>2 DEF Entries
      <4>. QED  BY <4>3, <4>4, <4>5
    <3>2. \A x \in Entries : x.ticket # entry.ticket
      <4>1. Len(delivered) \in Nat /\ DOMAIN uoeqi_queue = 1 .. Len(uoeqi_queue)
        OBVIOUS
      <4>. QED  BY <4>1 DEF Entries
    <3>. QED  BY <2>2, <3>1, <3>2 DEF Promise!Enqueue, EnqueueRunning
  <2>3. ASSUME NEW c \in Consumers, DequeueElement(c) PROVE Promise!Dequeue(c)
    <3> DEFINE entry == [ticket |-> Len(delivered), item |-> Head(uoeqi_queue)]
    <3>1. /\ uoeqi_queue # << >> /\ uoeqi_queue' = Tail(uoeqi_queue)
          /\ Len(delivered') = Len(delivered) + 1 /\ Len(delivered) \in Nat
      BY <2>3 DEF DequeueElement
    <3>2. entry \in Entries
      BY <3>1 DEF Entries
    <3>3. Entries' = Entries \ {entry}
      <4>1. /\ DOMAIN uoeqi_queue = 1 .. Len(uoeqi_queue)
            /\ Len(uoeqi_queue) \in Nat \ {0}
            /\ DOMAIN uoeqi_queue' = 1 .. Len(uoeqi_queue) - 1
            /\ uoeqi_queue[1] = Head(uoeqi_queue)
            /\ \A i \in 1 .. Len(uoeqi_queue) - 1 :
                 uoeqi_queue'[i] = uoeqi_queue[i + 1]
        BY <3>1
      <4>2. ASSUME NEW x \in Entries' PROVE x \in Entries \ {entry}
        <5>1. PICK i \in 1 .. Len(uoeqi_queue) - 1 :
                x = [ticket |-> Len(delivered) + 1 + i - 1,
                     item |-> uoeqi_queue[i + 1]]
          BY <3>1, <4>1 DEF Entries
        <5>2. i + 1 \in DOMAIN uoeqi_queue /\ x.ticket # Len(delivered)
          BY <3>1, <4>1, <5>1
        <5>3. x = [ticket |-> Len(delivered) + (i + 1) - 1,
                   item |-> uoeqi_queue[i + 1]]
          BY <3>1, <5>1
        <5>. QED  BY <5>2, <5>3 DEF Entries
      <4>3. ASSUME NEW x \in Entries \ {entry} PROVE x \in Entries'
        <5>1. PICK i \in 1 .. Len(uoeqi_queue) :
                x = [ticket |-> Len(delivered) + i - 1, item |-> uoeqi_queue[i]]
          BY <4>1 DEF Entries
        <5>2. i # 1
          BY <3>1, <4>1, <5>1
        <5>3. i - 1 \in 1 .. Len(uoeqi_queue) - 1 /\ i = (i - 1) + 1
          BY <4>1, <5>2
        <5>4. x = [ticket |-> Len(delivered') + (i - 1) - 1,
                   item |-> uoeqi_queue'[i - 1]]
          BY <3>1, <4>1, <5>1, <5>3
        <5>. QED  BY <4>1, <5>3, <5>4 DEF Entries
      <4>. QED  BY <4>2, <4>3
    <3>. QED
      BY <2>3, <3>1, <3>2, <3>3
         DEF Promise!Dequeue, DequeueElement, AwakeConsumers, NextTicket
  <2>4. ASSUME NEW c \in Consumers, DequeueHalted(c) PROVE Promise!Dequeue(c)
    BY <2>4 DEF DequeueHalted, AwakeConsumers, Promise!Dequeue, Entries
  <2>5. ASSUME NEW c \in Consumers, Resume(c) PROVE Promise!Resume(c)
    BY <2>5 DEF Resume, Promise!Resume, Entries
  <2>6. ASSUME NEW unplanned \in BOOLEAN, HaltQueue(unplanned)
        PROVE  Promise!Halt(unplanned)
    BY <2>6 DEF HaltQueue, Promise!Halt, Entries, MayHalt, HaltedState,
                Promise!MayHalt, Promise!HaltedState
  <2>. QED
    BY <2>1, <2>2, <2>3, <2>4, <2>5, <2>6
       DEF PoolNext, Dequeue, Enqueue, EnqueueHalted, Wait, SpuriousQueueWakeup, poolVars,
           Promise!Next
<1>. QED
  BY <1>1, <1>2, TypeCorrect, PTL DEF PoolSpec, ImplementsPromise, Promise!Spec

-----------------------------------------------------------------------------
(***************************************************************************)
(* Padding                                                                 *)
(***************************************************************************)

(* A pad of the size generate_pad_command computes moves the data to a      *)
(* block, and it is the shortest command that does.                         *)
LEMMA PadMovesToBlock ==
  ASSUME NEW data_offset \in Nat
  PROVE  /\ PadSize(data_offset) \in Nat
         /\ (data_offset + PadSize(data_offset)) % BLOCK_SIZE = 0
         /\ minimum_command_size <= PadSize(data_offset)
         /\ PadSize(data_offset) - BLOCK_SIZE < minimum_command_size
<1> DEFINE r == data_offset % 4096
           q == data_offset \div 4096
<1>1. r \in 0 .. 4095 /\ q \in Nat /\ data_offset = 4096 * q + r
  OBVIOUS
<1>2. minimum_command_size = 38 /\ BLOCK_SIZE = 4096
  BY DEF minimum_command_size, COMMAND_HEADER_SIZE, ATTRIBUTE_HEADER_SIZE, BLOCK_SIZE
<1>3. PadSize(data_offset) = IF 4096 - r < 38 THEN 8192 - r ELSE 4096 - r
  BY <1>1, <1>2 DEF PadSize
<1>4. \A k \in Nat : (4096 * k) % 4096 = 0
  OBVIOUS
<1>5. \/ data_offset + PadSize(data_offset) = 4096 * (q + 1)
      \/ data_offset + PadSize(data_offset) = 4096 * (q + 2)
  <2> HIDE DEF q, r
  <2> QED BY <1>1, <1>3
<1>6. (data_offset + PadSize(data_offset)) % 4096 = 0
  <2>1. q + 1 \in Nat /\ q + 2 \in Nat
    BY <1>1
  <2> HIDE DEF q, r
  <2> QED BY <2>1, <1>4, <1>5
<1> HIDE DEF q, r
<1> QED BY <1>1, <1>2, <1>3, <1>6

(* The sizes of the commands are numbers. *)
LEMMA CommandSizes ==
  ASSUME NEW command \in Commands
  PROVE  /\ command.pre \in Nat
         /\ command.header \in Nat
         /\ command.data \in Nat
BY CommandsAssumption

(* The inductive invariant: every pad was the right one for its write.      *)
Padding == PadTypeOK /\ PayloadAligned /\ PadIsShortest

(* Writing a command, padded or not, keeps the invariant.                   *)
LEMMA PersistKeepsPadding ==
  ASSUME Padding, NEW command \in Commands, Persist(command)
  PROVE  Padding'
<1>1. CASE PersistUnpadded(command)
  BY <1>1, CommandSizes
     DEF Padding, PadTypeOK, PayloadAligned, PadIsShortest, PersistUnpadded, Size, NoPad, BLOCK_SIZE
<1>2. CASE PersistPadded(command)
  <2> DEFINE at == ssud_offset + command.pre + command.header
  <2>1. at \in Nat
    BY CommandSizes DEF Padding, PadTypeOK
  <2>2. pad' = PadSize(at) /\ payload' = at + pad' /\ ssud_offset' = at + pad' + command.data
    <3>1. pad' = PadSize(at)
      BY <1>2 DEF PersistPadded
    <3>2. pad' \in Nat
      BY <3>1, <2>1, PadMovesToBlock
    <3>3. /\ payload' = ssud_offset + pad' + command.pre + command.header
          /\ ssud_offset' = ssud_offset + pad' + (command.pre + command.header + command.data)
      BY <1>2 DEF PersistPadded, Size
    <3> QED BY <3>1, <3>2, <3>3, CommandSizes DEF Padding, PadTypeOK
  <2> HIDE DEF at
  <2>3. PadTypeOK'
    BY <2>1, <2>2, PadMovesToBlock, CommandSizes DEF PadTypeOK
  <2>4. PayloadAligned'
    BY <2>1, <2>2, PadMovesToBlock DEF PayloadAligned
  <2>5. PadIsShortest'
    BY <2>1, <2>2, PadMovesToBlock DEF PadIsShortest
  <2> QED BY <2>3, <2>4, <2>5 DEF Padding
<1> QED BY <1>1, <1>2 DEF Persist

(* The invariant holds from the stream header on.                           *)
LEMMA AlwaysPadding == PadSpec => []Padding
<1>1. PadInit => Padding
  BY DEF PadInit, Padding, PadTypeOK, PayloadAligned, PadIsShortest, NoPad, BLOCK_SIZE, SEND_HEADER_SIZE
<1>2. Padding /\ [PadNext]_padVars => Padding'
  <2>1. CASE UNCHANGED padVars
    BY <2>1 DEF padVars, Padding, PadTypeOK, PayloadAligned, PadIsShortest
  <2> QED BY <2>1, PersistKeepsPadding DEF PadNext
<1> QED BY <1>1, <1>2, PTL DEF PadSpec

(* The data of every padded write begins at a block of the destination: the *)
(* check of persist that follows the pad never fails.                       *)
THEOREM DataAligned == PadSpec => []PayloadAligned
BY AlwaysPadding, PTL DEF Padding

(* Every pad holds a whole command, and none is a block longer than needed. *)
THEOREM ShortestPads == PadSpec => []PadIsShortest
BY AlwaysPadding, PTL DEF Padding

(* The size of the path of a pad fits the u16 of its attribute header.      *)
THEOREM PadsFilled == PadSpec => []PadIsFilled
<1>1. Padding => PadIsFilled
  <2> SUFFICES ASSUME Padding, pad # NoPad
               PROVE  minimum_command_size + PathAttributeSize(pad) = pad
    BY DEF PadIsFilled
  <2>1. pad \in Nat /\ minimum_command_size <= pad /\ pad - BLOCK_SIZE < minimum_command_size
    BY DEF Padding, PadTypeOK, PadIsShortest
  <2>2. minimum_command_size = 38 /\ BLOCK_SIZE = 4096
    BY DEF minimum_command_size, COMMAND_HEADER_SIZE, ATTRIBUTE_HEADER_SIZE, BLOCK_SIZE
  <2>3. 2^16 = 65536
    OBVIOUS
  <2> QED BY <2>1, <2>2, <2>3 DEF PathAttributeSize
<1> QED BY <1>1, AlwaysPadding, PTL

(* Everything that persist relies on when it pads a write, for every sequence *)
(* of commands.                                                               *)
THEOREM PadsGood == PadSpec => []PadsAreGood
BY DataAligned, ShortestPads, PadsFilled, PTL DEF PadsAreGood

-----------------------------------------------------------------------------
(***************************************************************************)
(* Thread counts                                                           *)
(***************************************************************************)

USE DEF MAX_COMMAND_CONSTRUCTION_THREADS, COMMAND_CONSTRUCTION_THREAD_COUNT_RATIO,
        COMPRESSOR_THREAD_COUNT_RATIO, THREAD_COUNT_RATIO_DENOMINATOR,
        NON_MP_THREAD_TYPES, NUM_THREAD_TYPES

\* A third of the threads that are left to construction and compression: at
\* least one, and no more than what remains for compression.
LEMMA ThirdOfThreads ==
  ASSUME NEW v \in Nat, v >= 3
  PROVE  /\ ConstructionThreads(v) \in 1 .. 8
         /\ 2 * ConstructionThreads(v) <= v
<1>1. v * 1 = v /\ 1 + 2 = 3
  OBVIOUS
<1>2. v \div 3 \in Nat /\ v \div 3 >= 1 /\ 3 * (v \div 3) <= v
  OBVIOUS
<1>3. ConstructionThreads(v) = Least(v \div 3, 8)
  BY <1>1 DEF ConstructionThreads
<1> QED
  BY <1>2, <1>3 DEF Least

\* The counts of get_thread_counts are good, whatever the option and the
\* number of CPUs: no kind of worker goes without a thread, and the threads
\* that are allowed are used and not exceeded.
THEOREM AllCountsGood ==
  ASSUME NEW g \in Nat, NEW cpus \in Nat
  PROVE  GoodCounts(g, cpus, get_thread_counts(g, cpus))
<1> DEFINE allowed == MaxThreadCount(g, cpus)
           c == ConstructionThreads(allowed - 4)
           counted == get_thread_counts(g, cpus)
<1>1. cpus \div 2 \in Nat
  OBVIOUS
<1>2. /\ allowed \in Nat
      /\ allowed = IF g = 0 THEN cpus \div 2 ELSE Least(g, cpus \div 2)
  BY <1>1 DEF MaxThreadCount, Least
<1>3. CASE allowed <= 6
  <2>1. counted = [constructors |-> 1, compressors |-> 1]
    BY <1>3 DEF get_thread_counts
  <2> QED
    BY <1>2, <1>3, <2>1 DEF GoodCounts, TotalThreads
<1>4. CASE allowed > 6
  <2>1. counted = [constructors |-> c, compressors |-> allowed - 4 - c]
    BY <1>2, <1>4 DEF get_thread_counts
  <2>2. allowed - 4 \in Nat /\ allowed - 4 >= 3
    BY <1>2, <1>4
  <2>3. c \in 1 .. 8 /\ 2 * c <= allowed - 4
    BY <2>2, ThirdOfThreads
  <2> QED
    <3> HIDE DEF c, allowed
    <3>1. counted.constructors = c /\ counted.compressors = allowed - 4 - c
      BY <2>1
    <3>2. TotalThreads(counted) = allowed
      BY <3>1, <2>3, <1>2 DEF TotalThreads
    <3>3. c <= allowed - 4 - c
      BY <2>3, <1>2
    <3> QED
      BY <1>2, <1>4, <2>3, <3>1, <3>2, <3>3 DEF GoodCounts
<1> QED
  BY <1>2, <1>3, <1>4

\* The counts that Coordinator::run starts its workers with are good.
THEOREM StartedCountsGood ==
  CountsInit /\ [][CountsNext]_countsVars => []CountsAreGood
<1> DEFINE Inv == /\ thread_count \in Nat /\ cpu_count \in Nat
                  /\ CountsAreGood
<1>1. CountsInit => Inv
  BY BoundsAssumption DEF CountsInit, CountsAreGood
<1>2. Inv /\ [CountsNext]_countsVars => Inv'
  <2> SUFFICES ASSUME Inv, [CountsNext]_countsVars
               PROVE  Inv'
    OBVIOUS
  <2>1. CASE StartWorkers
    BY <2>1, AllCountsGood DEF StartWorkers, CountsAreGood
  <2>2. CASE UNCHANGED countsVars
    BY <2>2 DEF countsVars, CountsAreGood, GoodCounts, TotalThreads
  <2> QED
    BY <2>1, <2>2 DEF CountsNext
<1> QED
  BY <1>1, <1>2, PTL
=============================================================================
