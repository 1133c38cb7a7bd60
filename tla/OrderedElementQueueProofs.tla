--------------------- MODULE OrderedElementQueueProofs ---------------------
(***************************************************************************)
(* OrderedElementQueue for every set of items that obeys the id contract   *)
(* and every nonempty set of consumers.                                    *)
(***************************************************************************)
EXTENDS OrderedElementQueue, TLAPS

(***************************************************************************)
(* Lemmas about the operators.                                             *)
(***************************************************************************)
\* notify_one leaves a subset of the wait set behind, and wakes a waiter when
\* there is one.
LEMMA NotifyOneWakes ==
  ASSUME NEW waiting, NEW left \in NotifyOne(waiting)
  PROVE  /\ left \subseteq waiting
         /\ waiting # {} => \E t \in waiting : t \notin left
BY DEF NotifyOne

\* The id that follows an item is a natural number.
LEMMA NextIdType == \A item \in Items : NextId(item) \in Nat
BY ItemsAssumption DEF NextId

\* The id that follows an item is its last id if that is shared, else the one
\* after it.
LEMMA NextIdValue ==
  \A item \in Items :
    NextId(item) = IF item.shared THEN item.last ELSE item.last + 1
BY ItemsAssumption DEF NextId

\* With distinct first ids, an item that starts after another one starts no
\* earlier than the id that follows it.
LEMMA NextIdBounds ==
  ASSUME NEW a \in Items, NEW b \in Items, DistinctFirstIds,
         a # b, b.first >= a.first
  PROVE  b.first >= NextId(a)
<1>1. /\ a.first \in Nat /\ a.last \in Nat /\ a.shared \in BOOLEAN
      /\ b.first \in Nat /\ b.last \in Nat
      /\ a.first <= a.last /\ b.first <= b.last
  BY ItemsAssumption
<1>2. b.first > a.first
  BY <1>1 DEF DistinctFirstIds
<1>3. DoNotOverlap(a, b) \/ DoNotOverlap(b, a)
  BY ItemsAssumption
<1>4. DoNotOverlap(a, b)
  BY <1>1, <1>2, <1>3 DEF DoNotOverlap
<1>. QED  BY <1>1, <1>4 DEF DoNotOverlap, NextId

(***************************************************************************)
(* Type correctness.                                                       *)
(***************************************************************************)
\* Every reachable state of the queue is well typed.
THEOREM TypeCorrect == Spec => []TypeOK
<1>1. Init => TypeOK
  BY DEF Init, TypeOK, PrimitiveState
<1>2. TypeOK /\ [Next]_vars => TypeOK'
  <2> SUFFICES ASSUME TypeOK, [Next]_vars PROVE TypeOK'
    OBVIOUS
  <2> USE DEF TypeOK
  <2>1. ASSUME NEW item \in Items, Enqueue(item) PROVE TypeOK'
    <3>1. oeq_cv' \subseteq oeq_cv
      BY <2>1, NotifyOneWakes
         DEF Enqueue, EnqueueHalted, EnqueueRunning
    <3>. QED
      BY <2>1, <3>1
         DEF Enqueue, EnqueueHalted, EnqueueRunning, queue
  <2>2. ASSUME NEW c \in Consumers, Wait(c) PROVE TypeOK'
    BY <2>2 DEF Wait, queue
  <2>3. ASSUME NEW c \in Consumers, DequeueHalted(c) PROVE TypeOK'
    BY <2>3 DEF DequeueHalted, queue
  <2>4. ASSUME NEW c \in Consumers, NEW item \in Items, DequeueItem(c, item)
        PROVE  TypeOK'
    <3>1. oeq_cv' \subseteq oeq_cv
      BY <2>4, NotifyOneWakes DEF DequeueItem
    <3>. QED  BY <2>4, <3>1, NextIdType DEF DequeueItem
  <2>5. ASSUME NEW c \in Consumers, Resume(c) PROVE TypeOK'
    BY <2>5 DEF Resume, queue
  <2>6. ASSUME NEW c \in Consumers, SpuriousWakeup(c) PROVE TypeOK'
    BY <2>6 DEF SpuriousWakeup, queue
  <2>7. ASSUME NEW unplanned \in BOOLEAN, Halt(unplanned) PROVE TypeOK'
    BY <2>7 DEF Halt, HaltedState, NotifyAll, PrimitiveState, queue
  <2>8. CASE UNCHANGED vars
    BY <2>8 DEF vars
  <2>. QED
    BY <2>1, <2>2, <2>3, <2>4, <2>5, <2>6, <2>7, <2>8 DEF Next, Dequeue
<1>. QED  BY <1>1, <1>2, PTL DEF Spec

(***************************************************************************)
(* Order.  The invariant is inductive as it stands: its last conjunct ties *)
(* oeqi_first_id to the last delivered item.                               *)
(***************************************************************************)
\* For every arrival order, the consumers receive a gap-free chain of ids.
THEOREM DeliveryInOrder == Spec => []InOrder
<1>1. Init => InOrder
  BY DEF Init, InOrder
<1>2. TypeOK /\ InOrder /\ [Next]_vars => InOrder'
  <2> SUFFICES ASSUME TypeOK, InOrder, [Next]_vars PROVE InOrder'
    OBVIOUS
  <2>1. CASE UNCHANGED <<delivered, oeqi_first_id>>
    BY <2>1 DEF InOrder
  <2>2. ASSUME NEW c \in Consumers, NEW item \in Items, DequeueItem(c, item)
        PROVE  InOrder'
    <3>1. /\ delivered \in Seq(Items) /\ item \in Items
          /\ delivered' = Append(delivered, item)
          /\ item.first = oeqi_first_id /\ oeqi_first_id' = NextId(item)
      BY <2>2 DEF DequeueItem, TypeOK
    <3>2. /\ Len(delivered') = Len(delivered) + 1 /\ delivered' # << >>
          /\ delivered'[Len(delivered) + 1] = item
          /\ \A i \in 1 .. Len(delivered) : delivered'[i] = delivered[i]
      BY <3>1
    <3>3. oeqi_first_id' = NextId(delivered'[Len(delivered')])
      BY <3>1, <3>2
    <3>4. delivered'[1].first = 0
      <4>1. CASE delivered = << >>
        BY <4>1, <3>1, <3>2 DEF InOrder
      <4>2. CASE delivered # << >>
        <5>1. 1 \in 1 .. Len(delivered)
          BY <4>2, <3>1
        <5>. QED  BY <4>2, <5>1, <3>2 DEF InOrder
      <4>. QED  BY <4>1, <4>2
    <3>5. ASSUME NEW i \in 1 .. Len(delivered') - 1
          PROVE  LET a == delivered'[i]  b == delivered'[i + 1]
                 IN  b.first = IF a.shared THEN a.last ELSE a.last + 1
      <4>1. CASE i = Len(delivered)
        <5>1. delivered # << >>
          BY <4>1, <3>1
        <5>2. delivered[i] \in Items /\ delivered'[i] = delivered[i]
          BY <4>1, <5>1, <3>1, <3>2
        <5>3. item.first = NextId(delivered[i])
          BY <4>1, <5>1, <3>1 DEF InOrder
        <5>. QED  BY <4>1, <5>2, <5>3, <3>2, NextIdValue
      <4>2. CASE i # Len(delivered)
        <5>1. i \in 1 .. Len(delivered) - 1 /\ i + 1 \in 1 .. Len(delivered)
          BY <4>2, <3>1, <3>2
        <5>. QED  BY <5>1, <3>2 DEF InOrder
      <4>. QED  BY <4>1, <4>2
    <3>. QED  BY <3>2, <3>3, <3>4, <3>5 DEF InOrder
  <2>. QED
    BY <2>1, <2>2
       DEF Next, Dequeue, Enqueue, EnqueueHalted, EnqueueRunning,
           Wait, DequeueHalted, Resume, SpuriousWakeup, Halt, vars, queue
<1>. QED  BY <1>1, <1>2, TypeCorrect, PTL DEF Spec

(***************************************************************************)
(* Conservation.  The lower bound on the first ids of what is still to be  *)
(* delivered is what makes it inductive.                                   *)
(***************************************************************************)
\* With distinct first ids no item is lost, duplicated or stranded.
THEOREM NoItemLost == Spec => []NothingLost
<1>1. Init => NothingLost
  BY ItemsAssumption DEF Init, NothingLost, Delivered
<1>2. TypeOK /\ NothingLost /\ [Next]_vars => NothingLost'
  <2> SUFFICES ASSUME TypeOK, NothingLost, [Next]_vars, DistinctFirstIds
               PROVE  NothingLost'
    BY DEF NothingLost
  <2>1. CASE UNCHANGED <<pending, failed, oeqi_map, delivered, oeqi_first_id>>
    BY <2>1 DEF NothingLost, Delivered
  <2>2. ASSUME NEW item \in Items, Enqueue(item) PROVE NothingLost'
    <3>1. /\ item \in pending /\ pending' = pending \ {item}
          /\ Delivered' = Delivered /\ oeqi_first_id' = oeqi_first_id
      BY <2>2 DEF Enqueue, EnqueueHalted, EnqueueRunning,
                  Delivered, queue
    <3>2. \A i \in oeqi_map : i.first # item.first
      BY <3>1 DEF NothingLost, DistinctFirstIds, TypeOK
    <3>3. \/ oeqi_map' = oeqi_map /\ failed' = failed \union {item}
          \/ oeqi_map' = oeqi_map \union {item} /\ failed' = failed
      BY <2>2, <3>2 DEF Enqueue, EnqueueHalted, EnqueueRunning,
                        HasFirst, queue
    <3>. QED  BY <3>1, <3>3 DEF NothingLost
  <2>3. ASSUME NEW c \in Consumers, NEW item \in Items, DequeueItem(c, item)
        PROVE  NothingLost'
    <3>1. /\ item \in oeqi_map /\ oeqi_map' = oeqi_map \ {item}
          /\ item.first = oeqi_first_id /\ oeqi_first_id' = NextId(item)
          /\ pending' = pending /\ failed' = failed
          /\ delivered' = Append(delivered, item)
      BY <2>3 DEF DequeueItem
    <3>2. Delivered' = Delivered \union {item}
      BY <3>1 DEF Delivered, TypeOK
    <3>3. ASSUME NEW i \in pending' \union oeqi_map'
          PROVE  i.first >= oeqi_first_id'
      <4>1. i \in Items /\ i # item /\ i.first >= item.first
        BY <3>1 DEF NothingLost, TypeOK
      <4>. QED  BY <4>1, <3>1, NextIdBounds
    <3>. QED  BY <3>1, <3>2, <3>3 DEF NothingLost
  <2>. QED
    BY <2>1, <2>2, <2>3
       DEF Next, Dequeue, Wait, DequeueHalted, Resume, SpuriousWakeup, Halt,
           vars, queue
<1>. QED  BY <1>1, <1>2, TypeCorrect, PTL DEF Spec

(***************************************************************************)
(* Wake-ups.  A thread that notify_one takes out of the wait set is about  *)
(* to evaluate the predicate only because sleeping threads are inside      *)
(* dequeue(): that is the strengthening.                                   *)
(***************************************************************************)
SleepersAreReady == \A c \in oeq_cv : consumer[c] = "ready"

\* With any number of consumers, an available item is never left to sleeping
\* consumers only.
THEOREM WakeupNotLost == Spec => []NoLostWakeup
<1> DEFINE IInv == SleepersAreReady /\ NoLostWakeup
<1>1. Init => IInv
  BY DEF Init, NoLostWakeup, SleepersAreReady
<1>2. TypeOK /\ IInv /\ [Next]_vars => IInv'
  <2> SUFFICES ASSUME TypeOK, SleepersAreReady, NoLostWakeup, [Next]_vars
               PROVE  IInv'
    OBVIOUS
  <2> USE DEF TypeOK, SleepersAreReady
  <2>1. ASSUME NEW item \in Items, Enqueue(item) PROVE IInv'
    <3>1. /\ consumer' = consumer /\ oeqi_first_id' = oeqi_first_id
          /\ oeqi_state' = oeqi_state
      BY <2>1 DEF Enqueue, EnqueueHalted, EnqueueRunning, queue
    <3>2. CASE oeq_cv' \in NotifyOne(oeq_cv)
      <4>1. /\ oeq_cv' \subseteq oeq_cv
            /\ oeq_cv # {} => \E c \in oeq_cv : c \notin oeq_cv'
        BY <3>2, NotifyOneWakes
      <4>. QED  BY <3>1, <4>1 DEF NoLostWakeup, Awake
    <3>3. CASE /\ oeq_cv' = oeq_cv
               /\ oeqi_state = "Running" =>
                    (HasFirst(oeqi_map', oeqi_first_id)
                       => HasFirst(oeqi_map, oeqi_first_id))
      BY <3>1, <3>3 DEF NoLostWakeup, Awake, HasFirst
    <3>. QED
      BY <2>1, <3>2, <3>3 DEF Enqueue, EnqueueHalted, EnqueueRunning, HasFirst, queue
  <2>2. ASSUME NEW c \in Consumers, Wait(c) PROVE IInv'
    BY <2>2 DEF Wait, Awake, NoLostWakeup, HasFirst, queue
  <2>3. ASSUME NEW c \in Consumers, DequeueHalted(c) PROVE IInv'
    BY <2>3 DEF DequeueHalted, Awake, NoLostWakeup, queue
  <2>4. ASSUME NEW c \in Consumers, NEW item \in Items, DequeueItem(c, item)
        PROVE  IInv'
    <3>1. /\ c \notin oeq_cv
          /\ consumer' = [consumer EXCEPT ![c] = "busy"]
      BY <2>4 DEF DequeueItem, Awake
    <3>2. CASE oeq_cv' \in NotifyOne(oeq_cv)
      <4>1. /\ oeq_cv' \subseteq oeq_cv
            /\ oeq_cv # {} => \E d \in oeq_cv : d \notin oeq_cv'
        BY <3>2, NotifyOneWakes
      <4>2. oeq_cv' # {} => \E d \in Consumers : Awake(d)'
        BY <3>1, <4>1 DEF Awake
      <4>. QED  BY <3>1, <4>1, <4>2 DEF NoLostWakeup
    <3>3. CASE oeq_cv' = oeq_cv /\ ~HasFirst(oeqi_map', oeqi_first_id')
      BY <3>1, <3>3 DEF NoLostWakeup, HasFirst
    <3>. QED  BY <2>4, <3>2, <3>3 DEF DequeueItem
  <2>5. ASSUME NEW c \in Consumers, Resume(c) PROVE IInv'
    BY <2>5 DEF Resume, Awake, NoLostWakeup, HasFirst, queue
  <2>6. ASSUME NEW c \in Consumers, SpuriousWakeup(c) PROVE IInv'
    BY <2>6 DEF SpuriousWakeup, Awake, NoLostWakeup, HasFirst, queue
  <2>7. ASSUME NEW unplanned \in BOOLEAN, Halt(unplanned) PROVE IInv'
    BY <2>7 DEF Halt, HaltedState, NotifyAll, NoLostWakeup
  <2>8. CASE UNCHANGED vars
    BY <2>8 DEF vars, Awake, NoLostWakeup, HasFirst
  <2>. QED
    BY <2>1, <2>2, <2>3, <2>4, <2>5, <2>6, <2>7, <2>8 DEF Next, Dequeue
<1>. QED  BY <1>1, <1>2, TypeCorrect, PTL DEF Spec

(***************************************************************************)
(* The queue implements the promise of the BlockingQueue trait.            *)
(***************************************************************************)
\* Waiting and waking are invisible; every other step is a step of the
\* promise, the one that displaces an entry included.
THEOREM QueueImplementsPromise == Spec => ImplementsPromise
<1>1. Init => Promise!Init
  BY DEF Init, Promise!Init, Entries
<1>2. TypeOK /\ [Next]_vars => [Promise!Next]_Promise!vars
  <2> SUFFICES ASSUME TypeOK, [Next]_vars
               PROVE  Promise!Next \/ UNCHANGED Promise!vars
    OBVIOUS
  <2> USE DEF TypeOK
  <2>1. CASE UNCHANGED <<oeqi_map, oeqi_first_id, oeqi_state, consumer>>
    BY <2>1 DEF Promise!vars, Entries
  <2>2. ASSUME NEW item \in Items, EnqueueRunning(item),
               UNCHANGED <<oeqi_state, consumer>>
        PROVE  Promise!Enqueue
    <3> DEFINE entry == [ticket |-> item.first, item |-> item]
    <3>1. /\ oeqi_map' = {i \in oeqi_map : i.first # item.first} \union {item}
          /\ oeqi_first_id' = oeqi_first_id /\ oeqi_state = "Running"
      BY <2>2 DEF EnqueueRunning, HasFirst
    <3>2. Entries' = {e \in Entries : e.ticket # entry.ticket} \union {entry}
      BY <3>1 DEF Entries
    <3>. QED  BY <2>2, <3>1, <3>2 DEF Promise!Enqueue
  <2>3. ASSUME NEW c \in Consumers, NEW item \in Items, DequeueItem(c, item)
        PROVE  Promise!Dequeue(c)
    <3> DEFINE entry == [ticket |-> item.first, item |-> item]
    <3>1. /\ item \in oeqi_map /\ oeqi_map' = oeqi_map \ {item}
          /\ item.first = oeqi_first_id /\ oeqi_first_id' = NextId(item)
      BY <2>3 DEF DequeueItem
    <3>2. entry \in Entries /\ Entries' = Entries \ {entry}
      BY <3>1 DEF Entries
    <3>. QED
      BY <2>3, <3>1, <3>2 DEF Promise!Dequeue, DequeueItem, Awake, NextTicket
  <2>4. ASSUME NEW c \in Consumers, DequeueHalted(c) PROVE Promise!Dequeue(c)
    BY <2>4 DEF DequeueHalted, Awake, Promise!Dequeue, Entries, queue
  <2>5. ASSUME NEW c \in Consumers, Resume(c) PROVE Promise!Resume(c)
    BY <2>5 DEF Resume, Promise!Resume, Entries, queue
  <2>6. ASSUME NEW unplanned \in BOOLEAN, Halt(unplanned)
        PROVE  Promise!Halt(unplanned)
    BY <2>6 DEF Halt, Promise!Halt, Entries, queue, MayHalt, HaltedState,
                Promise!MayHalt, Promise!HaltedState
  <2>. QED
    BY <2>1, <2>2, <2>3, <2>4, <2>5, <2>6
       DEF Next, Dequeue, Enqueue, EnqueueHalted, Wait, SpuriousWakeup, vars,
           queue, Promise!Next
<1>. QED
  BY <1>1, <1>2, TypeCorrect, PTL DEF Spec, ImplementsPromise, Promise!Spec
=============================================================================
