------------------------ MODULE OrderedElementQueue ------------------------
(***************************************************************************)
(* The queue that puts commands back into stream order (batcher queue and  *)
(* persistence queue).  Producers enqueue items that carry a range of ids  *)
(* in any order; consumers receive them in the order of their ids.         *)
(*                                                                         *)
(* One action is one critical section of oeq_mutex.  The hash map is keyed *)
(* by the first id of its items, so it is kept as the set of its values.   *)
(* A producer's call is named by the item it carries.                      *)
(***************************************************************************)
EXTENDS Naturals, Sequences, BlockingSyncPrimitive

CONSTANTS
  Items,      \* what the producers will enqueue, once each
  Consumers   \* threads that call dequeue()

VARIABLES
  oeqi_map,       \* items inserted and not yet removed
  oeqi_first_id,  \* id the next delivered item must start with
  oeqi_state,
  oeq_cv,         \* consumers blocked in wait_while
  pending,        \* items whose enqueue() is still to come
  failed,         \* items whose enqueue() returned an error
  consumer,       \* what each consumer is doing
  delivered       \* history: the items dequeue() returned, in order

vars == <<oeqi_map, oeqi_first_id, oeqi_state, oeq_cv, pending, failed,
          consumer, delivered>>
queue == <<oeqi_map, oeqi_first_id>>

(***************************************************************************)
(* The contract on the ids: ranges do not overlap, except that the last id *)
(* of an item may be the first id of another one if it is marked shared.   *)
(***************************************************************************)
DoNotOverlap(a, b) ==
  \/ a.last < b.first
  \/ a.shared /\ a.last = b.first

ASSUME ConsumersAssumption == Consumers # {}
ASSUME ItemsAssumption ==
  /\ Items \subseteq [first : Nat, last : Nat, shared : BOOLEAN]
  /\ \A a \in Items : a.first <= a.last
  /\ \A a, b \in Items : a = b \/ DoNotOverlap(a, b) \/ DoNotOverlap(b, a)

\* What the pipeline guarantees beyond the contract: a batch that starts with
\* the second half of a split command never ends with a shared id itself
\* unless it also holds another command.
DistinctFirstIds == \A a, b \in Items : a.first = b.first => a = b

\* Faulty variant of NextId: the shared id is not delivered a second time.
NextIdNeverShared(item) == item.last + 1

\* The id that follows an item.
NextId(item) == item.last + (IF item.shared THEN 0 ELSE 1)

HasFirst(map, id) == \E item \in map : item.first = id

(***************************************************************************)
(* Initial state: a new queue, every item still with its producer.         *)
(***************************************************************************)
Init ==
  /\ oeqi_map = {}
  /\ oeqi_first_id = 0
  /\ oeqi_state = "Running"
  /\ oeq_cv = {}
  /\ pending = Items
  /\ failed = {}
  /\ consumer = [c \in Consumers |-> "ready"]
  /\ delivered = << >>

(***************************************************************************)
(* enqueue()                                                               *)
(***************************************************************************)
\* A halted queue takes nothing.
EnqueueHalted(item) ==
  /\ oeqi_state # "Running"
  /\ failed' = failed \union {item}
  /\ UNCHANGED <<queue, oeq_cv>>

\* Faulty variant of EnqueueRunning: the consumer is not woken.
EnqueueRunningSilently(item) ==
  /\ oeqi_state = "Running"
  /\ oeqi_map' = {i \in oeqi_map : i.first # item.first} \union {item}
  /\ UNCHANGED <<oeqi_first_id, oeq_cv, failed>>

\* insert() has already replaced the old entry when a duplicate is noticed,
\* and then nobody is notified.
EnqueueRunning(item) ==
  /\ oeqi_state = "Running"
  /\ oeqi_map' = {i \in oeqi_map : i.first # item.first} \union {item}
  /\ IF HasFirst(oeqi_map, item.first)
     THEN failed' = failed \union {item} /\ UNCHANGED oeq_cv
     ELSE /\ IF oeqi_first_id = item.first
             THEN oeq_cv' \in NotifyOne(oeq_cv)
             ELSE UNCHANGED oeq_cv
          /\ UNCHANGED failed
  /\ UNCHANGED oeqi_first_id

Enqueue(item) ==
  /\ item \in pending
  /\ pending' = pending \ {item}
  /\ EnqueueHalted(item) \/ EnqueueRunning(item)
  /\ UNCHANGED <<oeqi_state, consumer, delivered>>

(***************************************************************************)
(* dequeue(): entered from the consumer's loop or after a wake-up.         *)
(***************************************************************************)
Awake(c) == consumer[c] = "ready" /\ c \notin oeq_cv

\* The wait_while predicate holds: block.
Wait(c) ==
  /\ Awake(c)
  /\ oeqi_state = "Running" /\ ~HasFirst(oeqi_map, oeqi_first_id)
  /\ oeq_cv' = oeq_cv \union {c}
  /\ UNCHANGED <<queue, oeqi_state, pending, failed, consumer, delivered>>

\* Aborted is an error, Done is None, whatever the map still holds.
DequeueHalted(c) ==
  /\ Awake(c)
  /\ oeqi_state # "Running"
  /\ consumer' = [consumer EXCEPT
                    ![c] = IF oeqi_state = "Aborted" THEN "error" ELSE "none"]
  /\ UNCHANGED <<queue, oeqi_state, oeq_cv, pending, failed, delivered>>

\* Faulty variant of DequeueItem: any item will do.
DequeueAnyItem(c, item) ==
  /\ Awake(c)
  /\ oeqi_state = "Running"
  /\ item \in oeqi_map
  /\ oeqi_map' = oeqi_map \ {item}
  /\ oeqi_first_id' = NextId(item)
  /\ delivered' = Append(delivered, item)
  /\ consumer' = [consumer EXCEPT ![c] = "busy"]
  /\ UNCHANGED <<oeqi_state, oeq_cv, pending, failed>>

DequeueItem(c, item) ==
  /\ Awake(c)
  /\ oeqi_state = "Running"
  /\ item \in oeqi_map /\ item.first = oeqi_first_id
  /\ oeqi_map' = oeqi_map \ {item}
  /\ oeqi_first_id' = NextId(item)
  /\ IF HasFirst(oeqi_map', oeqi_first_id')
     THEN oeq_cv' \in NotifyOne(oeq_cv)
     ELSE UNCHANGED oeq_cv
  /\ delivered' = Append(delivered, item)
  /\ consumer' = [consumer EXCEPT ![c] = "busy"]
  /\ UNCHANGED <<oeqi_state, pending, failed>>

\* The consumer has processed its item and calls dequeue() again.
Resume(c) ==
  /\ consumer[c] = "busy"
  /\ consumer' = [consumer EXCEPT ![c] = "ready"]
  /\ UNCHANGED <<queue, oeqi_state, oeq_cv, pending, failed, delivered>>

\* std::sync::Condvar may wake a waiter without a notification.
SpuriousWakeup(c) ==
  /\ c \in oeq_cv
  /\ oeq_cv' = oeq_cv \ {c}
  /\ UNCHANGED <<queue, oeqi_state, pending, failed, consumer, delivered>>

(***************************************************************************)
(* halt(); a refused call returns an error and changes nothing.            *)
(***************************************************************************)
\* Faulty variant of Halt: one thread is woken instead of all.
HaltNotifiesOne(unplanned) ==
  /\ MayHalt(oeqi_state, unplanned)
  /\ oeqi_state' = HaltedState(unplanned)
  /\ oeq_cv' \in NotifyOne(oeq_cv)
  /\ UNCHANGED <<queue, pending, failed, consumer, delivered>>

Halt(unplanned) ==
  /\ MayHalt(oeqi_state, unplanned)
  /\ oeqi_state' = HaltedState(unplanned)
  /\ oeq_cv' = NotifyAll
  /\ UNCHANGED <<queue, pending, failed, consumer, delivered>>

Dequeue(c) ==
  Wait(c) \/ DequeueHalted(c) \/ \E item \in Items : DequeueItem(c, item)

Next ==
  \/ \E item \in Items : Enqueue(item)
  \/ \E c \in Consumers : Dequeue(c) \/ Resume(c) \/ SpuriousWakeup(c)
  \/ \E unplanned \in BOOLEAN : Halt(unplanned)

Spec == Init /\ [][Next]_vars

\* Every call that can take the mutex eventually does; nobody has to halt the
\* queue and no spurious wake-up has to happen.
Fairness ==
  /\ \A item \in Items : WF_vars(Enqueue(item))
  /\ \A c \in Consumers : WF_vars(Dequeue(c)) /\ WF_vars(Resume(c))

FairSpec == Spec /\ Fairness
-----------------------------------------------------------------------------
(***************************************************************************)
(* Properties                                                              *)
(***************************************************************************)
Delivered == {delivered[i] : i \in DOMAIN delivered}

TypeOK ==
  /\ oeqi_map \subseteq Items
  /\ oeqi_first_id \in Nat
  /\ oeqi_state \in PrimitiveState
  /\ oeq_cv \subseteq Consumers
  /\ pending \subseteq Items
  /\ failed \subseteq Items
  /\ consumer \in [Consumers -> {"ready", "busy", "none", "error"}]
  /\ delivered \in Seq(Items)

\* Whatever order the producers arrive in, what the consumers receive starts
\* at id 0 and every item starts with the id its predecessor announced.
InOrder ==
  /\ \A i \in 1 .. Len(delivered) - 1 :
       LET a == delivered[i]  b == delivered[i + 1]
       IN  b.first = IF a.shared THEN a.last ELSE a.last + 1
  /\ delivered # << >> => delivered[1].first = 0
  /\ oeqi_first_id = IF delivered = << >> THEN 0
                     ELSE NextId(delivered[Len(delivered)])

\* If first ids are distinct, no item is overwritten in the map, delivered
\* twice, or stranded behind the id the queue waits for.
NothingLost ==
  DistinctFirstIds =>
    /\ Items = pending \union failed \union oeqi_map \union Delivered
    /\ pending \intersect (oeqi_map \union Delivered) = {}
    /\ oeqi_map \intersect Delivered = {}
    /\ \A item \in pending \union oeqi_map : item.first >= oeqi_first_id

\* A notification always reaches somebody: when the next item is there and a
\* consumer sleeps, another one is about to look at the queue.
NoLostWakeup ==
  oeqi_state = "Running" /\ HasFirst(oeqi_map, oeqi_first_id) /\ oeq_cv # {}
    => \E c \in Consumers : Awake(c)

\* Unless somebody halts the queue, every item of a set that obeys the contract
\* reaches a consumer.  The documentation of the queue says so of its "good set
\* of items", in which two items have the same first id; enqueue() refuses the
\* second of them after it has displaced the first.
GoodSetDelivered == <>(Delivered = Items \/ oeqi_state # "Running")

\* The part of that promise that enqueue() and dequeue() keep: with distinct
\* first ids, which the batches of the pipeline have, no notification is missed
\* for good and nothing waits behind an id that never comes.
AllDelivered == DistinctFirstIds => GoodSetDelivered

-----------------------------------------------------------------------------
(***************************************************************************)
(* The queue implements what the BlockingQueue trait promises; the ticket  *)
(* of an item is its first id.                                             *)
(***************************************************************************)
Entries == {[ticket |-> item.first, item |-> item] : item \in oeqi_map}
NextTicket(entry) == NextId(entry.item)

Promise == INSTANCE BlockingQueue WITH
  content <- Entries, next <- oeqi_first_id, state <- oeqi_state,
  After <- NextTicket

\* Every step is one that the promise allows, or invisible to its users.
ImplementsPromise == Promise!Spec

\* With its condition variable the queue behaves like one whose consumers
\* simply wait until the next item is there: nobody sleeps for ever on a
\* queue that could serve it or is halted.
ImplementsFairPromise == Promise!FairSpec
=============================================================================
