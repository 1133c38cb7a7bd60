----------------------- MODULE UnorderedElementQueue -----------------------
(***************************************************************************)
(* The queue that hands work to a pool of threads (command construction    *)
(* queue and compression queue): first in, first out, to any consumer.     *)
(*                                                                         *)
(* One action is one critical section of uoeq_mutex.  A producer's call is *)
(* named by the element it carries.                                        *)
(***************************************************************************)
EXTENDS Naturals, Sequences, FiniteSets, BlockingSyncPrimitive

CONSTANTS
  Elements,   \* what the producers will enqueue, once each
  Consumers   \* threads that call dequeue()

ASSUME PoolAssumption == Consumers # {} /\ IsFiniteSet(Consumers)

VARIABLES
  uoeqi_queue,
  uoeqi_state,
  uoeq_cv,     \* consumers blocked in wait_while
  pending,     \* elements whose enqueue() is still to come
  failed,      \* elements whose enqueue() returned an error
  consumer,    \* what each consumer is doing
  accepted,    \* history: the elements enqueue() took, in order
  delivered    \* history: the elements dequeue() returned, in order

poolVars == <<uoeqi_queue, uoeqi_state, uoeq_cv, pending, failed, consumer,
          accepted, delivered>>

(***************************************************************************)
(* Initial state: a new queue, every element still with its producer.      *)
(***************************************************************************)
PoolInit ==
  /\ uoeqi_queue = << >>
  /\ uoeqi_state = "Running"
  /\ uoeq_cv = {}
  /\ pending = Elements
  /\ failed = {}
  /\ consumer = [c \in Consumers |-> "ready"]
  /\ accepted = << >>
  /\ delivered = << >>

(***************************************************************************)
(* enqueue()                                                               *)
(***************************************************************************)
\* A halted queue takes nothing.
EnqueueHalted(e) ==
  /\ uoeqi_state # "Running"
  /\ failed' = failed \union {e}
  /\ UNCHANGED <<uoeqi_queue, uoeq_cv, accepted>>

\* Faulty variant of EnqueueRunning: a consumer is woken only when the queue
\* was empty.
EnqueueWakesOnFirst(e) ==
  /\ uoeqi_state = "Running"
  /\ uoeqi_queue' = Append(uoeqi_queue, e)
  /\ accepted' = Append(accepted, e)
  /\ IF uoeqi_queue = << >> THEN uoeq_cv' \in NotifyOne(uoeq_cv)
                            ELSE UNCHANGED uoeq_cv
  /\ UNCHANGED failed

EnqueueRunning(e) ==
  /\ uoeqi_state = "Running"
  /\ uoeqi_queue' = Append(uoeqi_queue, e)
  /\ accepted' = Append(accepted, e)
  /\ uoeq_cv' \in NotifyOne(uoeq_cv)
  /\ UNCHANGED failed

Enqueue(e) ==
  /\ e \in pending
  /\ pending' = pending \ {e}
  /\ EnqueueHalted(e) \/ EnqueueRunning(e)
  /\ UNCHANGED <<uoeqi_state, consumer, delivered>>

(***************************************************************************)
(* dequeue(): entered from the consumer's loop or after a wake-up.         *)
(***************************************************************************)
AwakeConsumers == {c \in Consumers : consumer[c] = "ready" /\ c \notin uoeq_cv}

\* The wait_while predicate holds: block.
Wait(c) ==
  /\ c \in AwakeConsumers
  /\ uoeqi_queue = << >> /\ uoeqi_state = "Running"
  /\ uoeq_cv' = uoeq_cv \union {c}
  /\ UNCHANGED <<uoeqi_queue, uoeqi_state, pending, failed, consumer,
                 accepted, delivered>>

\* Aborted is an error, Done is None, whatever the queue still holds.
DequeueHalted(c) ==
  /\ c \in AwakeConsumers
  /\ uoeqi_state # "Running"
  /\ consumer' = [consumer EXCEPT
                    ![c] = IF uoeqi_state = "Aborted" THEN "error" ELSE "none"]
  /\ UNCHANGED <<uoeqi_queue, uoeqi_state, uoeq_cv, pending, failed, accepted,
                 delivered>>

\* Faulty variant of DequeueElement: last in, first out.
DequeueNewest(c) ==
  LET last == Len(uoeqi_queue) IN
  /\ c \in AwakeConsumers
  /\ uoeqi_state = "Running" /\ uoeqi_queue # << >>
  /\ uoeqi_queue' = SubSeq(uoeqi_queue, 1, last - 1)
  /\ delivered' = Append(delivered, uoeqi_queue[last])
  /\ consumer' = [consumer EXCEPT ![c] = "busy"]
  /\ UNCHANGED <<uoeqi_state, uoeq_cv, pending, failed, accepted>>

DequeueElement(c) ==
  /\ c \in AwakeConsumers
  /\ uoeqi_state = "Running" /\ uoeqi_queue # << >>
  /\ uoeqi_queue' = Tail(uoeqi_queue)
  /\ delivered' = Append(delivered, Head(uoeqi_queue))
  /\ consumer' = [consumer EXCEPT ![c] = "busy"]
  /\ UNCHANGED <<uoeqi_state, uoeq_cv, pending, failed, accepted>>

\* The consumer has processed its element and calls dequeue() again.
Resume(c) ==
  /\ consumer[c] = "busy"
  /\ consumer' = [consumer EXCEPT ![c] = "ready"]
  /\ UNCHANGED <<uoeqi_queue, uoeqi_state, uoeq_cv, pending, failed, accepted,
                 delivered>>

\* std::sync::Condvar may wake a waiter without a notification.
SpuriousQueueWakeup(c) ==
  /\ c \in uoeq_cv
  /\ uoeq_cv' = uoeq_cv \ {c}
  /\ UNCHANGED <<uoeqi_queue, uoeqi_state, pending, failed, consumer, accepted,
                 delivered>>

(***************************************************************************)
(* halt(); a refused call returns an error and changes nothing.            *)
(***************************************************************************)
\* Faulty variant of HaltQueue: one thread is woken instead of all.
HaltNotifiesOne(unplanned) ==
  /\ MayHalt(uoeqi_state, unplanned)
  /\ uoeqi_state' = HaltedState(unplanned)
  /\ uoeq_cv' \in NotifyOne(uoeq_cv)
  /\ UNCHANGED <<uoeqi_queue, pending, failed, consumer, accepted, delivered>>

HaltQueue(unplanned) ==
  /\ MayHalt(uoeqi_state, unplanned)
  /\ uoeqi_state' = HaltedState(unplanned)
  /\ uoeq_cv' = NotifyAll
  /\ UNCHANGED <<uoeqi_queue, pending, failed, consumer, accepted, delivered>>

Dequeue(c) == Wait(c) \/ DequeueHalted(c) \/ DequeueElement(c)

PoolNext ==
  \/ \E e \in Elements : Enqueue(e)
  \/ \E c \in Consumers : Dequeue(c) \/ Resume(c) \/ SpuriousQueueWakeup(c)
  \/ \E unplanned \in BOOLEAN : HaltQueue(unplanned)

PoolSpec == PoolInit /\ [][PoolNext]_poolVars

\* Every call that can take the mutex eventually does; nobody has to halt the
\* queue and no spurious wake-up has to happen.
PoolFairness ==
  /\ \A e \in Elements : WF_poolVars(Enqueue(e))
  /\ \A c \in Consumers : WF_poolVars(Dequeue(c)) /\ WF_poolVars(Resume(c))

-----------------------------------------------------------------------------
(***************************************************************************)
(* Properties                                                              *)
(***************************************************************************)
PoolTypeOK ==
  /\ uoeqi_queue \in Seq(Elements)
  /\ uoeqi_state \in PrimitiveState
  /\ uoeq_cv \subseteq Consumers
  /\ pending \subseteq Elements
  /\ failed \subseteq Elements
  /\ consumer \in [Consumers -> {"ready", "busy", "none", "error"}]
  /\ accepted \in Seq(Elements)
  /\ delivered \in Seq(Elements)

\* Whichever consumers take them, elements leave in the order they came, each
\* exactly once, and nothing that enqueue() accepted disappears.
FifoOrder == accepted = delivered \o uoeqi_queue

\* enqueue() wakes one thread for each element and dequeue() wakes nobody.
\* That is enough: while any consumer sleeps, there are at least as many awake
\* ones about to call dequeue() as there are elements in the queue.
AwakeForEachElement ==
  uoeqi_state = "Running" /\ uoeq_cv # {} =>
    Cardinality(AwakeConsumers) >= Len(uoeqi_queue)

-----------------------------------------------------------------------------
(***************************************************************************)
(* The queue implements what the BlockingQueue trait promises; the ticket  *)
(* of an element is its place in the order of arrival.                     *)
(***************************************************************************)
Entries ==
  {[ticket |-> Len(delivered) + i - 1, item |-> uoeqi_queue[i]] :
     i \in DOMAIN uoeqi_queue}
NextTicket(entry) == entry.ticket + 1

Promise == INSTANCE BlockingQueue WITH
  Items <- Elements, content <- Entries, next <- Len(delivered),
  state <- uoeqi_state, After <- NextTicket

\* Every step is one that the promise allows, or invisible to its users.
ImplementsPromise == Promise!Spec

\* With its condition variable the queue behaves like one whose consumers
\* simply wait until the next element is there: nobody sleeps for ever on a
\* queue that could serve it or is halted.
ImplementsFairPromise == Promise!FairSpec
=============================================================================
