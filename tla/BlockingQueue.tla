--------------------------- MODULE BlockingQueue ---------------------------
(***************************************************************************)
(* What the threads of the pipeline rely on when they call a queue through *)
(* the BlockingQueue trait: no mutex, no condition variable, no wake-ups.  *)
(* An accepted item holds a ticket; dequeue() blocks until the item with   *)
(* the next ticket is there.  The ordered queue draws tickets from the ids *)
(* of its items, the unordered one from the order of arrival.              *)
(***************************************************************************)
EXTENDS Naturals, BlockingSyncPrimitive

CONSTANTS
  Items,
  Consumers,
  After(_)    \* the ticket that follows a delivered entry

VARIABLES
  content,    \* accepted and not delivered: entries [ticket, item]
  next,       \* ticket of the item to be delivered next
  state,
  consumer

vars == <<content, next, state, consumer>>

Init ==
  /\ content = {}
  /\ next = 0
  /\ state = "Running"
  /\ consumer = [c \in Consumers |-> "ready"]

\* An item that draws the ticket of another one displaces it.
Enqueue ==
  /\ state = "Running"
  /\ \E entry \in content' :
       /\ entry.item \in Items
       /\ content' = {e \in content : e.ticket # entry.ticket} \union {entry}
  /\ UNCHANGED <<next, state, consumer>>

\* Blocks until the next item is there or the queue is halted.
Dequeue(c) ==
  /\ consumer[c] = "ready"
  /\ \/ /\ state = "Running"
        /\ \E entry \in content :
             /\ entry.ticket = next
             /\ content' = content \ {entry}
             /\ next' = After(entry)
        /\ consumer' = [consumer EXCEPT ![c] = "busy"]
     \/ /\ state # "Running"
        /\ consumer' = [consumer EXCEPT
                          ![c] = IF state = "Aborted" THEN "error" ELSE "none"]
        /\ UNCHANGED <<content, next>>
  /\ UNCHANGED state

Resume(c) ==
  /\ consumer[c] = "busy"
  /\ consumer' = [consumer EXCEPT ![c] = "ready"]
  /\ UNCHANGED <<content, next, state>>

Halt(unplanned) ==
  /\ MayHalt(state, unplanned)
  /\ state' = HaltedState(unplanned)
  /\ UNCHANGED <<content, next, consumer>>

Next ==
  \/ Enqueue
  \/ \E c \in Consumers : Dequeue(c) \/ Resume(c)
  \/ \E unplanned \in BOOLEAN : Halt(unplanned)

Spec == Init /\ [][Next]_vars

\* No consumer blocks for ever on a queue that could serve it or is halted.
FairSpec ==
  /\ Spec
  /\ \A c \in Consumers : WF_vars(Dequeue(c)) /\ WF_vars(Resume(c))
=============================================================================
