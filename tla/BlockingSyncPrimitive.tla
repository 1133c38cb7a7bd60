----------------------- MODULE BlockingSyncPrimitive -----------------------
(***************************************************************************)
(* What the three synchronisation primitives of the send-stream upgrade    *)
(* (ordered queue, unordered queue, read-once buffer cache) share: the     *)
(* life-cycle state that halt() moves, and the condition variable each of  *)
(* them blocks its threads on.                                             *)
(*                                                                         *)
(* A condition variable is its wait set, the set of threads blocked in     *)
(* wait_while.  A thread that is notified leaves the set; it then competes *)
(* for the mutex and evaluates the wait_while predicate again.             *)
(***************************************************************************)

PrimitiveState == {"Running", "Aborted", "Done"}

\* The state that halt(unplanned) stores.
HaltedState(unplanned) == IF unplanned THEN "Aborted" ELSE "Done"

\* halt() refuses to turn an abort into a planned end.
MayHalt(state, unplanned) == unplanned \/ state # "Aborted"

\* The wait sets that notify_one may leave behind: one waiter, any of them,
\* is woken; without a waiter the notification is lost.
NotifyOne(waiting) ==
  IF waiting = {} THEN {{}} ELSE {waiting \ {t} : t \in waiting}

\* The wait set that notify_all leaves behind.
NotifyAll == {}
=============================================================================
