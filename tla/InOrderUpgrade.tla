--------------------------- MODULE InOrderUpgrade ---------------------------
(***************************************************************************)
(* What SendStream::upgrade promises: the destination receives, piece by   *)
(* piece and in order, what the source stream says, and the upgrade        *)
(* returns Ok only after all of it has been written.                       *)
(***************************************************************************)
EXTENDS Integers, Sequences

VARIABLES
  stream,    \* what the source says
  written,   \* what the destination has received
  result     \* "running", and then what upgrade returned
vars == <<stream, written, result>>

Init == written = <<>> /\ result = "running"

Write ==
  /\ result = "running"
  /\ \E n \in Len(written) + 1 .. Len(stream) : written' = SubSeq(stream, 1, n)
  /\ UNCHANGED <<stream, result>>

Succeed ==
  /\ result = "running"
  /\ written = stream
  /\ result' = "ok"
  /\ UNCHANGED <<stream, written>>

Fail ==
  /\ result = "running"
  /\ result' = "error"
  /\ UNCHANGED <<stream, written>>

Next == Write \/ Succeed \/ Fail
Spec == Init /\ [][Next]_vars

\* The upgrade returns.
FairSpec == Spec /\ WF_vars(Next)
=============================================================================
