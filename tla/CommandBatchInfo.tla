-------------------------- MODULE CommandBatchInfo --------------------------
(***************************************************************************)
(* Batches of commands.  A batch covers the ids first_id .. last_id; when  *)
(* its last command was split, the next batch begins with the same id.     *)
(* The pieces of command_queue are the SendCommandPointers: a command that *)
(* was split is referenced by two batches.                                 *)
(***************************************************************************)
EXTENDS SendCommand

Batches == [first_id : Nat, last_id : Nat, last_id_shared : BOOLEAN,
            command_queue : Seq(Pieces), data_payload_size : Nat]

New(id) ==
  [first_id |-> id, last_id |-> id, last_id_shared |-> FALSE,
   command_queue |-> <<Whole(id)>>, data_payload_size |-> Commands[id].size]

\* The checks of can_append: a fragment is alone in its batch, what is
\* appended is one whole command, a batch is not above the maximum.
CanAppendChecks(batch, other) ==
  /\ IsWhole(Last(batch.command_queue)) \/ Len(batch.command_queue) = 1
  /\ Len(other.command_queue) = 1 /\ IsWhole(other.command_queue[1])
  /\ batch.data_payload_size <= maximum_batched_extent_size

\* can_append compares the commands the last pointer of the batch and the
\* pointer of the other one refer to, whatever part of them the batch has.
CanAppendBatch(batch, other) ==
  /\ batch.data_payload_size # maximum_batched_extent_size
  /\ CanAppend(<<Whole(Last(batch.command_queue).id)>>, other.command_queue)
  /\ batch.last_id + 1 = other.first_id

\* Faulty variant of SplitAt: the id that two batches share is not marked.
SplitUnmarked(batch, other) ==
  LET n == maximum_batched_extent_size - batch.data_payload_size
      piece == other.command_queue[1]
  IN  <<[batch EXCEPT !.command_queue = @ \o <<[piece EXCEPT !.end = n]>>,
                      !.data_payload_size = @ + n,
                      !.last_id = @ + 1],
        [other EXCEPT !.command_queue = <<[piece EXCEPT !.start = n]>>,
                      !.data_payload_size = @ - n]>>

\* Faulty variant of SplitAt: the rest begins one byte late.
SplitLate(batch, other) ==
  LET n == maximum_batched_extent_size - batch.data_payload_size
      piece == other.command_queue[1]
  IN  <<[batch EXCEPT !.command_queue = @ \o <<[piece EXCEPT !.end = n]>>,
                      !.data_payload_size = @ + n,
                      !.last_id = @ + 1,
                      !.last_id_shared = TRUE],
        [other EXCEPT !.command_queue = <<[piece EXCEPT !.start = n + 1]>>,
                      !.data_payload_size = @ - n - 1]>>

\* The batch filled up to the maximum, and what is left of the other one.
SplitAt(batch, other) ==
  LET n == maximum_batched_extent_size - batch.data_payload_size
      piece == other.command_queue[1]
  IN  <<[batch EXCEPT !.command_queue = @ \o <<[piece EXCEPT !.end = n]>>,
                      !.data_payload_size = @ + n,
                      !.last_id = @ + 1,
                      !.last_id_shared = TRUE],
        [other EXCEPT !.command_queue = <<[piece EXCEPT !.start = n]>>,
                      !.data_payload_size = @ - n]>>

\* Faulty variant of TryAppend: a batch may grow past the maximum.
TryAppendUnbounded(batch, other) ==
  IF CanAppendBatch(batch, other)
  THEN <<[batch EXCEPT !.command_queue = @ \o other.command_queue,
                       !.data_payload_size = @ + other.data_payload_size,
                       !.last_id = @ + 1]>>
  ELSE <<batch, other>>

\* try_append: the batch to dispatch, if any, and the batch to go on with.
TryAppend(batch, other) ==
  IF ~CanAppendBatch(batch, other) THEN <<batch, other>>
  ELSE IF batch.data_payload_size + other.data_payload_size
            <= maximum_batched_extent_size
  THEN <<[batch EXCEPT !.command_queue = @ \o other.command_queue,
                       !.data_payload_size = @ + other.data_payload_size,
                       !.last_id = @ + 1]>>
  ELSE SplitAt(batch, other)

\* What the ordered queues deliver after this batch.
NextId(batch) == batch.last_id + (IF batch.last_id_shared THEN 0 ELSE 1)
=============================================================================
