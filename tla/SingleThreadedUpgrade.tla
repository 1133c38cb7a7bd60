----------------------- MODULE SingleThreadedUpgrade -----------------------
(***************************************************************************)
(* SendStream::upgrade with one thread: read a command, upgrade it, append *)
(* it to the previous write while the two continue each other and the      *)
(* batch has room, write what cannot grow any more.  Every read and every  *)
(* write may fail, which ends the upgrade with an error.                   *)
(***************************************************************************)
EXTENDS Integers, Sequences, SequencesExt

CONSTANTS
  Streams,   \* the streams that may be upgraded
  MaximumSizes,   \* what the option maximum_batched_extent_size may be
  compression_level

VARIABLES
  stream,                    \* the stream that is upgraded
  maximum_batched_extent_size,
  pc,                        \* the next statement of upgrade
  next_id,                   \* the command the source is positioned at
  previous_command_option,   \* <<>>, or the command that may still grow
  command,                   \* the current command, as pieces
  output,                    \* the commands persisted: [pieces, encoded]
  result
given == <<stream, maximum_batched_extent_size>>
vars == <<given, pc, next_id, previous_command_option, command, output, result>>

INSTANCE SendCommand WITH Commands <- stream

ASSUME OptionsAssumption ==
  /\ \A s \in Streams : IsStream(s)
  /\ MaximumSizes \subseteq Nat /\ compression_level \in Nat

Init ==
  /\ stream \in Streams
  /\ maximum_batched_extent_size \in MaximumSizes
  /\ pc = "set_versions"
  /\ next_id = 1
  /\ previous_command_option = <<>>
  /\ command = <<>>
  /\ output = <<>>
  /\ result = "running"

\* Read the stream header, write the one of version 2.
SetVersions ==
  /\ pc = "set_versions"
  /\ pc' = "read"
  /\ UNCHANGED <<given, next_id, previous_command_option, command, output, result>>

\* SendCommand::new and upgrade (or fake_an_upgrade)
ReadCommand ==
  /\ pc = "read"
  /\ next_id \in CommandIds
  /\ command' = <<Whole(next_id)>>
  /\ next_id' = next_id + 1
  /\ pc' = IF previous_command_option = <<>> THEN "current" ELSE "append"
  /\ UNCHANGED <<given, previous_command_option, output, result>>

-----------------------------------------------------------------------------
\* Faulty variant of BytesToAppend: the maximum is not considered.
BytesToAppendAll(previous) == PayloadSize(command)

\* SendAttribute::append: nothing when the batch is above its maximum
\* already, otherwise what fits.
BytesToAppend(previous) ==
  LET room == maximum_batched_extent_size - PayloadSize(previous)
  IN  IF room < 0 THEN 0
      ELSE IF PayloadSize(command) < room THEN PayloadSize(command) ELSE room

\* Faulty variant of TruncateAtStart: one byte too many goes.
TruncateTooMuch(piece, n) == [piece EXCEPT !.start = @ + n + 1]

TruncateAtStart(piece, n) == [piece EXCEPT !.start = @ + n]

AppendToPrevious ==
  /\ pc = "append"
  /\ LET previous == previous_command_option[1]
         piece == Head(command)
         n == BytesToAppend(previous)
     IN  IF CanAppend(previous, command)
         THEN /\ previous_command_option' =
                   <<IF n = 0 THEN previous
                     ELSE previous \o <<[piece EXCEPT !.end = piece.start + n]>>>>
              /\ command' = <<TruncateAtStart(piece, n)>>
         ELSE UNCHANGED <<previous_command_option, command>>
  /\ pc' = "previous"
  /\ UNCHANGED <<given, next_id, output, result>>

-----------------------------------------------------------------------------
IsEmpty(pieces) == IsAppendable(pieces) /\ PayloadSize(pieces) = 0
IsFull(pieces) ==
  IsAppendable(pieces) /\ PayloadSize(pieces) >= maximum_batched_extent_size

\* Compression may fail to shrink a payload, which is then written as it is.
Persisted(pieces) ==
  [pieces : {pieces},
   encoded : IF IsAppendable(pieces) /\ compression_level # 0 THEN BOOLEAN ELSE {FALSE}]

\* Write the previous command unless it may still grow.
FlushPrevious ==
  /\ pc = "previous"
  /\ IF IsFull(previous_command_option[1]) \/ ~IsEmpty(command)
     THEN /\ \E p \in Persisted(previous_command_option[1]) : output' = output \o <<p>>
          /\ previous_command_option' = <<>>
     ELSE UNCHANGED <<output, previous_command_option>>
  /\ pc' = "current"
  /\ UNCHANGED <<given, next_id, command, result>>

\* Faulty variant of HandleCurrent: any command that is not appendable is
\* taken for the last one.
HandleCurrentEarly ==
  /\ pc = "current"
  /\ IF IsAppendable(command)
     THEN /\ previous_command_option' =
               IF IsEmpty(command) THEN previous_command_option ELSE <<command>>
          /\ pc' = "read"
          /\ UNCHANGED output
     ELSE /\ output' = output \o <<[pieces |-> command, encoded |-> FALSE]>>
          /\ pc' = "return"
          /\ UNCHANGED previous_command_option
  /\ UNCHANGED <<given, next_id, command, result>>

\* Write the current command or, if it may grow, make it the previous one.
\* An appendable command without data is dropped.
HandleCurrent ==
  /\ pc = "current"
  /\ IF IsAppendable(command)
     THEN /\ previous_command_option' =
               IF IsEmpty(command) THEN previous_command_option ELSE <<command>>
          /\ pc' = "read"
          /\ UNCHANGED <<output, result>>
     ELSE /\ output' = output \o <<[pieces |-> command, encoded |-> FALSE]>>
          /\ IF IsEnd(command)
             THEN pc' = "return" /\ UNCHANGED result
             ELSE IF previous_command_option # <<>>
                  THEN pc' = "done" /\ result' = "error"
                  ELSE pc' = "read" /\ UNCHANGED result
          /\ UNCHANGED previous_command_option
  /\ UNCHANGED <<given, next_id, command>>

\* Print the statistics and return.
Return ==
  /\ pc = "return"
  /\ pc' = "done"
  /\ result' = "ok"
  /\ UNCHANGED <<given, next_id, previous_command_option, command, output>>

\* A read, a write, a check or the compression fails.
FailUpgrade ==
  /\ pc # "done"
  /\ pc' = "done"
  /\ result' = "error"
  /\ UNCHANGED <<given, next_id, previous_command_option, command, output>>

Next ==
  \/ SetVersions \/ ReadCommand \/ AppendToPrevious \/ FlushPrevious \/ HandleCurrent
  \/ Return \/ FailUpgrade
Spec == Init /\ [][Next]_vars
FairSpec == Spec /\ WF_vars(Next)

-----------------------------------------------------------------------------
TypeOK ==
  /\ stream \in Streams /\ maximum_batched_extent_size \in MaximumSizes
  /\ pc \in {"set_versions", "read", "append", "previous", "current", "return", "done"}
  /\ next_id \in 1 .. Len(stream) + 1
  /\ previous_command_option \in Seq(Seq(Pieces)) /\ Len(previous_command_option) <= 1
  /\ command \in Seq(Pieces)
  /\ output \in Seq([pieces : Seq(Pieces), encoded : BOOLEAN])
  /\ result \in {"running", "ok", "error"}

\* Nothing is in two places or in none: what was written, the previous command
\* and the rest of the current one are, in this order, what was read so far
\* (upgrade_commands_single_threaded hands pieces of writes between the three).
NothingLost ==
  pc # "done" =>
    StreamOf(output) \o FlattenSeq([n \in DOMAIN previous_command_option |->
                                      MeaningOf(previous_command_option[n])])
      \o (IF pc \in {"append", "previous", "current"} THEN MeaningOf(command) ELSE <<>>)
    = MeaningOf([i \in 1 .. next_id - 1 |-> Whole(i)])

\* In every state of upgrade_commands_single_threaded the variables have their
\* types and every byte read is in one place.
UpgradeIsSound == TypeOK /\ NothingLost

\* The commands that were written begin where the options say they do
\* (SendAttribute::append fills a batch to its maximum, is_full ends it).
BatchesAreMaximal == BatchedAsPromised(output)

\* The upgrade with one thread keeps the promise of SendStream::upgrade, and
\* returns.
Promise == INSTANCE InOrderUpgrade
             WITH stream <- SourceStream, written <- StreamOf(output)
ImplementsInOrderUpgrade == Promise!FairSpec
=============================================================================
