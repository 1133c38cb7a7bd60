---------------------------- MODULE SendCommand ----------------------------
(***************************************************************************)
(* The commands of a send stream, as the upgrade sees them.  The bytes of  *)
(* a payload are not modelled: a byte of a write is known by the position  *)
(* it has in the original stream, so a command that is being built is the  *)
(* sequence of the pieces of original commands its data comes from.        *)
(***************************************************************************)
EXTENDS Integers, Sequences, SequencesExt

CONSTANTS
  Commands,   \* the stream: a sequence of [type, path, offset, size]
  maximum_batched_extent_size

CommandIds == DOMAIN Commands
CommandTypes == {"WRITE", "OTHER", "END"}

\* A stream ends with its only END command; only writes have data.
IsStream(s) ==
  /\ s \in Seq([type : CommandTypes, path : STRING, offset : Nat, size : Nat])
  /\ s # <<>>
  /\ \A i \in DOMAIN s : /\ s[i].type = "END" <=> i = Len(s)
                         /\ s[i].type # "WRITE" => s[i].size = 0

-----------------------------------------------------------------------------
\* SendCommandPointer: bytes start .. end - 1 of the payload of command id.
Pieces == [id : CommandIds, start : Nat, end : Nat]
Whole(id) == [id |-> id, start |-> 0, end |-> Commands[id].size]
IsWhole(piece) == piece = Whole(piece.id)

\* get_cached_data_payload_size of a command made of these pieces
PayloadSize(pieces) ==
  LET size[n \in 0 .. Len(pieces)] ==
        IF n = 0 THEN 0 ELSE size[n - 1] + pieces[n].end - pieces[n].start
  IN  size[Len(pieces)]

IsAppendable(pieces) == Commands[Head(pieces).id].type = "WRITE"
IsEnd(pieces) == Commands[Head(pieces).id].type = "END"

\* Where the data of a command starts in its file: sc_start_offset.
StartOffset(pieces) ==
  Commands[Head(pieces).id].offset + Head(pieces).start

\* SendCommand::can_append
CanAppend(pieces, other) ==
  /\ IsAppendable(pieces)
  /\ IsAppendable(other)
  /\ Commands[Head(pieces).id].path = Commands[Head(other).id].path
  /\ StartOffset(pieces) + PayloadSize(pieces) = StartOffset(other)

-----------------------------------------------------------------------------
\* What a command says to the receiver: itself, or the bytes of its data.
Meaning(piece) ==
  IF Commands[piece.id].type = "WRITE"
  THEN [k \in 1 .. piece.end - piece.start |-> <<piece.id, piece.start + k>>]
  ELSE << <<piece.id, 0>> >>

MeaningOf(pieces) == FlattenSeq([n \in DOMAIN pieces |-> Meaning(pieces[n])])

\* The meaning of the stream that is read, and of one that was written.
SourceStream == MeaningOf([i \in CommandIds |-> Whole(i)])
StreamOf(written) == FlattenSeq([n \in DOMAIN written |-> MeaningOf(written[n].pieces)])

-----------------------------------------------------------------------------
\* The batches the options promise, for a stream without empty writes: writes
\* that continue each other are put together, and a batch of such a run is as
\* large as the maximum lets it be.  A command that is at least as large as the
\* maximum is not cut: what is left of it is a batch (so a maximum of 0 turns
\* batching off).  BatchStarts holds the positions in the source stream where a
\* written command begins.
BatchStarts ==
  LET source == SourceStream
      CommandAt(p) == Commands[source[p][1]]
      FileOffset(p) == CommandAt(p).offset + source[p][2]
      Continues(p) ==
        /\ p > 1
        /\ CommandAt(p - 1).type = "WRITE" /\ CommandAt(p).type = "WRITE"
        /\ CommandAt(p - 1).path = CommandAt(p).path
        /\ FileOffset(p) = FileOffset(p - 1) + 1
      Left(p) == CommandAt(p).size - source[p][2] + 1
      starts[p \in DOMAIN source] ==
        \/ ~Continues(p)
        \/ \E q \in 1 .. p - 1 :
             /\ p - q = Max({maximum_batched_extent_size, Left(q)})
             /\ \A r \in q + 1 .. p : Continues(r)
             /\ starts[q]
  IN  {p \in DOMAIN source : starts[p]}

\* The positions where the commands of a written stream begin.
StartsOf(written) ==
  {1 + Len(StreamOf(SubSeq(written, 1, n - 1))) : n \in DOMAIN written}
BatchedAsPromised(written) ==
  LET length == Len(StreamOf(written))
  IN  StartsOf(written) = {p \in BatchStarts : p <= length}
=============================================================================
