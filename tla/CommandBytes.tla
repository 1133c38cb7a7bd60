---------------------------- MODULE CommandBytes ----------------------------
(***************************************************************************)
(* SendCommand as bytes.  A command keeps its encoding in sc_buffer and,   *)
(* beside it, what was parsed from it: the header, the path, the offset    *)
(* and the data attribute.  To append to a command or to cut it changes    *)
(* the second only and marks the command dirty; flush and compress encode  *)
(* it anew.  An encoding is the sequence of its attributes with their      *)
(* sizes in bytes; the data is known by the pieces of the original         *)
(* commands it comes from, and a CRC by what it was computed over.         *)
(***************************************************************************)
EXTENDS Integers, Sequences, SequencesExt

CONSTANTS
  ByteUpgrades,   \* [stream, version, damaged, threads, options...] to upgrade
  ZstdSizes       \* bound: the sizes to which a payload may be compressed

VARIABLES
  upgrade,                   \* the member of ByteUpgrades that is upgraded
  at,                        \* the next statement
  next_command,              \* the command that is read next
  previous_command_option,   \* <<>>, or the command that may still grow
  previous_batch,            \* <<>>, or the batch that may still grow
  current_command,           \* <<>>, or the command that was read
  persisted,                 \* the encodings written
  outcome                    \* of the upgrade
byteVars == <<upgrade, at, next_command, previous_command_option, previous_batch,
              current_command, persisted, outcome>>

B == INSTANCE CommandBatchInfo
       WITH Commands <- upgrade.stream,
            maximum_batched_extent_size <- upgrade.maximum_batched_extent_size

DESTINATION_VERSION == 2
HEADER_SIZE == 4 + 2 + 4
None == -1
NoCrc == <<"none">>
ZeroCrc == <<"zero">>
BadCrc == <<"bad">>

-----------------------------------------------------------------------------
\* SendAttributeHeader and SendAttribute: DATA has no size from version 2 on.
Sized(type, version) == ~(type = "DATA" /\ version >= 2)
Attribute(type, size) ==
  [type |-> type, size |-> size, sized |-> TRUE, text |-> "", number |-> 0,
   pieces |-> <<>>, zstd |-> FALSE]
NewFromU64(type, value) == [Attribute(type, 8) EXCEPT !.number = value]
NewFromU32(type, value) == [Attribute(type, 4) EXCEPT !.number = value]

SizeOf(a) == 2 + (IF a.sized THEN 2 ELSE 0) + a.size
BytesOf(attrs) == FoldSeq(LAMBDA a, sum : sum + SizeOf(a), 0, attrs)

\* SendAttribute::new finds the attributes that were written if a reader of
\* this version takes the sizes for what they are; DATA takes what is left.
Readable(attrs, version) ==
  \A n \in DOMAIN attrs :
    /\ attrs[n].sized = Sized(attrs[n].type, version)
    /\ attrs[n].type = "DATA" => n = Len(attrs)

OfType(type, attrs) == {n \in DOMAIN attrs : attrs[n].type = type}
PathOf(attrs) == {attrs[n].text : n \in OfType("PATH", attrs)}
OffsetOf(attrs) == {attrs[n].number : n \in OfType("FILE_OFFSET", attrs)}

\* The attribute in memory: its encoding, sah_version, sa_version and
\* sa_uncompressed_payload_size.
InMemory(a, version) ==
  [wire |-> a, header_version |-> version, version |-> version, uncompressed |-> a.size]
DataOf(attrs, version) ==
  IF OfType("DATA", attrs) = {} THEN <<>> ELSE <<InMemory(Last(attrs), version)>>

IsAttributeUpgradeable(a) ==
  a.wire.type = "DATA" /\ a.header_version < 2 /\ DESTINATION_VERSION = 2
IsAttributeCompressible(a) == a.wire.type = "DATA" /\ a.header_version >= 2

-----------------------------------------------------------------------------
\* SendCommandHeader
IsCommandUpgradeable(h) == h.type = "WRITE" /\ h.version < 2 /\ DESTINATION_VERSION = 2
IsCommandCompressible(h) == h.type = "WRITE" /\ h.version >= 2
IsAppendable(c) == c.sc_header.type = "WRITE"

\* compute_crc32c is over all bytes, with zeros for the CRC.
ComputeCrc32c(buffer) == <<buffer.len, buffer.size, buffer.type, buffer.attrs>>

\* A buffer that is filled by the header and these attributes; the header is
\* persisted without its CRC, which is computed and persisted then.
Encoded(type, attrs) ==
  LET buffer == [len |-> HEADER_SIZE + BytesOf(attrs), size |-> BytesOf(attrs),
                 type |-> type, crc |-> ZeroCrc, attrs |-> attrs]
  IN  [buffer EXCEPT !.crc = ComputeCrc32c(buffer)]
HeaderIn(buffer, version) ==
  [size |-> buffer.size, type |-> buffer.type, crc |-> buffer.crc, version |-> version]

\* The attributes in the first n bytes of a buffer, and whether these bytes
\* end between two attributes.
CutsBetween(buffer, n) ==
  \E k \in 0 .. Len(buffer.attrs) : HEADER_SIZE + BytesOf(SubSeq(buffer.attrs, 1, k)) = n
Prefix(buffer, n) ==
  LET k == CHOOSE k \in 0 .. Len(buffer.attrs) :
             HEADER_SIZE + BytesOf(SubSeq(buffer.attrs, 1, k)) = n
  IN  SubSeq(buffer.attrs, 1, k)
WithOffset(attrs, offset) ==
  [n \in DOMAIN attrs |-> IF attrs[n].type = "FILE_OFFSET"
                          THEN NewFromU64("FILE_OFFSET", offset) ELSE attrs[n]]

-----------------------------------------------------------------------------
Data(c) == c.sc_data_attribute[1]
StartOffset(c) == CHOOSE offset \in c.sc_start_offset : TRUE

\* SendCommand::verify takes the bytes of a clean command from its buffer and
\* flushes those of a dirty one.
PreDataKept(c) == c.sc_buffer.len - c.sc_data_attribute_initial_size
FlushedAttributes(c) ==
  IF c.sc_data_attribute_dirty
  THEN WithOffset(Prefix(c.sc_buffer, PreDataKept(c)), StartOffset(c)) \o <<Data(c).wire>>
  ELSE c.sc_buffer.attrs
CanFlushAttributes(c) ==
  c.sc_data_attribute_dirty =>
    /\ CutsBetween(c.sc_buffer, PreDataKept(c))
    /\ Readable(Prefix(c.sc_buffer, PreDataKept(c)), c.sc_version)
    /\ Data(c).version = c.sc_version

\* What these bytes are parsed to is what the fields say.
Verify(c) ==
  LET buffer == c.sc_buffer
      attrs == FlushedAttributes(c)
  IN  /\ CanFlushAttributes(c)
      /\ buffer.len = HEADER_SIZE + buffer.size
      /\ buffer.size = c.sc_header.size
      /\ Readable(attrs, c.sc_version)
      /\ c.sc_header = HeaderIn(buffer, c.sc_version)
      /\ PathOf(attrs) = c.sc_path
      /\ OffsetOf(attrs) = c.sc_start_offset
      /\ IF c.sc_data_attribute_dirty
         THEN Data(c).header_version = c.sc_version
         ELSE /\ buffer.len = HEADER_SIZE + BytesOf(attrs)
              /\ buffer.crc = ComputeCrc32c(buffer)

\* An operation on a command fails, <<>>, or returns the command; most of them
\* verify it if serde_checks is set.
Checked(ok, c) == IF ok THEN <<c>> ELSE <<>>
Verified(ok, c) ==
  IF ~ok THEN <<>> ELSE Checked(upgrade.serde_checks => Verify(c), c)

-----------------------------------------------------------------------------
\* Command i of the source.
PathAttribute(i) == [Attribute("PATH", 1) EXCEPT !.text = upgrade.stream[i].path]
SourceAttributes(i) ==
  CASE upgrade.stream[i].type = "WRITE" ->
         <<PathAttribute(i), NewFromU64("FILE_OFFSET", upgrade.stream[i].offset),
           [Attribute("DATA", upgrade.stream[i].size)
              EXCEPT !.sized = Sized("DATA", upgrade.version), !.pieces = <<B!Whole(i)>>]>>
    [] upgrade.stream[i].type = "OTHER" -> <<PathAttribute(i)>>
    [] upgrade.stream[i].type = "END" -> <<>>
SourceCommand(i) ==
  [Encoded(upgrade.stream[i].type, SourceAttributes(i))
     EXCEPT !.crc = IF i \in upgrade.damaged THEN BadCrc ELSE @]

\* SendCommand::new_from_header
NewFromHeader(buffer) ==
  LET version == upgrade.version
      data == DataOf(buffer.attrs, version)
  IN  Verified(/\ Readable(buffer.attrs, version)
               /\ upgrade.avoid_crcing_input \/ buffer.crc = ComputeCrc32c(buffer),
               [sc_header |-> HeaderIn(buffer, version),
                sc_buffer |-> buffer,
                sc_data_attribute |-> data,
                sc_data_attribute_initial_size |->
                  IF data = <<>> THEN None ELSE SizeOf(data[1].wire),
                sc_data_attribute_dirty |-> FALSE,
                sc_path |-> PathOf(buffer.attrs),
                sc_start_offset |-> OffsetOf(buffer.attrs),
                sc_uncompressed_size |-> buffer.len,
                sc_version |-> version])

\* SendCommand::upgrade writes every attribute anew, into a buffer that is as
\* long as the old one.
Upgrade(c) ==
  LET UpgradedAttribute(a) ==
        IF IsAttributeUpgradeable(InMemory(a, c.sc_version))
        THEN [a EXCEPT !.sized = FALSE] ELSE a
      old == c.sc_buffer.attrs
      new == [n \in DOMAIN old |-> UpgradedAttribute(old[n])]
      buffer == Encoded(c.sc_header.type, new)
      data == DataOf(new, DESTINATION_VERSION)
  IN  Verified(/\ IsCommandUpgradeable(c.sc_header)
               /\ c.sc_header.size # None /\ c.sc_header.crc # NoCrc
               /\ Readable(old, c.sc_version)
               /\ c.sc_header.size = BytesOf(old)
               /\ BytesOf(new) <= BytesOf(old),
               [c EXCEPT !.sc_header = HeaderIn(buffer, DESTINATION_VERSION),
                         !.sc_buffer = buffer,
                         !.sc_data_attribute = data,
                         !.sc_data_attribute_initial_size =
                           IF data = <<>> THEN None ELSE SizeOf(data[1].wire),
                         !.sc_data_attribute_dirty = FALSE,
                         !.sc_uncompressed_size = buffer.len,
                         !.sc_version = DESTINATION_VERSION])

\* A command of another type has the same encoding in the next version.
FakeAnUpgrade(c) ==
  Checked(~IsCommandUpgradeable(c.sc_header),
          [c EXCEPT !.sc_header.version = DESTINATION_VERSION,
                    !.sc_version = DESTINATION_VERSION])

\* What both kinds of upgrade do to each command first.
UpgradedFrom(new) ==
  CASE new = <<>> -> <<>>
    [] new # <<>> /\ IsCommandUpgradeable(new[1].sc_header) -> Upgrade(new[1])
    [] OTHER -> FakeAnUpgrade(new[1])
Constructed(i) == UpgradedFrom(NewFromHeader(SourceCommand(i)))

-----------------------------------------------------------------------------
\* The size of a buffer up to its data attribute.
PreDataSize(c) == HEADER_SIZE + c.sc_header.size - c.sc_data_attribute_initial_size

\* Faulty variant of FlushPreData: the offset in the buffer is kept.
FlushPreDataStale(c) == Prefix(c.sc_buffer, PreDataSize(c))

\* flush_pre_data_to_buffer: the offset may have changed since the buffer was
\* written.  The attributes are read in the version of the command and have to
\* be of the version of the destination.
FlushPreData(c) == WithOffset(Prefix(c.sc_buffer, PreDataSize(c)), StartOffset(c))
CanFlushPreData(c) ==
  /\ c.sc_data_attribute_initial_size # None
  /\ c.sc_start_offset # {}
  /\ CutsBetween(c.sc_buffer, PreDataSize(c))
  /\ Readable(Prefix(c.sc_buffer, PreDataSize(c)), c.sc_version)
  /\ c.sc_version = DESTINATION_VERSION

Flush(c) ==
  LET buffer == Encoded(c.sc_header.type, FlushPreData(c) \o <<Data(c).wire>>)
  IN  Checked(/\ c.sc_data_attribute_dirty
              /\ c.sc_data_attribute # <<>>
              /\ c.sc_header.size # None /\ c.sc_header.crc # NoCrc
              /\ CanFlushPreData(c)
              /\ Data(c).version = DESTINATION_VERSION
              /\ c.sc_header.version = DESTINATION_VERSION,
              [c EXCEPT !.sc_header = HeaderIn(buffer, c.sc_header.version),
                        !.sc_buffer = buffer,
                        !.sc_data_attribute_initial_size = SizeOf(Data(c).wire),
                        !.sc_data_attribute_dirty = FALSE])

-----------------------------------------------------------------------------
\* SendCommand::compress.  The four attributes that an encoded write has more
\* are written where the data was, so they have to fit in its place, and the
\* payload has to shrink by their size: if not, the command is left as it is.
BTRFS_ENCODED_IO_COMPRESSION_ZSTD == 2
ExtraAttributes(c) ==
  <<NewFromU64("UNENCODED_FILE_LEN", Data(c).uncompressed),
    NewFromU64("UNENCODED_LEN", Data(c).uncompressed),
    NewFromU64("UNENCODED_OFFSET", 0),
    NewFromU32("COMPRESSION", BTRFS_ENCODED_IO_COMPRESSION_ZSTD)>>

Shrinks(c, size) ==
  /\ SizeOf(Data(c).wire) >= BytesOf(ExtraAttributes(c))
  /\ Data(c).wire.size >= size + BytesOf(ExtraAttributes(c))

CanCompress(c) ==
  /\ IsCommandCompressible(c.sc_header)
  /\ c.sc_data_attribute # <<>> /\ c.sc_data_attribute_initial_size # None
  /\ c.sc_header.size # None
  /\ IsAttributeCompressible(Data(c)) /\ ~IsAttributeUpgradeable(Data(c))
  /\ IF c.sc_data_attribute_dirty THEN CanFlushPreData(c)
     ELSE CutsBetween(c.sc_buffer, PreDataSize(c))

Compress(c, size) ==
  LET pre_data == IF c.sc_data_attribute_dirty THEN FlushPreData(c)
                  ELSE Prefix(c.sc_buffer, PreDataSize(c))
      data == [Data(c).wire EXCEPT !.size = size, !.zstd = TRUE, !.sized = FALSE]
      buffer == Encoded("ENCODED_WRITE", pre_data \o ExtraAttributes(c) \o <<data>>)
  IN  Verified(buffer.len <= PreDataSize(c) + SizeOf(Data(c).wire),
               [c EXCEPT !.sc_header = HeaderIn(buffer, DESTINATION_VERSION),
                         !.sc_buffer = buffer,
                         !.sc_data_attribute =
                           <<[InMemory(data, DESTINATION_VERSION)
                                EXCEPT !.uncompressed = Data(c).wire.size]>>,
                         !.sc_data_attribute_initial_size = SizeOf(data),
                         !.sc_data_attribute_dirty = FALSE,
                         !.sc_version = DESTINATION_VERSION])

-----------------------------------------------------------------------------
\* SendCommand::append and SendAttribute::append; a command that is appended
\* has one piece.
CanAppend(c, other) ==
  /\ c.sc_data_attribute # <<>> /\ other.sc_data_attribute # <<>>
  /\ c.sc_start_offset # {} /\ other.sc_start_offset # {}
  /\ c.sc_version = other.sc_version
  /\ c.sc_header.type = other.sc_header.type
  /\ c.sc_header.version = other.sc_header.version
  /\ IsAppendable(c)
  /\ c.sc_path = other.sc_path
  /\ StartOffset(c) + Data(c).uncompressed = StartOffset(other)

BytesToAppend(c, other) ==
  LET room == upgrade.maximum_batched_extent_size - Data(c).uncompressed
  IN  CASE room < 0 -> 0
        [] room < Data(other).uncompressed -> room
        [] OTHER -> Data(other).uncompressed

\* The data attribute with another payload; SendAttribute has no support for
\* this if the header holds the size.
Resized(c, pieces, change) ==
  <<[Data(c) EXCEPT !.wire.pieces = pieces, !.wire.size = @ + change,
                    !.uncompressed = @ + change]>>

AppendCommand(c, other) ==
  LET n == BytesToAppend(c, other)
      piece == Data(other).wire.pieces[1]
  IN  Verified(/\ CanAppend(c, other)
               /\ Data(c).uncompressed <= upgrade.maximum_batched_extent_size =>
                    Data(c).version = Data(other).version /\ ~Data(c).wire.sized,
               [c EXCEPT !.sc_data_attribute =
                           IF n = 0 THEN @
                           ELSE Resized(c, @[1].wire.pieces
                                             \o <<[piece EXCEPT !.end = piece.start + n]>>, n),
                         !.sc_uncompressed_size = @ + n,
                         !.sc_data_attribute_dirty = TRUE])

TruncateAtStart(c, n) ==
  LET piece == Data(c).wire.pieces[1]
  IN  Verified(/\ c.sc_data_attribute # <<>> /\ c.sc_data_attribute_initial_size # None
               /\ c.sc_start_offset # {}
               /\ n # 0 => n <= Data(c).uncompressed /\ ~Data(c).wire.sized,
               [c EXCEPT !.sc_data_attribute =
                           Resized(c, <<[piece EXCEPT !.start = piece.start + n]>>, -n),
                         !.sc_uncompressed_size = @ - n,
                         !.sc_data_attribute_dirty = TRUE,
                         !.sc_start_offset = {StartOffset(c) + n}])

\* SendCommand::copy_range: the header of the copy and what comes before the
\* data are written to its buffer; its data is not, so the copy is dirty.
CopyRange(c, start, end) ==
  LET size == c.sc_header.size + (end - start) - Data(c).wire.size
      buffer == [len |-> HEADER_SIZE + size, size |-> size, type |-> c.sc_header.type,
                 crc |-> ZeroCrc, attrs |-> FlushPreData(c)]
      piece == Data(c).wire.pieces[1]
      data == Resized(c, <<[piece EXCEPT !.start = start, !.end = end]>>,
                      (end - start) - Data(c).wire.size)
  IN  Verified(/\ ~c.sc_data_attribute_dirty /\ IsAppendable(c)
               /\ c.sc_data_attribute # <<>>
               /\ c.sc_data_attribute_initial_size = SizeOf(Data(c).wire)
               /\ c.sc_header.size # None /\ c.sc_header.crc # NoCrc
               /\ CanFlushPreData(c)
               /\ c.sc_path # {} /\ c.sc_start_offset # {},
               [c EXCEPT !.sc_header = HeaderIn(buffer, c.sc_header.version),
                         !.sc_buffer = buffer,
                         !.sc_data_attribute = data,
                         !.sc_data_attribute_initial_size = SizeOf(data[1].wire),
                         !.sc_data_attribute_dirty = TRUE,
                         !.sc_start_offset = {StartOffset(c) + start},
                         !.sc_uncompressed_size = buffer.len])

-----------------------------------------------------------------------------
\* Compress a command that is to be written or, if that is turned off or does
\* not shrink it, flush it unless it is clean.
Cleaned(c) == IF c.sc_data_attribute_dirty THEN Flush(c) ELSE <<c>>
FinishedAs(c) ==
  IF ~IsCommandCompressible(c.sc_header) \/ upgrade.compression_level = 0
  THEN {Cleaned(c)}
  ELSE {CASE ~CanCompress(c) -> <<>>
          [] CanCompress(c) /\ Shrinks(c, size) -> Compress(c, size)
          [] OTHER -> Cleaned(c) : size \in ZstdSizes}

\* SendCommand::persist, and the check of write_all that a command is never
\* longer than it is without compression.
CanPersist(c) ==
  /\ upgrade.serde_checks => Verify(c)
  /\ c.sc_version = DESTINATION_VERSION
  /\ ~c.sc_data_attribute_dirty
  /\ c.sc_buffer.len <= c.sc_uncompressed_size

ByteInit ==
  /\ upgrade \in ByteUpgrades
  /\ at = "read"
  /\ next_command = 1
  /\ previous_command_option = <<>>
  /\ previous_batch = <<>>
  /\ current_command = <<>>
  /\ persisted = <<>>
  /\ outcome = "running"

Fails ==
  /\ at' = "done" /\ outcome' = "error"
  /\ UNCHANGED <<upgrade, next_command, previous_command_option, previous_batch,
                 current_command, persisted>>
GoesTo(statement) == at' = statement /\ UNCHANGED <<upgrade, outcome>>
Ends == at' = "done" /\ outcome' = "ok" /\ UNCHANGED upgrade

-----------------------------------------------------------------------------
\* upgrade_commands_single_threaded
ReadCommand ==
  /\ at = "read" /\ upgrade.threads = "one"
  /\ LET c == Constructed(next_command)
     IN  IF c = <<>> THEN Fails
         ELSE /\ GoesTo(IF previous_command_option = <<>> THEN "current" ELSE "append")
              /\ current_command' = c
              /\ next_command' = next_command + 1
              /\ UNCHANGED <<previous_command_option, previous_batch, persisted>>

AppendToPrevious ==
  /\ at = "append"
  /\ LET previous == previous_command_option[1]
         c == current_command[1]
         appended == AppendCommand(previous, c)
         rest == TruncateAtStart(c, BytesToAppend(previous, c))
     IN  IF ~CanAppend(previous, c)
         THEN GoesTo("previous") /\ UNCHANGED <<previous_command_option, current_command>>
         ELSE IF appended = <<>> \/ rest = <<>>
         THEN at' = "done" /\ outcome' = "error"
                /\ UNCHANGED <<upgrade, previous_command_option, current_command>>
         ELSE GoesTo("previous") /\ previous_command_option' = appended
                /\ current_command' = rest
  /\ UNCHANGED <<next_command, previous_batch, persisted>>

IsEmptyCommand(c) == c.sc_data_attribute # <<>> /\ Data(c).uncompressed = 0
IsFullCommand(c) ==
  /\ c.sc_data_attribute # <<>>
  /\ Data(c).uncompressed >= upgrade.maximum_batched_extent_size

PersistPrevious ==
  /\ at = "previous"
  /\ LET previous == previous_command_option[1]
     IN  IF IsFullCommand(previous) \/ ~IsEmptyCommand(current_command[1])
         THEN \E c \in FinishedAs(previous) :
                IF c = <<>> \/ ~CanPersist(c[1]) THEN Fails
                ELSE /\ GoesTo("current")
                     /\ persisted' = persisted \o <<c[1].sc_buffer>>
                     /\ previous_command_option' = <<>>
                     /\ UNCHANGED <<next_command, previous_batch, current_command>>
         ELSE /\ GoesTo("current")
              /\ UNCHANGED <<next_command, previous_command_option, previous_batch,
                             current_command, persisted>>

HandleCurrent ==
  /\ at = "current"
  /\ LET c == current_command[1]
     IN  IF IsAppendable(c)
         THEN /\ GoesTo("read")
              /\ previous_command_option' =
                   IF IsEmptyCommand(c) THEN previous_command_option ELSE current_command
              /\ current_command' = <<>>
              /\ UNCHANGED <<next_command, previous_batch, persisted>>
         ELSE IF ~CanPersist(c) THEN Fails
         ELSE /\ CASE c.sc_header.type = "END" -> Ends
                   [] c.sc_header.type # "END" /\ previous_command_option # <<>> ->
                        at' = "done" /\ outcome' = "error" /\ UNCHANGED upgrade
                   [] OTHER -> GoesTo("read")
              /\ persisted' = persisted \o <<c.sc_buffer>>
              /\ current_command' = <<>>
              /\ UNCHANGED <<next_command, previous_command_option, previous_batch>>

-----------------------------------------------------------------------------
\* With more threads commands are batched first; a worker makes one command of
\* a batch.  What is done to one command is done by one worker at a time, in
\* this order.
BatchCommand ==
  /\ at = "read" /\ upgrade.threads = "many"
  /\ LET current == B!New(next_command)
         appended == B!TryAppend(previous_batch[1], current)
     IN  IF \/ Constructed(next_command) = <<>>
            \/ previous_batch # <<>> /\ ~B!CanAppendChecks(previous_batch[1], current)
         THEN Fails
         ELSE /\ IF previous_batch = <<>>
                 THEN previous_batch' = <<current>> /\ GoesTo("settle")
                 ELSE /\ previous_batch' = appended
                      /\ GoesTo(IF Len(appended) = 1 THEN "read" ELSE "compress")
              /\ next_command' = next_command + 1
              /\ UNCHANGED <<previous_command_option, current_command, persisted>>

\* CommandBatchInfo::remove_first
PieceOf(c, piece) ==
  IF B!IsWhole(piece) THEN c ELSE CopyRange(c[1], piece.start, piece.end)
RemoveFirstOf(piece) == PieceOf(Constructed(piece.id), piece)

\* What has been appended to the first command has to be all of the others.
AppendWhole(built, other) ==
  IF \/ built = <<>> \/ other = <<>>
     \/ BytesToAppend(built[1], other[1]) # Data(other[1]).wire.size
  THEN <<>> ELSE AppendCommand(built[1], other[1])
HasSize(c, size) == IF c = <<>> THEN <<>> ELSE Checked(Data(c[1]).wire.size = size, c[1])
BuildBatch(batch) ==
  LET queue == batch.command_queue
      built[n \in DOMAIN queue] ==
        IF n = 1 THEN RemoveFirstOf(queue[n])
        ELSE AppendWhole(built[n - 1], RemoveFirstOf(queue[n]))
  IN  HasSize(built[Len(queue)], batch.data_payload_size)
FinishedBatchAs(built) == IF built = <<>> THEN {<<>>} ELSE FinishedAs(built[1])

CompressBatch ==
  /\ at = "compress"
  /\ \E c \in FinishedBatchAs(BuildBatch(previous_batch[1])) :
       IF c = <<>> \/ ~CanPersist(c[1]) THEN Fails
       ELSE /\ GoesTo("settle")
            /\ persisted' = persisted \o <<c[1].sc_buffer>>
            /\ previous_batch' = Tail(previous_batch)
            /\ UNCHANGED <<next_command, previous_command_option, current_command>>

SettleCommand ==
  /\ at = "settle"
  /\ LET c == Constructed(previous_batch[1].first_id)[1]
     IN  IF IsAppendable(c)
         THEN GoesTo("read") /\ UNCHANGED <<previous_batch, persisted>>
         ELSE IF ~CanPersist(c)
         THEN at' = "done" /\ outcome' = "error" /\ UNCHANGED <<upgrade, previous_batch, persisted>>
         ELSE /\ IF c.sc_header.type = "END" THEN Ends ELSE GoesTo("read")
              /\ previous_batch' = <<>>
              /\ persisted' = persisted \o <<c.sc_buffer>>
  /\ UNCHANGED <<next_command, previous_command_option, current_command>>

ByteNext ==
  \/ ReadCommand \/ AppendToPrevious \/ PersistPrevious \/ HandleCurrent
  \/ BatchCommand \/ CompressBatch \/ SettleCommand

-----------------------------------------------------------------------------
\* What a receiver does with an encoding: it writes bytes at the offset and
\* those after, or does something else to a path.
Number(type, attrs) == attrs[CHOOSE n \in OfType(type, attrs) : TRUE].number
ReceivedAs(buffer) ==
  LET data == Last(buffer.attrs)
      bytes == B!MeaningOf(data.pieces)
      length == IF data.zstd THEN Number("UNENCODED_LEN", buffer.attrs) ELSE data.size
  IN  IF buffer.type \in {"WRITE", "ENCODED_WRITE"}
      THEN [k \in 1 .. length |->
              [type |-> "WRITE", path |-> PathOf(buffer.attrs), byte |-> bytes[k],
               offset |-> Number("FILE_OFFSET", buffer.attrs) + k - 1]]
      ELSE <<[type |-> buffer.type, path |-> PathOf(buffer.attrs), byte |-> <<0, 0>>,
              offset |-> 0]>>
Received(buffers) == FlattenSeq([n \in DOMAIN buffers |-> ReceivedAs(buffers[n])])

\* What was written can be received: sizes and CRC (SendCommand::flush and
\* compress compute them again) are right, and the bytes arrive where those of
\* the source do, in the same order, whatever commands were put together, cut
\* or compressed.  Only a command that is copied as it is may have a wrong CRC,
\* the one it had.
WrittenDecodes ==
  /\ \A n \in DOMAIN persisted :
       LET w == persisted[n]
       IN  /\ w.len = HEADER_SIZE + w.size /\ w.size = BytesOf(w.attrs)
           /\ Readable(w.attrs, DESTINATION_VERSION)
           /\ \/ w.crc = ComputeCrc32c(w)
              \/ \E i \in upgrade.damaged : w = SourceCommand(i)
  /\ LET source == Received([i \in DOMAIN upgrade.stream |-> SourceCommand(i)])
     IN  IF outcome = "ok" THEN Received(persisted) = source
         ELSE IsPrefix(Received(persisted), source)

\* No check of SendCommand, SendAttribute and their headers fails, those of
\* serde_checks and the one of write_all included, unless the CRC of a command
\* of the source is wrong.
CommandChecksPass == outcome = "error" => upgrade.damaged # {}

\* The commands that SendCommand::persist writes can be received, and no check
\* stops the upgrade of a sound stream on the way to them.
CommandsDecode == WrittenDecodes /\ CommandChecksPass
=============================================================================
