--------------------------- MODULE MCUpgradeParts ---------------------------
(***************************************************************************)
(* Small streams.  For the cache headers are one byte long, the cache      *)
(* starts in the middle of a buffer, and the last request is the header of *)
(* the end command.  The commands that are padded have a few sizes, so     *)
(* that a write meets the destination at every offset from a block, the    *)
(* boundaries of the pad's size included.                                  *)
(***************************************************************************)
EXTENDS UpgradeParts

Read(h, f, e) == [header |-> h, first |-> f, end |-> e]

\* Payloads of one, one and four bytes: two readers are in one buffer.
ThreeCommands == <<Read(TRUE, 1, 2), Read(FALSE, 2, 3), Read(TRUE, 3, 4),
                   Read(FALSE, 4, 5), Read(TRUE, 5, 6), Read(FALSE, 6, 10),
                   Read(TRUE, 10, 11)>>

\* Streams in which writes are put together and cut (a batch holds 64 bytes),
\* leave gaps, are empty, or are too small for the attributes of an encoded
\* write; a command of 50 or 64 bytes shrinks enough only to 6 or 20.
WriteCommand(path, offset, size) ==
  [type |-> "WRITE", path |-> path, offset |-> offset, size |-> size]
OtherCommand(path) == [type |-> "OTHER", path |-> path, offset |-> 0, size |-> 0]
EndCommand == [type |-> "END", path |-> "", offset |-> 0, size |-> 0]
ByteStreams ==
  { <<WriteCommand("a", 0, 50), WriteCommand("a", 50, 30), WriteCommand("a", 80, 60),
      OtherCommand("a"), EndCommand>>,
    <<WriteCommand("a", 0, 64), WriteCommand("a", 64, 10), WriteCommand("b", 74, 50),
      WriteCommand("b", 130, 50), EndCommand>>,
    <<OtherCommand("b"), WriteCommand("a", 0, 30), WriteCommand("a", 30, 0),
      WriteCommand("a", 30, 64), EndCommand>> }
SmallByteUpgrades ==
  [stream : ByteStreams, version : {1, 2}, damaged : {{}, {1}}, threads : {"one", "many"},
   maximum_batched_extent_size : {64}, compression_level : {0, 3},
   avoid_crcing_input : BOOLEAN, serde_checks : BOOLEAN]

Other(size) ==
  [paddable |-> FALSE, start_offset |-> 0, pre |-> size, header |-> 0, data |-> 0]
Write(start_offset, data) ==
  [paddable |-> TRUE, start_offset |-> start_offset, pre |-> 31, header |-> 2, data |-> data]

SmallCommands ==
  { Other(10), Other(37), Write(0, 4096), Write(4096, 0), Write(1, 4096), Write(0, 95) }
=============================================================================
