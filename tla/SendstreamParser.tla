-------------------------- MODULE SendstreamParser --------------------------
(***************************************************************************)
(* The commands the userspace packager writes, as they are on the wire,    *)
(* and sendstream_parser's wire::parse, which reads them from an           *)
(* asynchronous source in pieces of any size.  A unit is the smallest      *)
(* piece the parser tells apart: half a stream header, the header of a     *)
(* command, or its attributes.                                             *)
(***************************************************************************)
EXTENDS Naturals, Sequences, FiniteSets, SequencesExt, TLC

CONSTANT Inputs \* the sources: sequences of units

VARIABLES source,    \* what the reader will deliver in all
          delivered, \* how many units it has delivered
          unparsed,  \* the buffer
          inStream,  \* header.is_some()
          commands,  \* command_count
          pc,        \* "read", "parse" or the result
          gotBytes   \* bytes_read # 0 in this round of the loop
parserVars == <<source, delivered, unparsed, inStream, commands, pc, gotBytes>>

\* userspace/tlv.rs, Tlv::ty.
Tlv == [Uuid |-> 1, Ctransid |-> 2, Ino |-> 3, Size |-> 4, Mode |-> 5, Uid |-> 6, Gid |-> 7, Rdev |-> 8, Ctime |-> 9,
        Mtime |-> 10, Atime |-> 11, XattrName |-> 13, XattrData |-> 14, Path |-> 15, PathTo |-> 16, PathLink |-> 17,
        FileOffset |-> 18, Data |-> 19, CloneUuid |-> 20, CloneCtransid |-> 21]
\* userspace/command.rs: the number of each command and its attributes in order.
Wire(number, names) == [ty |-> number, attrs |-> [i \in DOMAIN names |-> Tlv[names[i]]]]
CreatingCommands ==
    {Wire(1, <<"Path", "Uuid", "Ctransid">>), Wire(2, <<"Path", "Uuid", "Ctransid", "CloneUuid", "CloneCtransid">>),
     Wire(19, <<"Path", "Uid", "Gid">>), Wire(18, <<"Path", "Mode">>), Wire(3, <<"Path", "Ino">>), Wire(4, <<"Path", "Ino">>),
     Wire(8, <<"Path", "Ino", "PathLink">>), Wire(15, <<"Path", "FileOffset", "Data">>), Wire(10, <<"Path", "PathLink">>)}
ChangingCommands ==
    {Wire(11, <<"Path">>), Wire(12, <<"Path">>), Wire(13, <<"Path", "XattrName", "XattrData">>),
     Wire(20, <<"Path", "Atime", "Mtime", "Ctime">>), Wire(14, <<"Path", "XattrName">>), Wire(17, <<"Path", "Size">>),
     Wire(9, <<"Path", "PathTo">>)}
UserspaceCommands == CreatingCommands \cup ChangingCommands
EndCommand == Wire(21, << >>)
\* Written by code that is never reached: the branch is only for regular files.
UnusedCommands == {Wire(5, <<"Path", "Mode", "Rdev">>), Wire(6, <<"Path", "Ino">>), Wire(7, <<"Path", "Ino">>)}
\* CommandBuilder::finish: a header with the length, then the attributes.
OnWire(c) == <<[u |-> "command", ty |-> c.ty, attrs |-> << >>], [u |-> "attrs", ty |-> 0, attrs |-> c.attrs]>>
HeaderUnits == <<[u |-> "magic", ty |-> 0, attrs |-> << >>], [u |-> "version", ty |-> 0, attrs |-> << >>]>>
StreamOf(cs) == HeaderUnits \o FlattenSeq([i \in DOMAIN cs |-> OnWire(cs[i])]) \o OnWire(EndCommand)

\* wire/cmd.rs and wire/tlv.rs: command and attribute numbers are places in these lists.
CommandTypes ==
    <<"Subvol", "Snapshot", "Mkfile", "Mkdir", "Mknod", "Mkfifo", "Mksock", "Symlink", "Rename", "Link", "Unlink", "Rmdir",
      "SetXattr", "RemoveXattr", "Write", "Clone", "Truncate", "Chmod", "Chown", "Utimes", "End", "UpdateExtent">>
Attr ==
    <<"Uuid", "Ctransid", "Ino", "Size", "Mode", "Uid", "Gid", "Rdev", "Ctime", "Mtime", "Atime", "Otime", "XattrName", "XattrData",
      "Path", "PathTo", "Link", "FileOffset", "Data", "CloneUuid", "CloneCtransid", "ClonePath", "CloneOffset", "CloneLen">>

\* Faulty variant of UtimesParses: the times are taken in another order.
UtimesSwapped == <<"Path", "Ctime", "Mtime", "Atime">>

\* The attributes each command's parse takes, in order.
UtimesParses == <<"Path", "Atime", "Mtime", "Ctime">>
Mkspecial == <<"Path", "Ino", "Rdev", "Mode">>
ParsesCreation ==
    [Subvol |-> <<"Path", "Uuid", "Ctransid">>, Chmod |-> <<"Path", "Mode">>, Chown |-> <<"Path", "Uid", "Gid">>,
     Clone |-> <<"FileOffset", "CloneLen", "Path", "CloneUuid", "CloneCtransid", "ClonePath", "CloneOffset">>,
     Link |-> <<"Path", "Link">>, Symlink |-> <<"Path", "Ino", "Link">>, Mkdir |-> <<"Path", "Ino">>, Mkfile |-> <<"Path", "Ino">>,
     Mknod |-> Mkspecial, Mkfifo |-> Mkspecial, Mksock |-> Mkspecial]
ParsesChange ==
    [RemoveXattr |-> <<"Path", "XattrName">>, Rename |-> <<"Path", "PathTo">>, Rmdir |-> <<"Path">>,
     SetXattr |-> <<"Path", "XattrName", "XattrData">>, Truncate |-> <<"Path", "Size">>,
     Snapshot |-> <<"Path", "Uuid", "Ctransid", "CloneUuid", "CloneCtransid">>, Unlink |-> <<"Path">>,
     UpdateExtent |-> <<"Path", "FileOffset", "Size">>, Utimes |-> UtimesParses, Write |-> <<"Path", "FileOffset", "Data">>, End |-> << >>]
Parses == ParsesCreation @@ ParsesChange
ParsesAttrs(ty, attrs) ==
    ty \in DOMAIN CommandTypes /\ attrs = [i \in DOMAIN Parses[CommandTypes[ty]] |-> CHOOSE k \in DOMAIN Attr : Attr[k] = Parses[CommandTypes[ty]][i]]

ParserInit(inputs) ==
    /\ source \in inputs
    /\ delivered = 0 /\ unparsed = << >> /\ inStream = FALSE /\ commands = 0
    /\ pc = "read" /\ gotBytes = FALSE

\* reader.read_buf: any number of units of what is left, none at the end.
ReadBuf ==
    /\ pc = "read"
    /\ \E n \in 0 .. Len(source) - delivered :
           /\ n = 0 <=> delivered = Len(source)
           /\ delivered' = delivered + n
           /\ unparsed' = unparsed \o SubSeq(source, delivered + 1, delivered + n)
           /\ gotBytes' = (n > 0)
           /\ pc' = IF n = 0 /\ unparsed = << >> THEN (IF inStream THEN "incomplete" ELSE "ok") ELSE "parse"
    /\ UNCHANGED <<source, inStream, commands>>
\* Command::parse on the buffer, while there is a header; the caller may have had enough.
AtTheEnd(got) == IF got THEN "read" ELSE "trailing"
ParseCommand ==
    /\ pc = "parse" /\ inStream
    /\ IF Len(unparsed) < 2
       THEN pc' = AtTheEnd(gotBytes) /\ UNCHANGED <<unparsed, inStream, commands>>
       ELSE IF unparsed[1].u # "command" \/ unparsed[2].u # "attrs" \/ ~ParsesAttrs(unparsed[1].ty, unparsed[2].attrs)
       THEN pc' = "panic" /\ UNCHANGED <<unparsed, inStream, commands>>
       ELSE /\ commands' = commands + 1
            /\ unparsed' = SubSeq(unparsed, 3, Len(unparsed))
            /\ \/ pc' = "enough" /\ UNCHANGED inStream
               \/ /\ inStream' = (CommandTypes[unparsed[1].ty] # "End")
                  /\ pc' = IF inStream' THEN "parse" ELSE "read"
    /\ UNCHANGED <<source, delivered, gotBytes>>
\* parse_header; whether it succeeds or needs more, the loop goes on to read.
ParseHeader ==
    /\ pc = "parse" /\ ~inStream
    /\ IF unparsed[1].u # "magic" \/ (Len(unparsed) > 1 /\ unparsed[2].u # "version")
       THEN pc' = "unparsable" /\ UNCHANGED <<unparsed, inStream>>
       ELSE /\ pc' = "read"
            /\ IF Len(unparsed) = 1 THEN UNCHANGED <<unparsed, inStream>>
               ELSE unparsed' = SubSeq(unparsed, 3, Len(unparsed)) /\ inStream' = TRUE
    /\ UNCHANGED <<source, delivered, commands, gotBytes>>

ParserNext == ReadBuf \/ ParseCommand \/ ParseHeader
Returned == pc \notin {"read", "parse"}

-----------------------------------------------------------------------------
CutInHeader(s) == s # << >> /\ Last(s).u = "magic"
Whole(s) == s = << >> \/ (Last(s).u = "attrs" /\ Len(s) > 1 /\ s[Len(s) - 1].ty = 21)
CommandsIn(s) == Cardinality({i \in DOMAIN s : s[i].u = "command"})

(* Whatever pieces the source comes in, parse returns the same: every command of a whole
   input, an error for one that is cut, and it never panics on what the packager wrote.
   wire::parse, Command::parse and userspace/command.rs. *)
ParsesWhateverThePieces ==
    /\ pc = "ok" => Whole(source) /\ commands = CommandsIn(source)
    /\ pc \in {"incomplete", "trailing"} => ~Whole(source)
    /\ pc \notin {"panic", "unparsable"}
=============================================================================
