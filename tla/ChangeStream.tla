---------------------------- MODULE ChangeStream ----------------------------
(***************************************************************************)
(* antlir2_change_stream: the difference of two trees as a stream of       *)
(* operations, produced by a stack machine, and make_oci_layer, which      *)
(* turns the stream into the entries of a layer tar.                       *)
(***************************************************************************)
EXTENDS FileTree

\* Instructions of the stack machine.
Change(c) == <<[do |-> "change", change |-> c]>>
CompareTree(path) == [do |-> "compare_tree", path |-> path]
RemoveTree(path) == [do |-> "remove_tree", path |-> path]
AddTree(path) == [do |-> "add_tree", path |-> path]
CompareFile(path) == [do |-> "compare_file", path |-> path]
NewFile(path) == [do |-> "new_file", path |-> path]
Changes(cs) == FlattenSeq([i \in DOMAIN cs |-> Change(cs[i])])

ChownOp(path, node) == [op |-> "chown", path |-> path, owner |-> node.owner]
ChmodOp(path, node) == [op |-> "chmod", path |-> path, mode |-> node.mode]
SetTimesOp(path, node) == [op |-> "settimes", path |-> path, time |-> node.mtime]
UnlinkOp(path) == [op |-> "unlink", path |-> path]
SymlinkOp(path, node) == [op |-> "symlink", path |-> path, data |-> node.data]
\* The contents are the opened file.  Contents::differs reads both files when their lengths
\* are equal, and leaves the one that is handed on where the comparison stopped.
ContentsOp(path, node, cursor) == [op |-> "contents", path |-> path, data |-> node.data, cursor |-> cursor]
AfterDiffers(o, n) == IF Len(o.data) = Len(n.data) THEN "moved" ELSE "start"
MaybeChown(path, o, n) == IF o.owner # n.owner THEN <<ChownOp(path, n)>> ELSE << >>
MaybeChmod(path, o, n) == IF o.mode # n.mode THEN <<ChmodOp(path, n)>> ELSE << >>
MaybeSetTimes(path, o, n) == IF o.mtime # n.mtime THEN <<SetTimesOp(path, n)>> ELSE << >>
RemoveXattrOps(path, o, n) ==
    LET names == SetToSeq(DOMAIN o \ DOMAIN n)
    IN  [i \in DOMAIN names |-> [op |-> "rmxattr", path |-> path, name |-> names[i]]]
SetXattrOps(path, o, n) ==
    LET names == SetToSeq({x \in DOMAIN n : x \notin DOMAIN o \/ o[x] # n[x]})
    IN  [i \in DOMAIN names |-> [op |-> "setxattr", path |-> path, name |-> names[i], value |-> n[names[i]]]]
XattrOps(path, o, n) == RemoveXattrOps(path, o, n) \o SetXattrOps(path, o, n)

\* Each instruction pushes others; the last one pushed is done first.  The listings are
\* the entries of the old and of the new directory in the order readdir gives them.
CompareTreeStep(old, new, path, oldListing, newListing) ==
    LET o == Stat(old, path)
        n == Stat(new, path)
        Gone(p) == IF IsDirAt(old, p) THEN <<RemoveTree(p)>> ELSE Change(UnlinkOp(p))
        Add(p) == IF IsDirAt(new, p) THEN <<AddTree(p)>> ELSE <<NewFile(p)>>
        ForOld(p) == IF Has(new, p) THEN << >> ELSE Gone(p)
        ForNew(p) == IF ~Has(old, p) THEN Add(p)
                     ELSE IF Stat(old, p).type # Stat(new, p).type THEN Add(p) \o Gone(p)
                     ELSE IF IsDirAt(new, p) THEN <<CompareTree(p)>> ELSE <<CompareFile(p)>>
    IN  Changes(MaybeChown(path, o, n)) \o Changes(MaybeChmod(path, o, n)) \o Changes(MaybeSetTimes(path, o, n))
        \o Changes(XattrOps(path, o.xattrs, n.xattrs))
        \o FlattenSeq([i \in DOMAIN oldListing |-> ForOld(oldListing[i])])
        \o FlattenSeq([i \in DOMAIN newListing |-> ForNew(newListing[i])])
RemoveTreeStep(old, path, listing) ==
    Change([op |-> "rmdir", path |-> path])
    \o FlattenSeq([i \in DOMAIN listing |-> IF IsDirAt(old, listing[i]) THEN <<RemoveTree(listing[i])>> ELSE Change(UnlinkOp(listing[i]))])
AddTreeStep(new, path, listing) ==
    Change(SetTimesOp(path, Stat(new, path))) \o Change(ChownOp(path, Stat(new, path)))
    \o [i \in DOMAIN listing |-> IF IsDirAt(new, listing[i]) THEN AddTree(listing[i]) ELSE NewFile(listing[i])]
    \o Change([op |-> "mkdir", path |-> path, mode |-> Stat(new, path).mode])

\* The order of the operations on an existing and on a new file.
CompareFileOps(path, o, n) ==
    (IF n.type = "file" /\ o.data # n.data THEN <<ContentsOp(path, n, AfterDiffers(o, n))>> ELSE << >>)
    \o (IF n.type = "symlink" /\ o.data # n.data THEN <<UnlinkOp(path), SymlinkOp(path, n)>> ELSE << >>)
    \o XattrOps(path, o.xattrs, n.xattrs)
    \o MaybeChmod(path, o, n) \o MaybeChown(path, o, n) \o MaybeSetTimes(path, o, n)
AddFileOps(path, n) ==
    (IF n.type = "file" THEN <<[op |-> "create", path |-> path, mode |-> n.mode], ContentsOp(path, n, "start")>> ELSE <<SymlinkOp(path, n)>>)
    \o XattrOps(path, NoXattrs, n.xattrs)
    \o <<ChownOp(path, n), SetTimesOp(path, n)>>

\* file::add refuses anything but files and symlinks.
Unsupported(new, instr) == instr.do = "new_file" /\ Stat(new, instr.path).type \notin {"file", "symlink"}
Expand(old, new, instr, oldListing, newListing) ==
    LET p == instr.path
    IN  CASE instr.do = "compare_tree" -> CompareTreeStep(old, new, p, oldListing, newListing)
          [] instr.do = "remove_tree" -> RemoveTreeStep(old, p, oldListing)
          [] instr.do = "add_tree" -> AddTreeStep(new, p, newListing)
          [] instr.do = "compare_file" -> Reverse(Changes(CompareFileOps(p, Stat(old, p), Stat(new, p))))
          [] instr.do = "new_file" -> Reverse(Changes(AddFileOps(p, Stat(new, p))))

-----------------------------------------------------------------------------
\* make_oci_layer: one tar entry for each path with a change, and whiteouts.
NoEntry == [type |-> "unset", mode |-> "zero", owner |-> "root", contents |-> "unset", cursor |-> "start", data |-> "", xattrs |-> NoXattrs]
EmptyLayer == [entries |-> << >>, whiteouts |-> {}]
EntryOf(layer, path) == IF path \in DOMAIN layer.entries THEN layer.entries[path] ELSE NoEntry
Collect(layer, c) ==
    LET e == EntryOf(layer, c.path)
        With(entry) == [layer EXCEPT !.entries = (c.path :> entry) @@ @]
    IN  CASE c.op = "create" -> With([e EXCEPT !.mode = c.mode, !.type = "file"])
          [] c.op = "mkdir" -> With([e EXCEPT !.mode = c.mode, !.type = "dir"])
          [] c.op = "chmod" -> With([e EXCEPT !.mode = c.mode])
          [] c.op = "chown" -> With([e EXCEPT !.owner = c.owner])
          [] c.op = "settimes" -> layer
          [] c.op = "symlink" -> With([e EXCEPT !.type = "symlink", !.contents = "link", !.data = c.data])
          [] c.op = "contents" -> With([e EXCEPT !.contents = "file", !.cursor = c.cursor])
          [] c.op = "rmxattr" -> With(e)
          [] c.op = "setxattr" -> With([e EXCEPT !.xattrs = (c.name :> c.value) @@ @])
          [] c.op \in {"unlink", "rmdir"} -> [layer EXCEPT !.whiteouts = @ \cup {c.path}]

\* Faulty variant of Written: files get what the header was given, too.
WrittenFromHeader(new, path, e, rewinds) ==
    LET n == Stat(new, path)
    IN  [type |-> n.type, mode |-> IF n.type = "symlink" THEN "plain" ELSE e.mode, owner |-> e.owner,
         xattrs |-> e.xattrs, data |-> n.data, mtime |-> "now"]

\* What is written for an entry: a file with the metadata it has in the child, anything
\* else with what the header was given.  append_file, of the tar crate, may copy a file it
\* is given from its start or from where it stands.
Written(new, path, e, rewinds) ==
    LET n == Stat(new, path)
        data == IF e.cursor = "moved" /\ ~rewinds THEN "cut" ELSE n.data
    IN  IF e.contents = "file" \/ (e.contents = "unset" /\ n.type = "file")
        THEN [Node("file", n.mode, n.owner, e.xattrs, data) EXCEPT !.mtime = "now"]
        ELSE [type |-> n.type, mode |-> IF n.type = "symlink" THEN "plain" ELSE e.mode, owner |-> e.owner,
              xattrs |-> e.xattrs, data |-> n.data, mtime |-> "now"]
OciEntries(new, layer, rewinds) == [p \in DOMAIN layer.entries \ {Top} |-> Written(new, p, layer.entries[p], rewinds)]
\* Extracting a layer over the one below it, as the OCI image specification says.
Hidden(layer, p) == \E w \in layer.whiteouts : IsPrefix(w, p)
Extract(old, new, layer, rewinds) ==
    LET tar == OciEntries(new, layer, rewinds)
        kept == {p \in Paths(old) : ~Hidden(layer, p) /\ (p \notin DOMAIN tar)}
        ps == SetToSeq(kept \cup DOMAIN tar)
        ino == [p \in kept \cup DOMAIN tar |-> CHOOSE i \in DOMAIN ps : ps[i] = p]
    IN  [ok |-> TRUE, names |-> ino, nodes |-> [i \in DOMAIN ps |-> IF ps[i] \in kept THEN Stat(old, ps[i]) ELSE tar[ps[i]]]]
=============================================================================
