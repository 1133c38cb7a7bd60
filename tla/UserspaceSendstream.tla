------------------------- MODULE UserspaceSendstream -------------------------
(***************************************************************************)
(* The sendstream that antlir2_packager writes in userspace: the commands  *)
(* for one entry of the layer, in full or against an incremental parent,   *)
(* and the removals.  A receiver applies them with FileTree!Apply.         *)
(***************************************************************************)
EXTENDS FileTree

Tmp == <<"tmp">>
SendHardlink(first, path) == <<[op |-> "link", target |-> first, path |-> Tmp], [op |-> "rename", path |-> Tmp, to |-> path]>>
SendChown(path, n) == <<[op |-> "chown", path |-> path, owner |-> n.owner]>>
SendChmod(path, n) == IF n.type = "symlink" THEN << >> ELSE <<[op |-> "chmod", path |-> path, mode |-> n.mode]>>
SendSetXattrs(path, names, xattrs) ==
    LET s == SetToSeq(names) IN [i \in DOMAIN s |-> [op |-> "setxattr", path |-> path, name |-> s[i], value |-> xattrs[s[i]]]]
SendRmXattrs(path, names) == LET s == SetToSeq(names) IN [i \in DOMAIN s |-> [op |-> "rmxattr", path |-> path, name |-> s[i]]]
SendContents(path, n) == <<[op |-> "contents", path |-> path, data |-> n.data]>>

\* A hard link to an inode sent before; against a parent it is left out when the parent
\* has the same inode under that name.
LinkKept(parent, child, path) == Has(parent, path) /\ parent.names[path] = child.names[path]
LinkCommands(incremental, parent, child, path, first) ==
    IF incremental /\ LinkKept(parent, child, path) THEN << >> ELSE SendHardlink(first, path)

\* The owner comes first: changing it drops the set-user-ID bit and capabilities.
SendMetadata(path, n) == SendChown(path, n) \o SendChmod(path, n) \o SendSetXattrs(path, DOMAIN n.xattrs, n.xattrs)
\* An entry the parent does not have.
SendNew(path, n) ==
    (IF path = Top THEN << >>
     ELSE CASE n.type = "dir" -> <<[op |-> "mkdir", path |-> path, mode |-> "plain"]>>
            [] n.type = "symlink" -> <<[op |-> "symlink", path |-> Tmp, data |-> n.data], [op |-> "rename", path |-> Tmp, to |-> path]>>
            [] n.type = "file" -> <<[op |-> "create", path |-> path, mode |-> "plain"]>> \o SendContents(path, n))
    \o SendMetadata(path, n) \o <<[op |-> "settimes", path |-> path, time |-> n.mtime]>>

\* Faulty variant of SendOwnerAndMode: the owner is sent after the mode.
SendOwnerAfterMode(path, o, n) ==
    (IF o.mode # n.mode \/ o.type # n.type THEN SendChmod(path, n) ELSE << >>)
    \o (IF o.owner # n.owner THEN SendChown(path, n) ELSE << >>)

\* The mode of the metadata includes the type.
SendOwnerAndMode(path, o, n) ==
    (IF o.owner # n.owner THEN SendChown(path, n) ELSE << >>)
    \o (IF o.mode # n.mode \/ o.type # n.type THEN SendChmod(path, n) ELSE << >>)
\* A directory that the parent has at that path: only metadata, and of the xattrs only
\* those the parent has too.
SendDirectory(path, o, n) ==
    SendOwnerAndMode(path, o, n)
    \o SendSetXattrs(path, {x \in DOMAIN n.xattrs \cap DOMAIN o.xattrs : n.xattrs[x] # o.xattrs[x]}, n.xattrs)
    \o SendRmXattrs(path, DOMAIN o.xattrs \ DOMAIN n.xattrs)
\* Whether a file's contents are sent: when the length is another (a directory has the
\* length of its names, twice) or the contents are, which File::open reads through a symlink.
LengthOf(tree, path) ==
    IF IsDirAt(tree, path) THEN 2 * Cardinality(Below(tree, path)) ELSE Len(Stat(tree, path).data)
SameLength(parent, child, path) == LengthOf(parent, path) = LengthOf(child, path)
ContentsChanged(parent, child, path) ==
    ~SameLength(parent, child, path) \/ Stat(parent, Through(parent, path)).data # Stat(child, path).data
\* What is no directory but is in the parent at that path.
SendChanged(parent, child, path) ==
    LET o == Stat(parent, path)
        n == Stat(child, path)
    IN  (IF n.type = "file" /\ ContentsChanged(parent, child, path) THEN SendContents(path, n) ELSE << >>)
        \o (IF n.type = "symlink" /\ o.data # n.data
            THEN <<[op |-> "unlink", path |-> path], [op |-> "symlink", path |-> path, data |-> n.data]>> \o SendChown(path, n) ELSE << >>)
        \o SendOwnerAndMode(path, o, n)
        \o SendSetXattrs(path, {x \in DOMAIN n.xattrs : x \notin DOMAIN o.xattrs \/ n.xattrs[x] # o.xattrs[x]}, n.xattrs)
        \o SendRmXattrs(path, DOMAIN o.xattrs \ DOMAIN n.xattrs)

\* symlink_metadata of the path in the parent fails with ENOTDIR: something on the way is
\* no directory, nor a symlink that leads nowhere.
CannotLookUp(parent, path) ==
    \E k \in 1 .. Len(path) - 1 :
        LET q == Through(parent, SubSeq(path, 1, k)) IN Has(parent, q) /\ Stat(parent, q).type # "dir"
\* The packager stops when what it has to compare a file of the same length with cannot
\* be read, when it cannot read the link target of what was no symlink, and at a device
\* or fifo that is new.
CannotCompare(parent, child, path) ==
    LET n == Stat(child, path)
        q == Through(parent, path)
    IN  \/ n.type = "file" /\ SameLength(parent, child, path) /\ ~(Has(parent, q) /\ Stat(parent, q).type = "file")
        \/ n.type = "symlink" /\ Stat(parent, path).type # "symlink"
CannotMake(child, path) == Stat(child, path).type \notin {"dir", "symlink", "file"}
CannotSend(incremental, parent, child, path) ==
    IF incremental /\ Has(parent, path) THEN CannotCompare(parent, child, path) ELSE CannotMake(child, path)
EntryCommands(incremental, parent, child, path) ==
    LET n == Stat(child, path)
    IN  IF ~incremental \/ ~Has(parent, path) THEN SendNew(path, n)
        ELSE IF n.type = "dir" THEN SendDirectory(path, Stat(parent, path), n)
        ELSE SendChanged(parent, child, path)
RemovalCommand(parent, path) == [op |-> IF IsDirAt(parent, path) THEN "rmdir" ELSE "unlink", path |-> path]
=============================================================================
