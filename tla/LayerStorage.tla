---------------------------- MODULE LayerStorage ----------------------------
(***************************************************************************)
(* Two ways a layer is stored as plain files: CasDir (antlir2_cas_dir) and *)
(* the manifest and data directory of an overlayfs layer                   *)
(* (antlir2_overlayfs), and the order in which overlayfs stacks layers.    *)
(***************************************************************************)
EXTENDS FileTree

\* CasDir::dehydrate: what is kept of an entry, and the copy's data.
PathEntry(tree, path) ==
    LET n == Stat(tree, path) IN [ino |-> tree.names[path], owner |-> n.owner, mode |-> n.mode, type |-> n.type]
CannotDehydrate(tree, path) == Stat(tree, path).type \notin {"dir", "symlink", "file"}
AlreadyHydrated(entry, firsts) == entry.ino \in DOMAIN firsts
\* CasDir::hydrate_into, one entry: a hard link to the first path of the inode, else a new
\* entry, its mode and then its owner.
HydrateCommands(entry, data, path, firsts) ==
    IF AlreadyHydrated(entry, firsts) THEN <<[op |-> "link", target |-> firsts[entry.ino], path |-> path]>>
    ELSE (CASE entry.type = "dir" -> <<[op |-> "mkdir", path |-> path, mode |-> "plain"], [op |-> "chmod", path |-> path, mode |-> entry.mode]>>
            [] entry.type = "symlink" -> <<[op |-> "symlink", path |-> path, data |-> data]>>
            [] entry.type = "file" -> <<[op |-> "create", path |-> path, mode |-> "plain"], [op |-> "contents", path |-> path, data |-> data],
                                        [op |-> "chmod", path |-> path, mode |-> entry.mode]>>)
         \o <<[op |-> "chown", path |-> path, owner |-> entry.owner]>>

-----------------------------------------------------------------------------
\* Manifest::from_directory, one entry: the xattrs of whiteouts and fifos are not read, and
\* those of a symlink cannot be, as it is not opened.
DirEntry(tree, path) ==
    LET n == Stat(tree, path)
    IN  [n EXCEPT !.xattrs = IF n.type \in {"whiteout", "fifo", "symlink"} THEN NoXattrs ELSE @,
                  !.data = IF n.type = "file" THEN "" ELSE @, !.mtime = "now"]
\* data_dir::unmangle makes the parents as needed and the file.
MakeParents(tree, path) ==
    FoldLeft(LAMBDA t, k : IF Has(t, SubSeq(path, 1, k)) THEN t ELSE Make(t, SubSeq(path, 1, k), EmptyDir),
             tree, [k \in 1 .. Len(path) - 1 |-> k])
Unmangle(tree, path, data) ==
    LET t == MakeParents(tree, path)
    IN  Make(t, path, Node("file", "plain", "root", NoXattrs, data))
\* Manifest::fix_directory, one entry: owner, xattrs and then mode.
XattrCommands(path, entry) ==
    LET names == SetToSeq(DOMAIN entry.xattrs)
    IN  [i \in DOMAIN names |-> [op |-> "setxattr", path |-> path, name |-> names[i], value |-> entry.xattrs[names[i]]]]

\* Faulty variant of FixMetadata: the mode is set before the owner.
FixModeFirst(path, entry) ==
    <<[op |-> "chmod", path |-> path, mode |-> entry.mode], [op |-> "chown", path |-> path, owner |-> entry.owner]>>
    \o XattrCommands(path, entry)

FixMetadata(path, entry) ==
    <<[op |-> "chown", path |-> path, owner |-> entry.owner]>> \o XattrCommands(path, entry)
    \o <<[op |-> "chmod", path |-> path, mode |-> entry.mode]>>
\* What mknod and mkfifo make of a mode, under the usual umask.
Umasked(mode) == IF mode = "open" THEN "plain" ELSE mode
MadeMode(entry) == CASE entry.type = "whiteout" -> "zero" [] entry.type = "symlink" -> "plain" [] OTHER -> Umasked(entry.mode)
FixEntry(tree, path, entry) ==
    IF entry.type \in {"dir", "file"}
    THEN ApplyAll(IF entry.type = "dir" /\ ~Has(tree, path) THEN Make(tree, path, EmptyDir) ELSE tree, FixMetadata(path, entry))
    ELSE Make(tree, path, Node(entry.type, MadeMode(entry), "root", NoXattrs, entry.data))

-----------------------------------------------------------------------------
\* What overlayfs shows: at each path the topmost layer that has it, unless a whiteout or
\* something that is no directory is on top of it or of a directory above it.
Shows(layers, path) ==
    LET has == {i \in DOMAIN layers : Has(layers[i], path)} IN IF has = {} THEN 0 ELSE Min(has)
Covered(layers, path, i) ==
    \E k \in 0 .. Len(path) - 1 : \E j \in 1 .. i - 1 :
        Has(layers[j], SubSeq(path, 1, k)) /\ Stat(layers[j], SubSeq(path, 1, k)).type # "dir"
Visible(layers) ==
    {p \in UNION {Paths(layers[i]) : i \in DOMAIN layers} :
        LET i == Shows(layers, p) IN Stat(layers[i], p).type # "whiteout" /\ ~Covered(layers, p, i)}
View(layers) == [p \in Visible(layers) |-> Stat(layers[Shows(layers, p)], p)]
\* The first lowerdir of the mount options is the topmost one.
Lowerdirs(layers) == layers
Mounted(layers, upper) == View(<<upper>> \o Lowerdirs(layers))
Stacked(layers, upper) == View(<<upper>> \o Reverse(layers))
=============================================================================
