------------------------------ MODULE FileTree ------------------------------
(***************************************************************************)
(* A directory tree with hard links, and what the system calls that write  *)
(* one do to it.  tree.names gives the inode of each path, tree.nodes the  *)
(* inodes; tree.ok is FALSE once a call has failed.  A path is a sequence  *)
(* of names, and a symlink's target the name of an entry beside it.  The   *)
(* mode "set" has the set-user-ID bit, "open" is writable for all, "zero"  *)
(* has no bit set; the xattr "cap" is security.capability.                 *)
(***************************************************************************)
EXTENDS Naturals, Sequences, FiniteSets, SequencesExt, FiniteSetsExt, Functions, TLC

Top == << >>
Node(type, mode, owner, xattrs, data) ==
    [type |-> type, mode |-> mode, owner |-> owner, xattrs |-> xattrs, data |-> data, mtime |-> "m"]
NoXattrs == << >>
EmptyDir == Node("dir", "plain", "root", NoXattrs, "")
EmptyTree == [ok |-> TRUE, names |-> Top :> 0, nodes |-> 0 :> EmptyDir]

Paths(tree) == DOMAIN tree.names
Has(tree, path) == path \in Paths(tree)
Stat(tree, path) == tree.nodes[tree.names[path]]
ParentOf(path) == SubSeq(path, 1, Len(path) - 1)
Below(tree, path) == {p \in Paths(tree) : Len(p) = Len(path) + 1 /\ ParentOf(p) = path}
IsDirAt(tree, path) == Has(tree, path) /\ Stat(tree, path).type = "dir"
\* The path that a call which follows symlinks works on.
Through(tree, path) ==
    IF Has(tree, path) /\ Stat(tree, path).type = "symlink" THEN Append(ParentOf(path), Stat(tree, path).data) ELSE path
SameInode(tree, p, q) == tree.names[p] = tree.names[q]

Failed(tree) == [tree EXCEPT !.ok = FALSE]
If(tree, cond, after) == IF tree.ok /\ cond THEN after ELSE Failed(tree)
Touch(tree, path) == [tree EXCEPT !.nodes[tree.names[path]].mtime = "now"]
Update(tree, path, node) == If(tree, Has(tree, path), [tree EXCEPT !.nodes[tree.names[path]] = node])
\* Dropping a name drops the inode when it was the last one.
Unname(tree, path) ==
    LET names == Restrict(tree.names, Paths(tree) \ {path})
    IN  [tree EXCEPT !.names = names, !.nodes = Restrict(tree.nodes, Range(names))]

\* mkdir, open(O_CREAT | O_EXCL) and symlink.
Make(tree, path, node) ==
    LET ino == Max(DOMAIN tree.nodes) + 1
    IN  If(tree, ~Has(tree, path) /\ IsDirAt(tree, ParentOf(path)),
           Touch([tree EXCEPT !.names = (path :> ino) @@ @, !.nodes = (ino :> [node EXCEPT !.mtime = "now"]) @@ @], ParentOf(path)))
HardLink(tree, target, path) ==
    If(tree, Has(tree, target) /\ ~IsDirAt(tree, target) /\ ~Has(tree, path) /\ IsDirAt(tree, ParentOf(path)),
       Touch([tree EXCEPT !.names = (path :> tree.names[target]) @@ @], ParentOf(path)))
\* rename over whatever is there; two names of one inode are both kept.
RenameOver(tree, from, to) ==
    IF ~tree.ok \/ ~Has(tree, from) \/ IsDirAt(tree, to) THEN Failed(tree)
    ELSE IF Has(tree, to) /\ SameInode(tree, from, to) THEN tree
    ELSE LET ino == tree.names[from]
             node == tree.nodes[ino]
             cleared == Unname(IF Has(tree, to) THEN Unname(tree, to) ELSE tree, from)
         IN  Touch([cleared EXCEPT !.names = (to :> ino) @@ @, !.nodes = (ino :> node) @@ @], ParentOf(to))
Unlink(tree, path) == If(tree, Has(tree, path) /\ ~IsDirAt(tree, path), Touch(Unname(tree, path), ParentOf(path)))
Rmdir(tree, path) ==
    If(tree, IsDirAt(tree, path) /\ Below(tree, path) = {} /\ path # Top, Touch(Unname(tree, path), ParentOf(path)))
\* Writing drops capabilities; changing the owner of anything but a directory drops the
\* set-user-ID bit too.
DropCap(node) == [node EXCEPT !.xattrs = Restrict(@, DOMAIN @ \ {"cap"})]
WriteData(tree, path, data) ==
    If(tree, Has(tree, path) /\ Stat(tree, path).type = "file",
       Update(tree, path, [DropCap(Stat(tree, path)) EXCEPT !.data = data, !.mtime = "now"]))
ChangeOwner(tree, path, owner) ==
    IF ~Has(tree, path) THEN Failed(tree)
    ELSE LET node == Stat(tree, path)
             killed == IF node.type = "dir" THEN node
                       ELSE [DropCap(node) EXCEPT !.mode = IF @ = "set" THEN "plain" ELSE @]
         IN  Update(tree, path, [killed EXCEPT !.owner = owner])
ChangeMode(tree, path, mode) == IF Has(tree, path) THEN Update(tree, path, [Stat(tree, path) EXCEPT !.mode = mode]) ELSE Failed(tree)
SetTime(tree, path, time) == IF Has(tree, path) THEN Update(tree, path, [Stat(tree, path) EXCEPT !.mtime = time]) ELSE Failed(tree)
SetXattr(tree, path, name, value) ==
    IF Has(tree, path) THEN Update(tree, path, [Stat(tree, path) EXCEPT !.xattrs = (name :> value) @@ @]) ELSE Failed(tree)
RemoveXattr(tree, path, name) ==
    IF Has(tree, path) /\ name \in DOMAIN Stat(tree, path).xattrs
    THEN Update(tree, path, [Stat(tree, path) EXCEPT !.xattrs = Restrict(@, DOMAIN @ \ {name})])
    ELSE Failed(tree)

\* What a command does to the tree it is applied to.  Truncating, writing and chmod
\* follow a symlink; the other calls do not.
Apply(tree, c) ==
    CASE c.op = "mkdir" -> Make(tree, c.path, Node("dir", c.mode, "root", NoXattrs, ""))
      [] c.op = "create" -> Make(tree, c.path, Node("file", c.mode, "root", NoXattrs, ""))
      [] c.op = "symlink" -> Make(tree, c.path, Node("symlink", "plain", "root", NoXattrs, c.data))
      [] c.op = "link" -> HardLink(tree, c.target, c.path)
      [] c.op = "rename" -> RenameOver(tree, c.path, c.to)
      [] c.op = "unlink" -> Unlink(tree, c.path)
      [] c.op = "rmdir" -> Rmdir(tree, c.path)
      [] c.op = "contents" -> WriteData(tree, Through(tree, c.path), c.data)
      [] c.op = "chown" -> ChangeOwner(tree, c.path, c.owner)
      [] c.op = "chmod" -> ChangeMode(tree, Through(tree, c.path), c.mode)
      [] c.op = "settimes" -> SetTime(tree, c.path, c.time)
      [] c.op = "setxattr" -> SetXattr(tree, c.path, c.name, c.value)
      [] c.op = "rmxattr" -> RemoveXattr(tree, c.path, c.name)
ApplyAll(tree, commands) == FoldLeft(Apply, tree, commands)

\* The pairs of attribute and path in which two trees differ; "path" when only one has it
\* and "links" when a name shares its inode with different names.
Attributes == {"type", "mode", "owner", "xattrs", "data", "mtime"}
LinksOf(tree, path) == {p \in Paths(tree) : SameInode(tree, p, path)}
Differences(a, b) ==
    {<<"path", p>> : p \in (Paths(a) \ Paths(b)) \cup (Paths(b) \ Paths(a))}
    \cup {d \in Attributes \X (Paths(a) \cap Paths(b)) : Stat(a, d[2])[d[1]] # Stat(b, d[2])[d[1]]}
    \cup {<<"links", p>> : p \in {p \in Paths(a) \cap Paths(b) : LinksOf(a, p) # LinksOf(b, p)}}
=============================================================================
