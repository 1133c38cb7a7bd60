------------------------------- MODULE ImageFs -------------------------------
(***************************************************************************)
(* The image being built, as CompilerContext (antlir2_compile/src/lib.rs)  *)
(* and the features see it: a file system is a function from the paths     *)
(* that exist to their entries.  A path is the sequence of its components, *)
(* the root is the empty sequence.  A symlink target is a record: is it    *)
(* absolute, and its components, which may be "..".  An owner is the NAME  *)
(* of a user: ids are looked up through names wherever the code writes     *)
(* them.  The data of /etc/passwd is the set of users in it, that of       *)
(* /etc/group a function from groups to their members.                     *)
(***************************************************************************)
EXTENDS Naturals, SequencesExt

Root == << >>
PasswdPath == <<"etc", "passwd">>
ShadowPath == <<"etc", "shadow">>
GroupPath == <<"etc", "group">>

Dir(mode, user, group) == [type |-> "dir", mode |-> mode, user |-> user, group |-> group]
File(mode, user, group, data) ==
    [type |-> "file", mode |-> mode, user |-> user, group |-> group, data |-> data]
Link(target) == [type |-> "link", target |-> target]

Abs(comps) == [abs |-> TRUE, comps |-> comps]
Rel(comps) == [abs |-> FALSE, comps |-> comps]

Push(path, c) == CASE c # ".."                  -> Append(path, c)
                   [] c = ".." /\ path = Root   -> Root
                   [] c = ".." /\ path # Root   -> Front(path)

\* A target made absolute without looking at the file system.
Lexical(dir, target) == FoldLeft(Push, IF target.abs THEN Root ELSE dir, target.comps)

Strictly(p, dir) == IsStrictPrefix(dir, p)
IsDir(fs, p) == p \in DOMAIN fs /\ fs[p].type = "dir"
IsLink(fs, p) == p \in DOMAIN fs /\ fs[p].type = "link"
Children(fs, dir) == {p \in DOMAIN fs : Strictly(p, dir)}

Found(path) == [st |-> "ok", path |-> path]
NotFound == [st |-> "not_found", path |-> Root]
Broken == [st |-> "error", path |-> Root]     \* ENOTDIR, ELOOP

MaxLinks == 4                                 \* stands for the kernel's 40

(***************************************************************************)
(* openat2(O_PATH, RESOLVE_IN_ROOT): every symlink is followed, the last   *)
(* one too.                                                                *)
(***************************************************************************)
RECURSIVE Openat2(_, _, _)
Openat2(fs, comps, links) ==
    LET Follow(dir, t) == Openat2(fs, (IF t.abs THEN << >> ELSE dir) \o t.comps, links - 1)
        Enter(at, p) ==
          CASE at.st # "ok"               -> at
            [] ~IsDir(fs, at.path)        -> Broken
            [] p \notin DOMAIN fs         -> NotFound
            [] IsLink(fs, p) /\ links = 0 -> Broken
            [] IsLink(fs, p) /\ links > 0 -> Follow(at.path, fs[p].target)
            [] OTHER                      -> Found(p)
        Step(at, c) == Enter(at, Push(at.path, c))
    IN  FoldLeft(Step, Found(Root), comps)

RealPath(fs, path) == Openat2(fs, path, MaxLinks)
Exists(fs, path) == RealPath(fs, path).st = "ok"

(***************************************************************************)
(* CompilerContext::resolve_dst_path.  What does not exist yet is joined   *)
(* to the first ancestor that can be resolved.                             *)
(***************************************************************************)
RECURSIVE ResolveDstPath(_, _, _)
ResolveDstPath(fs, path, mode) ==
    LET Ancestor(n) == ResolveDstPath(fs, SubSeq(path, 1, n), "full")
        Joined(n) == Found(Ancestor(n).path \o SubSeq(path, n + 1, Len(path)))
        Resolved(r) ==
          CASE r.st = "ok"    -> IF mode = "full" THEN r ELSE Found(Append(r.path, Last(path)))
            [] r.st = "error" -> Broken
            [] r.st = "not_found" ->
                 Joined(CHOOSE n \in 0 .. Len(path) - 1 :
                          /\ Ancestor(n).st = "ok"
                          /\ \A m \in n + 1 .. Len(path) - 1 : Ancestor(m).st # "ok")
    IN  IF path = Root THEN Found(Root)
        ELSE Resolved(RealPath(fs, IF mode = "full" THEN path ELSE Front(path)))

DstPath(fs, path) == ResolveDstPath(fs, path, "parent")

(***************************************************************************)
(* The user databases.  A missing file is the default one, with root only. *)
(***************************************************************************)
UserDb(fs) == IF Exists(fs, PasswdPath) THEN fs[RealPath(fs, PasswdPath).path].data ELSE {"root"}
GroupsDb(fs) == IF Exists(fs, GroupPath) THEN fs[RealPath(fs, GroupPath).path].data
                ELSE [g \in {"root"} |-> {}]

(***************************************************************************)
(* Steps on the image.  A step takes and returns [ok, fs]: once one has    *)
(* failed, the rest of the feature is not run.  `path' is what the feature *)
(* names; DstPath finds the place.                                         *)
(***************************************************************************)
Start(fs) == [ok |-> TRUE, fs |-> fs]
Fail(r) == [r EXCEPT !.ok = FALSE]
Check(r, cond) == IF r.ok /\ ~cond THEN Fail(r) ELSE r

\* Create or replace one directory entry whose parent must be a directory.
PutAt(r, p, entry) ==
    IF \/ ~r.ok \/ p.st # "ok"
       \/ p.path # Root /\ ~IsDir(r.fs, Front(p.path))
    THEN Fail(r)
    ELSE [r EXCEPT !.fs = [q \in DOMAIN r.fs \cup {p.path} |->
                             IF q = p.path THEN entry ELSE r.fs[q]]]
Put(r, path, entry) == PutAt(r, DstPath(r.fs, path), entry)

OccupiedAt(fs, p) == p.st = "ok" /\ p.path \in DOMAIN fs
Occupied(fs, path) == OccupiedAt(fs, DstPath(fs, path))
At(fs, path) == fs[DstPath(fs, path).path]

CreateNewAt(r, p, entry) == PutAt(Check(r, ~OccupiedAt(r.fs, p)), p, entry)
CreateNew(r, path, entry) == CreateNewAt(r, DstPath(r.fs, path), entry)

\* std::fs::copy, write and File::create: a directory in the way is an error,
\* a file is overwritten, and the data follows a symlink out of this entry.
WriteFileAt(r, p, entry) ==
    CASE ~OccupiedAt(r.fs, p)                 -> PutAt(r, p, entry)
      [] OccupiedAt(r.fs, p) /\ r.fs[p.path].type = "dir"  -> Fail(r)
      [] OccupiedAt(r.fs, p) /\ r.fs[p.path].type = "link" -> r
      [] OTHER                                -> PutAt(r, p, entry)
WriteFile(r, path, entry) == WriteFileAt(r, DstPath(r.fs, path), entry)

\* std::fs::create_dir_all
CreateMissingAt(r, p, entry) == IF OccupiedAt(r.fs, p) THEN r ELSE CreateNewAt(r, p, entry)
CreateDirAll(r, path, entry) ==
    FoldLeft(LAMBDA a, n : CreateMissingAt(a, DstPath(a.fs, SubSeq(path, 1, n)), entry),
             r, [n \in 1 .. Len(path) |-> n])

RemoveTree(r, p) == [r EXCEPT !.fs = [q \in DOMAIN r.fs \ ({p} \cup Children(r.fs, p)) |-> r.fs[q]]]

\* copy_with_metadata: a symlink or a directory must be new, a file may replace one.
CopyWithMetadataAt(r, p, entry) ==
    IF entry.type = "file" THEN WriteFileAt(r, p, entry) ELSE CreateNewAt(r, p, entry)
CopyWithMetadata(r, path, entry) == CopyWithMetadataAt(r, DstPath(r.fs, path), entry)
=============================================================================
