------------------------------- MODULE Features ------------------------------
(***************************************************************************)
(* The features of an image (antlir2/features): what each provides and     *)
(* requires in the dependency graph, and what compiling it does to the     *)
(* image.  A feature is a record with its type and the fields the code     *)
(* reads.  A tree of files (an install source, a tarball, a cloned         *)
(* directory) is a sequence of [rel, entry] in the order it is walked.     *)
(***************************************************************************)
EXTENDS Items, FiniteSets

Owned(f) == {Ordered(UserKey(f.user), "exists"), Ordered(GroupKey(f.group), "exists")}
HasOwner(fs, user, group) == user \in UserDb(fs) /\ group \in DOMAIN GroupsDb(fs)

TreeItem(path, entry) == IF entry.type = "link" THEN SymlinkItem(path, entry.target)
                         ELSE EntryItem(path, entry.type, entry.mode)

\* ---------------------------------------------------------- ensure_dir_exists
EnsureDirProvides(f) == {EntryItem(f.dir, "dir", f.mode)}
EnsureDirRequires(f) == Owned(f) \cup ParentDir(f.dir)
EnsureDirCompile(f, fs) ==
    IF Occupied(fs, f.dir) THEN Start(fs)       \* AlreadyExists is ignored
    ELSE Check(CreateNew(Start(fs), f.dir, Dir(f.mode, f.user, f.group)),
               HasOwner(fs, f.user, f.group))

\* --------------------------------------------------------------------- remove
RemoveRequires(f) == IF f.must_exist THEN {Ordered(PathKey(f.path), "exists")} ELSE {}
RemoveCompile(f, fs) ==
    LET p == DstPath(fs, f.path)
    IN  CASE p.st # "ok"            -> Fail(Start(fs))
          [] p.st = "ok" /\ p.path \notin DOMAIN fs -> Check(Start(fs), ~f.must_exist)
          [] OTHER -> RemoveTree(Check(Start(fs), f.must_be_empty => Children(fs, p.path) = {}),
                                 p.path)

\* -------------------------------------------------------------------- symlink
RunDir == <<"run">>
SymlinkProvides(f) == {SymlinkItem(f.link, f.target)}
SymlinkRequires(f) ==
    LET target == Lexical(Front(f.link), f.target)
    IN  {Ordered(PathKey(Front(f.link)), "dir")}
        \cup IF f.unsafe_dangling_symlink \/ target = <<"dev", "null">> \/ IsPrefix(RunDir, target)
             THEN {}
             ELSE {Ordered(PathKey(target), IF f.is_directory THEN "dir" ELSE "file")}
SymlinkCompile(f, fs) ==
    IF Occupied(fs, f.link) /\ At(fs, f.link).type = "link"
    THEN Check(Start(fs), At(fs, f.link).target = f.target)
    ELSE CreateNew(Start(fs), f.link, Link(f.target))

\* ------------------------------------------------------------------- hardlink
HardlinkProvides(f) == {SymlinkItem(f.link, Abs(f.target))}
HardlinkRequires(f) ==
    {Ordered(PathKey(Front(f.link)), "dir"), Ordered(PathKey(f.target), "file")}
HardlinkCompile(f, fs) ==
    IF Occupied(fs, f.target) /\ At(fs, f.target).type # "dir"
    THEN CreateNew(Start(fs), f.link, At(fs, f.target))
    ELSE Fail(Start(fs))

\* ------------------------------------------------------------ requires, mount
RequiresRequires(f) == {Ordered(PathKey(p), "file") : p \in f.files}
                       \cup {Ordered(UserKey(u), "exists") : u \in f.users}
                       \cup {Ordered(GroupKey(g), "exists") : g \in f.groups}

MountMode(f) == IF f.is_directory THEN "555" ELSE "444"
MountProvides(f) == {MountItem(f.mountpoint, MountMode(f))}
MountRequires(f) == {Ordered(PathKey(Front(f.mountpoint)), "dir")}
MountCompile(f, fs) ==
    IF f.is_directory THEN CreateNew(Start(fs), f.mountpoint, Dir("755", "root", "root"))
    ELSE WriteFile(Start(fs), f.mountpoint, File("644", "root", "root", "empty"))

\* ---------------------------------------------------------------- user, group
UserProvides(f) == {UserItem(f.username)}
UserRequires(f) ==
    {Unordered(PathKey(f.home_dir), "dir"), Unordered(PathKey(f.shell), "executable"),
     Ordered(PathKey(PasswdPath), "exists"), Ordered(PathKey(GroupPath), "exists")}
    \cup {Ordered(GroupKey(g), "exists") : g \in f.groups}

\* std::fs::write: the mode and the owner of an existing file stay.
WriteDataAt(r, p, data) ==
    WriteFileAt(r, p,
                IF OccupiedAt(r.fs, p) /\ r.fs[p.path].type = "file"
                THEN [r.fs[p.path] EXCEPT !.data = data] ELSE File("644", "root", "root", data))
WriteData(r, path, data) == WriteDataAt(r, DstPath(r.fs, path), data)

\* Push the user to the members of each group, which must exist.
AddToGroups(r, user, groups) ==
    LET db == GroupsDb(r.fs)
    IN  WriteData(Check(r, groups \subseteq DOMAIN db), GroupPath,
                  [g \in DOMAIN db |-> IF g \in groups THEN db[g] \cup {user} ELSE db[g]])
UserCompile(f, fs) ==
    LET passwd == WriteData(Check(Start(fs), f.groups \subseteq DOMAIN GroupsDb(fs)), PasswdPath,
                            UserDb(fs) \cup {f.username})
        shadow == WriteFile(passwd, ShadowPath, File("000", "root", "root", "shadow"))
    IN  AddToGroups(shadow, f.username, f.groups)

GroupProvides(f) == {GroupItem(f.groupname)}
GroupRequires(f) == {Ordered(PathKey(GroupPath), "exists")}
GroupCompile(f, fs) ==
    WriteData(Start(fs), GroupPath, (f.groupname :> {}) @@ GroupsDb(fs))

UserModRequires(f) == {Ordered(UserKey(f.username), "exists")}
                      \cup {Ordered(GroupKey(g), "exists") : g \in f.groups}
UserModCompile(f, fs) == AddToGroups(Start(fs), f.username, f.groups)

\* -------------------------------------------------------------------- install
\* f.binary is "no", "dev" or "installed"; f.buildid is the path of the debug
\* file under /usr/lib/debug/.build-id, or the root when there is none.
DebugDir == <<"usr", "lib", "debug">>
IsTree(f) == f.tree # << >>

InstallTreeItem(f, t) ==
    CASE t.entry.type = "link" -> SymlinkItem(f.dst \o t.rel, t.entry.target)
      [] t.entry.type = "dir"  -> EntryItem(f.dst \o t.rel, "dir", IF t.rel = << >> THEN f.mode ELSE "755")
      [] t.entry.type = "file" -> EntryItem(f.dst \o t.rel, "file", "444")

InstallProvides(f) ==
    IF IsTree(f) THEN {InstallTreeItem(f, t) : t \in ToSet(f.tree)}
    ELSE {EntryItem(f.dst, "file", f.mode)}
         \cup (IF f.binary = "dev" THEN {EntryItem(DebugDir, "dir", "755")} ELSE {})
         \cup (IF f.binary = "installed" /\ f.buildid # Root
               THEN {EntryItem(Front(f.buildid), "dir", "555")} ELSE {})

\* Numeric ids bypass the user and group requirements.
InstallRequires(f) == (IF f.by_id THEN {} ELSE Owned(f)) \cup ParentDir(f.dst)

InstallTree(f, fs) ==
    LET Own(e) == IF e.type = "link" THEN e ELSE [e EXCEPT !.user = f.user, !.group = f.group]
        Copy(r, t) == IF Exists(r.fs, f.dst \o t.rel) THEN r
                      ELSE CopyWithMetadata(r, f.dst \o t.rel, Own(t.entry))
    IN  FoldLeft(Copy, Start(fs), f.tree)

\* f.dwp is the name of the dwp beside the debug file, "" when there is none.
CpDebugSymbols(r, f, path) ==
    LET Copy(a, p) == CopyWithMetadata(a, p, File("444", f.user, f.group, "debug"))
        debug == Copy(CreateDirAll(r, Front(path), Dir("755", "root", "root")), path)
    IN  IF f.dwp = "" THEN debug ELSE Copy(debug, Append(Front(path), f.dwp))

InstallFile(f, fs) ==
    LET file == File(f.mode, f.user, f.group, f.data)
        debug == CASE f.binary = "installed" /\ f.debuglink -> CpDebugSymbols(Start(fs), f, f.debug)
                   [] f.binary = "installed" /\ ~f.debuglink /\ f.buildid # Root ->
                        CpDebugSymbols(Start(fs), f, f.buildid)
                   [] OTHER -> Start(fs)
        main == IF f.binary = "dev"
                THEN CreateDirAll(CreateNew(Start(fs), f.dst, Link(Abs(<<"buck-out", f.data>>))),
                                  DebugDir, Dir("755", "root", "root"))
                ELSE WriteFile(debug, f.dst, file)
        LibDir(r) == CreateDirAll(r, f.lib_dir, Dir("755", "root", "root"))
        Lib(r, lib) == CopyWithMetadata(r, Append(f.lib_dir, lib), File("555", f.user, f.group, lib))
    IN  IF f.libs = << >> \/ f.binary = "dev" THEN main
        ELSE FoldLeft(Lib, LibDir(main), f.libs)

InstallCompile(f, fs) ==
    IF ~f.by_id /\ ~HasOwner(fs, f.user, f.group) THEN Fail(Start(fs))
    ELSE IF IsTree(f) THEN InstallTree(f, fs) ELSE InstallFile(f, fs)

\* ---------------------------------------------------------------------- clone
\* f.tree is what walking the source layer finds; f.facts the facts whose key
\* starts with the BYTES of the source path, in byte order, `under' telling
\* those below the path from mere namesakes.  Both loops of the analysis stop at
\* the first namesake (map_while, take_while).  A path with a trailing slash,
\* which omits the outer directory, is a prefix of what is below it only.
CloneListed(f) ==
    IF f.omit_outer_dir THEN {t \in ToSet(f.facts) : t.under /\ t.rel # << >>}
    ELSE {f.facts[i] : i \in {i \in 1 .. Len(f.facts) : \A j \in 1 .. i : f.facts[j].under}}
CloneRel(f, rel) == IF f.pre_existing_dest /\ ~f.omit_outer_dir THEN <<f.name>> \o rel ELSE rel
CloneCopies(f, t) == ~(f.omit_outer_dir /\ t.rel = << >>)
CloneDst(f, t) == f.dst \o CloneRel(f, t.rel)

CloneRoots(f) == {t \in ToSet(f.facts) : t.under /\ t.rel = << >>}
CloneSourceGood(f) ==
    CloneRoots(f) # {} /\ \A t \in CloneRoots(f) : f.omit_outer_dir => t.entry.type = "dir"

\* The destination itself, when it is to be made, and what is listed: there the
\* outer entry is named with a slash.
CloneProvides(f) ==
    LET Mode(e) == IF e.type = "link" THEN "777" ELSE e.mode
        Key(t) == IF t.rel = << >> THEN Slashed(CloneDst(f, t)) ELSE CloneDst(f, t)
    IN  {EntryItem(f.dst, t.entry.type, Mode(t.entry)) :
           t \in {t \in CloneRoots(f) : ~f.pre_existing_dest}}
        \cup {TreeItem(Key(t), t.entry) : t \in CloneListed(f)}
CloneRequires(f) ==
    {Ordered(PathKey(IF f.pre_existing_dest THEN f.dst ELSE Front(f.dst)), "dir")}
    \cup IF f.usergroup THEN Owned(f)
         ELSE UNION {Owned(t.entry) : t \in {t \in CloneListed(f) : t.entry.type # "link"}}
CloneCompile(f, fs) ==
    LET Own(e) == IF f.usergroup /\ e.type # "link"
                  THEN [e EXCEPT !.user = f.user, !.group = f.group] ELSE e
        Copy(r, t) ==
          LET e == Own(t.entry)
          IN  IF ~CloneCopies(f, t) THEN r
              ELSE Check(CopyWithMetadata(r, CloneDst(f, t), e),
                         e.type # "link" => HasOwner(r.fs, e.user, e.group))
    IN  FoldLeft(Copy, Start(fs), f.tree)

\* -------------------------------------------------------------------- tarball
Stripped(f, rel) == SubSeq(rel, f.strip_components + 1, Len(rel))
TarballProvides(f) ==
    LET Key(rel) == IF rel = << >> THEN Slashed(f.into_dir) ELSE f.into_dir \o rel
    IN  {TreeItem(Key(Stripped(f, t.rel)), t.entry) : t \in ToSet(f.tree)}
TarballRequires(f) == ParentDir(f.into_dir)
Unpack(r, path, entry) ==
    IF Occupied(r.fs, path) /\ At(r.fs, path).type = "dir"
    THEN IF entry.type = "dir" THEN Put(r, path, entry) ELSE Fail(r)
    ELSE Put(r, path, entry)

\* Faulty variant of TarballCompile: no components are stripped.
TarballCompileFlat(f, fs) ==
    FoldLeft(LAMBDA r, t : Unpack(r, f.into_dir \o t.rel, t.entry),
             CreateDirAll(Start(fs), f.into_dir, Dir("755", "root", "root")), f.tree)

TarballCompile(f, fs) ==
    LET Entry(r, t) == Unpack(r, f.into_dir \o Stripped(f, t.rel), t.entry)
        one == \A n \in 1 .. f.strip_components :
                 Cardinality({t.rel[n] : t \in {t \in ToSet(f.tree) : Len(t.rel) >= n}}) = 1
        renamed == one /\ (Occupied(fs, f.into_dir) =>
                             IsDir(fs, DstPath(fs, f.into_dir).path)
                             /\ Children(fs, DstPath(fs, f.into_dir).path) = {})
    IN  IF f.strip_components = 0
        THEN FoldLeft(Entry, CreateDirAll(Start(fs), f.into_dir, Dir("755", "root", "root")), f.tree)
        ELSE FoldLeft(Entry, Check(Start(fs), renamed),
                      SelectSeq(f.tree, LAMBDA t : Len(t.rel) >= f.strip_components))

\* -------------------------------------------------------------------- extract
\* From a layer or from a buck-built binary: the binaries are provided, the
\* libraries they need are not.  A binary that is a symlink in the source
\* layer (b.real # b.dst) is recreated as one next to a copy of its target.
ExtractProvides(f) == {EntryItem(b.dst, "file", "555") : b \in ToSet(f.binaries)}
ExtractRequires(f) == {Ordered(PathKey(Front(b.dst)), "dir") : b \in ToSet(f.binaries)}
CopyOrSame(r, lib) ==
    IF Occupied(r.fs, lib.dst)
    THEN Check(r, At(r.fs, lib.dst).type = "file" /\ At(r.fs, lib.dst).data = lib.data)
    ELSE CopyWithMetadata(r, lib.dst, File("555", "root", "root", lib.data))
CopyDep(r, lib) ==
    CopyOrSame(CreateDirAll(r, Front(lib.dst), Dir("755", "root", "root")), lib)
ExtractCompile(f, fs) ==
    LET Relink(r, b) == Put(r, b.dst, Link(Abs(b.real)))
        Copy(r, b) ==
          LET done == CopyWithMetadata(r, b.real, File("555", "root", "root", b.data))
          IN  IF b.real = b.dst THEN done ELSE Relink(done, b)
    IN  FoldLeft(CopyDep, FoldLeft(Copy, Start(fs), f.binaries), f.libs)

\* ---------------------------------------------------------- genrule, dot_meta
\* A command may do anything below the root: f.effects lists what this one may
\* do, as the files it adds, the paths it removes (a mountpoint too, when it
\* unmounts it first) and whether it succeeds.  f.mounts are the inputs and the
\* platform's paths.  setup_isolation makes the directories that are missing
\* for these, for the devtmpfs and for /proc, in the layer, as the container is
\* not ephemeral; only the missing ones of f.mounts are removed afterwards,
\* deepest first, if they are still empty.
DevPath == <<"dev">>
ProcPath == <<"proc">>
MakeMountpoint(r, p) ==
    LET made == CreateDirAll(r, p, Dir("755", "root", "root"))
    IN  Check(made, IsDir(made.fs, RealPath(made.fs, p).path))

\* Faulty variant of MountsToCleanup: parents that are created are not removed.
MountsOnly(f, fs) == {p \in f.mounts : ~Occupied(fs, p)}

MountsToCleanup(f, fs) ==
    {p \in UNION {Prefixes(m) : m \in f.mounts} : p # Root /\ ~Occupied(fs, p)}
Cleanup(r, p) == CASE ~r.ok               -> r
                   [] p \notin DOMAIN r.fs -> Fail(r)
                   [] IsDir(r.fs, p) /\ Children(r.fs, p) = {} -> RemoveTree(r, p)
                   [] OTHER               -> r
GenruleRun(f, fs, effect) ==
    LET Deeper(p, q) == Len(p) > Len(q)
        mounts == SetToSortSeq(MountsToCleanup(f, fs), Deeper)
        entered == FoldLeft(MakeMountpoint, Start(fs), <<DevPath>> \o SetToSeq(f.mounts) \o <<ProcPath>>)
        removed == FoldLeft(RemoveTree, entered, SetToSeq(effect.del))
        added == FoldLeft(LAMBDA r, p : WriteFile(r, p, File("644", "root", "root", "made")),
                          removed, SetToSeq(effect.add))
    IN  IF ~entered.ok THEN entered
        ELSE FoldLeft(Cleanup, Check(added, effect.success), mounts)
GenruleCompile(f, fs) == {GenruleRun(f, fs, e) : e \in f.effects}

MetaDir == <<".meta">>
DotMetaCompile(f, fs) ==
    LET dir == CreateDirAll(Start(fs), MetaDir, Dir("755", "root", "root"))
        Write(r, name, data) == IF data = "" THEN r ELSE WriteData(r, Append(MetaDir, name), data)
    IN  Write(Write(Write(dir, "target", f.target), "revision", f.revision), "package", f.package)

\* ------------------------------------------------------------------- dispatch
Provides(f) ==
    CASE f.type = "ensure_dir_exists" -> EnsureDirProvides(f)
      [] f.type = "symlink"  -> SymlinkProvides(f)
      [] f.type = "hardlink" -> HardlinkProvides(f)
      [] f.type = "mount"    -> MountProvides(f)
      [] f.type = "user"     -> UserProvides(f)
      [] f.type = "group"    -> GroupProvides(f)
      [] f.type = "install"  -> InstallProvides(f)
      [] f.type = "clone"    -> CloneProvides(f)
      [] f.type = "tarball"  -> TarballProvides(f)
      [] f.type = "extract"  -> ExtractProvides(f)
      [] OTHER               -> {}

Requires(f) ==
    CASE f.type = "ensure_dir_exists" -> EnsureDirRequires(f)
      [] f.type = "remove"   -> RemoveRequires(f)
      [] f.type = "symlink"  -> SymlinkRequires(f)
      [] f.type = "hardlink" -> HardlinkRequires(f)
      [] f.type = "requires" -> RequiresRequires(f)
      [] f.type = "mount"    -> MountRequires(f)
      [] f.type = "user"     -> UserRequires(f)
      [] f.type = "group"    -> GroupRequires(f)
      [] f.type = "usermod"  -> UserModRequires(f)
      [] f.type = "install"  -> InstallRequires(f)
      [] f.type = "clone"    -> CloneRequires(f)
      [] f.type = "tarball"  -> TarballRequires(f)
      [] f.type = "extract"  -> ExtractRequires(f)
      [] OTHER               -> {}

\* The analysis of a feature fails before anything enters the graph.
Analyzable(f) == f.type = "clone" => CloneSourceGood(f)

\* The possible results of compiling a feature.
Compile(f, fs) ==
    CASE f.type = "ensure_dir_exists" -> {EnsureDirCompile(f, fs)}
      [] f.type = "remove"   -> {RemoveCompile(f, fs)}
      [] f.type = "symlink"  -> {SymlinkCompile(f, fs)}
      [] f.type = "hardlink" -> {HardlinkCompile(f, fs)}
      [] f.type = "requires" -> {Start(fs)}
      [] f.type = "mount"    -> {MountCompile(f, fs)}
      [] f.type = "user"     -> {UserCompile(f, fs)}
      [] f.type = "group"    -> {GroupCompile(f, fs)}
      [] f.type = "usermod"  -> {UserModCompile(f, fs)}
      [] f.type = "install"  -> {InstallCompile(f, fs)}
      [] f.type = "clone"    -> {CloneCompile(f, fs)}
      [] f.type = "tarball"  -> {TarballCompile(f, fs)}
      [] f.type = "extract"  -> {ExtractCompile(f, fs)}
      [] f.type = "genrule"  -> GenruleCompile(f, fs)
      [] f.type = "dot_meta" -> {DotMetaCompile(f, fs)}
=============================================================================
