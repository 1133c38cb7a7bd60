----------------------------- MODULE ImageBuild -----------------------------
(***************************************************************************)
(* Building an image layer, phase by phase: antlir2 depgraph turns the     *)
(* features of the phase and the database of the phase before into a       *)
(* dependency graph (antlir2_depgraph/src/lib.rs), antlir2 compile applies *)
(* the features to the image in a topological order, and new_facts_db      *)
(* records what the image now holds.  The order among features that do not *)
(* depend on one another is left open.                                     *)
(***************************************************************************)
EXTENDS Features

CONSTANT Layers        \* the layers to build: sequences of phases, a phase a
                       \* sequence of features

VARIABLES layer,       \* the layer being built
          phase,       \* index of the current phase
          pc,          \* the next step of the phase
          facts,       \* table facts: items of the last finished phase
          feature,     \* table feature: id -> [data, pending]
          item,        \* tables item and provides: rows [feature, item]
          requires,    \* table requires: rows [feature, key, ordered, validator]
          image,       \* the file system being built
          before,      \* the image when the phase began
          compiled     \* the features compiled so far, in order

vars == <<layer, phase, pc, facts, feature, item, requires, image, before, compiled>>

EmptyImage == [p \in {Root} |-> Dir("755", "root", "root")]

Init == /\ layer \in Layers
        /\ phase = 1
        /\ pc = "new"
        /\ facts = {}
        /\ feature = << >>
        /\ item = {}
        /\ requires = {}
        /\ image = EmptyImage
        /\ before = EmptyImage
        /\ compiled = << >>

(***************************************************************************)
(* GraphBuilder::new: the features of the parent are complete, items whose *)
(* fact is gone are deleted, and the ambient items are always there.       *)
(* Row 0 stands for "no feature": ambient items have no provides row.      *)
(***************************************************************************)
Ambient == {EntryItem(Root, "dir", "755"), UserItem("root"), GroupItem("root")}
LiveRows == {row \in item : row.item.key \in Keys(facts)}

BuilderNew ==
    /\ pc = "new"
    /\ feature' = [id \in DOMAIN feature |-> [feature[id] EXCEPT !.pending = FALSE]]
    /\ item' = LiveRows \cup {[feature |-> 0, item |-> i] : i \in Ambient}
    /\ pc' = "add"
    /\ before' = image
    /\ compiled' = << >>
    /\ UNCHANGED <<layer, phase, facts, requires, image>>

Pending == {id \in DOMAIN feature : feature[id].pending}
Items(rows) == {row.item : row \in rows}

(***************************************************************************)
(* add_feature for every feature of the phase, after its analysis.         *)
(***************************************************************************)
AddFeatures ==
    /\ pc = "add"
    /\ LET new == layer[phase]
           Id(i) == Len(feature) + i
       IN  IF \A i \in DOMAIN new : Analyzable(new[i])
           THEN /\ feature' = feature \o [i \in DOMAIN new |-> [data |-> new[i], pending |-> TRUE]]
                /\ item' = item \cup UNION {{[feature |-> Id(i), item |-> it] : it \in Provides(new[i])}
                                            : i \in DOMAIN new}
                /\ requires' = requires \cup
                     UNION {{[feature |-> Id(i), key |-> r.key, ordered |-> r.ordered,
                              validator |-> r.validator] : r \in Requires(new[i])} : i \in DOMAIN new}
                /\ pc' = "fixup"
           ELSE pc' = "analysis_failed" /\ UNCHANGED <<feature, item, requires>>
    /\ UNCHANGED <<layer, phase, facts, image, before, compiled>>

(***************************************************************************)
(* fixup_symlinks: a requirement on a symlink is kept as "exists" and its  *)
(* validator moves to a new requirement on the canonical path; any other   *)
(* requirement is moved to the canonical path.  Rows do not disturb one    *)
(* another (a canonical path is never a symlink), so any order will do.    *)
(***************************************************************************)
IsSymlinkKey(key) == \E i \in PathItems(Items(item), facts, key.id) : i.kind = "symlink"

FixupRow(row, rows) ==
    LET r == Resolve(Items(item), facts, row.key.id, MaxChain)
        canonical == PathKey(r.path)
    IN  CASE r.st # "ok" -> rows
          [] r.st = "ok" /\ IsSymlinkKey(row.key) ->
               {IF q.key = row.key THEN [q EXCEPT !.validator = "exists"] ELSE q : q \in rows}
               \cup {[row EXCEPT !.key = canonical]}
          [] OTHER -> {IF q.key = row.key THEN [q EXCEPT !.key = canonical] ELSE q : q \in rows}

FixupSymlinks ==
    /\ pc = "fixup"
    /\ LET todo == {row \in requires : row.feature \in Pending /\ row.key.kind = "path"}
           overflow == \E row \in todo :
                         Resolve(Items(item), facts, row.key.id, MaxChain).st = "overflow"
       IN  IF overflow THEN pc' = "overflow" /\ UNCHANGED requires
           ELSE pc' = "verify" /\ requires' = FoldSet(FixupRow, requires, todo)
    /\ UNCHANGED <<layer, phase, facts, feature, item, image, before, compiled>>

(***************************************************************************)
(* The checks of build(), in the order of the code.                        *)
(***************************************************************************)
PendingRequires == {row \in requires : row.feature \in Pending}
MissingDep == \E row \in PendingRequires : row.key \notin Keys(Items(item)) \cup Keys(facts)
InvalidDep == \E row \in PendingRequires : \E i \in Items(item) :
                i.key = row.key /\ ~Satisfies(row.validator, i)

\* verify_no_conflicts: the item that is looked at is a bare column of the
\* GROUP BY, the value of any one row of the group.
RowsOf(key) == {row \in item : row.item.key = key}
Datas(key) == {feature[row.feature].data : row \in {row \in RowsOf(key) : row.feature # 0}}
Allowed(key, it) == \/ it.kind = "entry" /\ it.type = "dir"
                    \/ Cardinality(Datas(key)) <= 1
Shared == {key \in Keys(Items(item)) : Cardinality(RowsOf(key)) > 1}

\* Faulty variant of Providers: unordered requirements are edges, ordered ones not.
ProvidersSwapped(id) == {row.feature : row \in {row \in item : row.feature # 0 /\
                    \E r \in requires : r.feature = id /\ ~r.ordered /\ r.key = row.item.key}}

\* toposort: an edge for every provider of an ordered requirement.
Providers(id) == {row.feature : row \in {row \in item : row.feature # 0 /\
                    \E r \in requires : r.feature = id /\ r.ordered /\ r.key = row.item.key}}
Cycle == \E S \in SUBSET Pending : S # {} /\ \A id \in S : Providers(id) \cap S # {}

Verify ==
    /\ pc = "verify"
    /\ CASE MissingDep -> pc' = "missing"
         [] ~MissingDep /\ InvalidDep -> pc' = "unsatisfied"
         [] OTHER -> \/ /\ \E key \in Shared : \E it \in Items(RowsOf(key)) : ~Allowed(key, it)
                        /\ pc' = "conflict"
                     \/ /\ \A key \in Shared : \E it \in Items(RowsOf(key)) : Allowed(key, it)
                        /\ pc' = IF Cycle THEN "cycle" ELSE "compile"
    /\ UNCHANGED <<layer, phase, facts, feature, item, requires, image, before, compiled>>

\* Faulty variant of Ready: the providers are not waited for.
ReadyAtOnce(id) == id \in Pending \ ToSet(compiled)

(***************************************************************************)
(* antlir2 compile: the pending features, each after its providers.  The   *)
(* first failure ends the build.                                           *)
(***************************************************************************)
Ready(id) == id \in Pending \ ToSet(compiled) /\ Providers(id) \cap Pending \subseteq ToSet(compiled)

CompileFeature(id) ==
    /\ pc = "compile"
    /\ Ready(id)
    /\ \E r \in Compile(feature[id].data, image) :
         /\ image' = r.fs
         /\ pc' = IF r.ok THEN pc ELSE "compile_failed"
    /\ compiled' = Append(compiled, id)
    /\ UNCHANGED <<layer, phase, facts, feature, item, requires, before>>

\* new_facts_db: every fact found in the layer is inserted, every other deleted.
NewFactsDb ==
    /\ pc = "compile"
    /\ ToSet(compiled) = Pending
    /\ facts' = FactsOf(image)
    /\ pc' = IF phase = Len(layer) THEN "done" ELSE "new"
    /\ phase' = IF phase = Len(layer) THEN phase ELSE phase + 1
    /\ UNCHANGED <<layer, feature, item, requires, image, before, compiled>>

Next == \/ BuilderNew
        \/ AddFeatures
        \/ FixupSymlinks
        \/ Verify
        \/ \E id \in DOMAIN feature : CompileFeature(id)
        \/ NewFactsDb

Spec == Init /\ [][Next]_vars
-----------------------------------------------------------------------------
(***************************************************************************)
(* Properties                                                              *)
(***************************************************************************)
Compiled == ToSet(compiled)
Compiles(id) == compiled' = Append(compiled, id)
KeyIn(fs, key) == CASE key.kind = "path"  -> Occupied(fs, Named(key.id))
                    [] key.kind = "user"  -> key.id[1] \in UserDb(fs)
                    [] key.kind = "group" -> key.id[1] \in DOMAIN GroupsDb(fs)

\* A symlink that a feature of this phase has yet to create lies on the way.
Hidden(key) == key.kind = "path" /\ \E row \in item :
                 /\ row.feature \in Pending \ Compiled
                 /\ row.item.kind = "symlink"
                 /\ IsStrictPrefix(row.item.key.id, key.id)

\* The key of a requirement after fixup_symlinks: what it resolves to, if it does.
Canonical(key) ==
    LET r == Resolve(Items(item), facts, key.id, MaxChain)
    IN  IF key.kind = "path" /\ r.st = "ok" THEN PathKey(r.path) ELSE key

\* When a feature is compiled, what each of its ordered requirements
\* (Requirement::ordered) resolves to is in the image, through any number of
\* phases, removals and symlinks.  So is the path it declared, unless a symlink
\* on the way is still to be made: fixup_symlinks says that requirements "get
\* duplicated with an edge that points to the final, canonical path", but moves
\* those that only pass through a symlink, and nothing orders them after it.
RequiredBeforeBuilt ==
    [][\A id \in Pending : Compiles(id) =>
         \A r \in Requires(feature[id].data) : r.ordered =>
           /\ KeyIn(image, Canonical(r.key))
           /\ ~Hidden(r.key) => KeyIn(image, r.key)]_vars

\* The graph never relies on what is no longer there: an item that an earlier
\* phase provided and that is still in the table exists in the image, whatever
\* a remove or a genrule did in between (GraphBuilder::new).
ItemsAreReal ==
    pc # "new" => \A row \in item : row.feature \notin Pending => KeyIn(before, row.item.key)

Built == pc = "compile" /\ Compiled = Pending
\* A path that the image has but no feature of the graph provided, such as a file
\* of a genrule: verify_no_conflicts does not see it.
Dynamic(key) == key \in Keys(facts) /\ RowsOf(key) = {row \in RowsOf(key) : row.feature \in Pending}

\* Once a phase is compiled, all that its features said they provide is in the
\* image, and what they said is a directory is one.
ProvidedIsThere ==
    Built => \A row \in item : row.feature \in Pending /\ ~Dynamic(row.item.key) =>
      /\ KeyIn(image, row.item.key)
      /\ row.item.kind = "entry" /\ row.item.type = "dir" =>
           IsDir(image, RealPath(image, Named(row.item.key.id)).path)

\* The items of the graph are in the image: those of earlier phases when a phase
\* begins, its own when it has been compiled (GraphBuilder::new, Provides).
ItemsAreThere == ItemsAreReal /\ ProvidedIsThere

\* The phase compiled in the order of the feature ids, as far as edges allow.
RECURSIVE Reference(_, _)
Reference(r, done) ==
    LET ready == {id \in Pending \ done : Providers(id) \cap Pending \subseteq done}
        id == CHOOSE id \in ready : \A other \in ready : id <= other
    IN  IF ~r.ok \/ ready = {} THEN r
        ELSE Reference(CHOOSE q \in Compile(feature[id].data, r.fs) : TRUE, done \cup {id})

Changed == {p \in DOMAIN image : p \notin DOMAIN before \/ image[p] # before[p]}

PendingPaths == {row \in item : row.feature \in Pending /\ row.item.key.kind = "path"}
DeclaredOnce ==
    \A p \in Changed \ {PasswdPath, ShadowPath, GroupPath} :
      Cardinality({row.feature : row \in {row \in PendingPaths :
                                   DstPath(image, Named(row.item.key.id)).path = p}}) = 1

\* Two topological orders of the same graph build the same image, provided that
\* each path they write is declared, and by one feature only (toposort leaves
\* the order of unrelated features to the hash maps and to petgraph).
OrderIndependent ==
    Built /\ DeclaredOnce => Reference(Start(before), {}) = Start(image)

\* Why compiling an accepted feature may fail.  Clash: an entry that it creates,
\* and that must be new, is there already.
MustBeNew == {"symlink", "hardlink", "mount", "install", "clone", "tarball", "extract"}
Clash(id, fs) == /\ feature[id].data.type \in MustBeNew
                 /\ \E i \in Provides(feature[id].data) : KeyIn(fs, i.key)

\* Behind: a required path is not there yet, because a symlink on the way to it is
\* made later (fixup_symlinks dropped the edge to that symlink).
Behind(id, fs) == \E r \in Requires(feature[id].data) : Hidden(r.key) /\ ~KeyIn(fs, r.key)

\* Unvalidated: a fact met a requirement without satisfying it; only items are
\* validated.
Unvalidated(id) == \E row \in requires : row.feature = id /\ \E i \in facts :
                     i.key = row.key /\ ~Satisfies(row.validator, i)

\* Undeclared: what no item tells of.  The command of a genrule may fail, or
\* remove a mountpoint that the clean-up then misses; a directory to be removed
\* may have entries; a library of an extract may be there with other contents.
Undeclared(id, fs) ==
    LET f == feature[id].data
    IN  CASE f.type = "genrule" -> \E e \in f.effects :
                                     \/ ~e.success
                                     \/ \E p \in MountsToCleanup(f, fs), d \in e.del : IsPrefix(d, p)
          [] f.type = "remove"  -> f.must_be_empty /\ Children(fs, DstPath(fs, f.path).path) # {}
          [] f.type = "extract" -> \E lib \in ToSet(f.libs) :
                                     Occupied(fs, lib.dst) /\ At(fs, lib.dst).data # lib.data
          [] OTHER              -> FALSE

\* A feature of any type that the checks of build() accepted fails to compile
\* only for one of these four reasons, each of them the state of the image at
\* that moment: no other check is left out, and none comes too late.
FailsOnlyFor ==
    [][\A id \in Pending : Compiles(id) /\ pc' = "compile_failed" =>
         Clash(id, image) \/ Behind(id, image) \/ Unvalidated(id) \/ Undeclared(id, image)]_vars

\* The paths after a genrule whose command had the effect e: what the command
\* removed is gone, what it added is there with the directories above, and so are
\* /dev and /proc.
AfterGenrule(e) ==
    {p \in DOMAIN image : \A d \in e.del : ~IsPrefix(d, p)}
    \cup UNION {Prefixes(p) : p \in e.add} \cup {DevPath, ProcPath}

\* A genrule that succeeds leaves exactly what its command made and, where they
\* were missing, the mountpoints /dev and /proc: those of inputs and platform are
\* gone, at every depth.  Genrule::compile says that it finds "all the
\* mountpoints (and their ancestors) that did not exist before", but lists the
\* inputs and the platform only, and setup_isolation makes the other two as well.
MountpointsCleaned ==
    [][\A id \in Pending : Compiles(id) /\ feature[id].data.type = "genrule" /\ pc' = "compile" =>
         \E e \in feature[id].data.effects : e.success /\ DOMAIN image' = AfterGenrule(e)]_vars

\* "Two distinct features are allowed to provide the same directory as long as
\* the PathItem::Entry's are equivalent", and ensure_dir_exists relies on it: a
\* directory it declares has the declared mode and owner in the built image.
EnsuredAsDeclared ==
    Built => \A id \in Pending : LET f == feature[id].data IN
      f.type = "ensure_dir_exists" => image[RealPath(image, f.dir).path] = Dir(f.mode, f.user, f.group)
=============================================================================
