-------------------------------- MODULE Items --------------------------------
(***************************************************************************)
(* What the dependency graph of an image is made of (antlir2_depgraph_if): *)
(* items, the keys that identify them, requirements on keys, validators of *)
(* items, and the facts about a built layer seen as items (antlir2_facts,  *)
(* antlir2_depgraph/src/fact_interop.rs).                                  *)
(***************************************************************************)
EXTENDS ImageFs

PathKey(path) == [kind |-> "path", id |-> path]
\* Keys are compared as text: Path::join with an empty path leaves a trailing
\* slash, which names the same place but is another key.
Slashed(path) == Append(path, "")
Named(path) == SelectSeq(path, LAMBDA c : c # "")
UserKey(name) == [kind |-> "user", id |-> <<name>>]
GroupKey(name) == [kind |-> "group", id |-> <<name>>]

EntryItem(path, type, mode) ==
    [kind |-> "entry", key |-> PathKey(path), type |-> type, mode |-> mode]
SymlinkItem(link, target) == [kind |-> "symlink", key |-> PathKey(link), target |-> target]
MountItem(path, mode) == [kind |-> "mount", key |-> PathKey(path), mode |-> mode]
UserItem(name) == [kind |-> "user", key |-> UserKey(name)]
GroupItem(name) == [kind |-> "group", key |-> GroupKey(name)]

(***************************************************************************)
(* A validator is "exists", "executable" or the file type it asks for.     *)
(***************************************************************************)
ExecutableModes == {"555", "755", "700"}

Satisfies(validator, item) ==
    CASE validator = "exists"     -> TRUE
      [] validator = "executable" -> /\ item.kind = "entry"
                                     /\ item.type = "file"
                                     /\ item.mode \in ExecutableModes
      [] OTHER                    -> item.kind = "entry" /\ item.type = validator

Ordered(key, validator) == [key |-> key, ordered |-> TRUE, validator |-> validator]
Unordered(key, validator) == [key |-> key, ordered |-> FALSE, validator |-> validator]

\* The parent directory, where there is one, must be a directory.
ParentDir(path) == IF path = Root THEN {} ELSE {Ordered(PathKey(Front(path)), "dir")}

(***************************************************************************)
(* The facts new_facts_db finds in a layer: one for each path, user and    *)
(* group.  A symlink's target is made absolute without following links.    *)
(***************************************************************************)
ToItem(fs, p) ==
    IF IsLink(fs, p) THEN SymlinkItem(p, Abs(Lexical(Front(p), fs[p].target)))
    ELSE EntryItem(p, fs[p].type, fs[p].mode)

PopulateFiles(fs) == {ToItem(fs, p) : p \in DOMAIN fs}
PopulateUserGroups(fs) ==
    {UserItem(u) : u \in UserDb(fs)} \cup {GroupItem(g) : g \in DOMAIN GroupsDb(fs)}
FactsOf(fs) == PopulateFiles(fs) \cup PopulateUserGroups(fs)

Keys(items) == {i.key : i \in items}

(***************************************************************************)
(* resolve(): walk the components through the items, and the facts where   *)
(* no feature provides the path; every symlink on the way is replaced by   *)
(* what its target resolves to.  Nothing bounds the recursion: a chain     *)
(* longer than the bound stands for a stack overflow.                      *)
(***************************************************************************)
MaxChain == 5
Overflow == [st |-> "overflow", path |-> Root]

PathItems(items, facts, path) ==
    LET own == {i \in items : i.key = PathKey(path)}
    IN  IF own # {} THEN own ELSE {i \in facts : i.key = PathKey(path)}

RECURSIVE Resolve(_, _, _, _)
Resolve(items, facts, comps, chain) ==
    LET Step(at, c) ==
          LET p == Push(at.path, c)
              found == PathItems(items, facts, p)
              item == CHOOSE i \in found : TRUE
          IN  CASE at.st # "ok"                                        -> at
                [] at.st = "ok" /\ found = {}                          -> NotFound
                [] at.st = "ok" /\ found # {} /\ item.kind # "symlink" -> Found(p)
                [] OTHER ->
                     IF chain = 0 THEN Overflow
                     ELSE Resolve(items, facts,
                                  (IF item.target.abs THEN << >> ELSE Front(p)) \o item.target.comps,
                                  chain - 1)
    IN  FoldLeft(Step, Found(Root), comps)
=============================================================================
