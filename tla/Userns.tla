-------------------------------- MODULE Userns --------------------------------
(***************************************************************************)
(* antlir2_rootless::unshare_new_userns: a process moves itself into a new *)
(* user namespace that has its own user as root and the user's subordinate *)
(* ids as the others.  Only a process outside of the new namespace may     *)
(* write its id maps, so the process forks a child first, which waits on a *)
(* pipe for the namespace to exist, forks again to run newgidmap, and then *)
(* becomes newuidmap itself (unshare_userns).                              *)
(*                                                                         *)
(* An account is what /etc/subuid, /etc/subgid and the password database   *)
(* say of the user: the lines of the two files are records of a user (an   *)
(* id or a name), the first id and the number of ids.                      *)
(***************************************************************************)
EXTENDS Integers, Sequences, FiniteSets

CONSTANT
    FullRange   \* the length of a range that `best` accepts (65536)

VARIABLES
    account,    \* the user and its subordinate ids
    upc,        \* where each process is in unshare_userns
    writers,    \* the processes that hold the write end of the pipe open
    inNs,       \* the main process has unshared
    uidMap,     \* the namespace's uid_map, as a sequence of ranges
    gidMap      \* the namespace's gid_map

usernsVars == <<account, upc, writers, inNs, uidMap, gidMap>>

Procs == {"main", "child1", "child2"}

-----------------------------------------------------------------------------
(* Subordinate ids *)

\* A line names its user by id or by name (a name is a number here too).
ById(uid) == <<"id", uid>>
ByName(name) == <<"name", name>>

RangesOf(lines, user) == SelectSeq(lines, LAMBDA l : l.user = user)

\* IdMap::best: the first of the user's ranges whose length is exactly the full one.
Best(lines, user) == SelectSeq(RangesOf(lines, user), LAMBDA l : l.len = FullRange)

\* unshare_new_userns asks by id and then by name.  Both files are looked up by the user.
Chosen(lines) ==
    LET found == Best(lines, ById(account.uid)) \o Best(lines, ByName(account.name))
    IN  IF found = << >> THEN << >> ELSE <<Head(found)>>

\* The arguments of newuidmap and newgidmap: the id itself becomes 0, the range starts at 1.
MapOf(id, range) ==
    <<[inner |-> 0, outer |-> id, len |-> 1],
      [inner |-> 1, outer |-> range.start, len |-> range.len]>>

\* antlir2_userns::ns::NsMapping, which reads such a map back: the first range that holds the id.
Holds(first, len, id) == id >= first /\ id < first + len

ToOuter(map, i) ==
    LET in == SelectSeq(map, LAMBDA r : Holds(r.inner, r.len, i))
    IN  IF in = << >> THEN -1 ELSE Head(in).outer + (i - Head(in).inner)

ToInner(map, o) ==
    LET in == SelectSeq(map, LAMBDA r : Holds(r.outer, r.len, o))
    IN  IF in = << >> THEN -1 ELSE Head(in).inner + (o - Head(in).outer)

-----------------------------------------------------------------------------
(* unshare_userns *)

NoAccount == [uid |-> -1]

UsernsInit(accounts) ==
    /\ account \in accounts
    /\ upc = [p \in Procs |-> IF p = "main" /\ account # NoAccount THEN "lookup" ELSE "none"]
    /\ writers = {} /\ inNs = FALSE /\ uidMap = << >> /\ gidMap = << >>

Goto(p, where) == upc' = [upc EXCEPT ![p] = where]

\* A process that is over closes what it held.
Over(p, how) == Goto(p, how) /\ writers' = writers \ {p}

\* Root needs no namespace; an account without a usable range in either file is an error.
Lookup ==
    /\ upc["main"] = "lookup"
    /\ Goto("main", CASE account.uid = 0 -> "ok"
                      [] Chosen(account.subuid) = << >> \/ Chosen(account.subgid) = << >> -> "err"
                      [] OTHER -> "fork")
    /\ UNCHANGED <<account, writers, inNs, uidMap, gidMap>>

\* pipe() and fork(): both processes hold both ends.
Fork ==
    /\ upc["main"] = "fork"
    /\ \/ /\ upc' = [upc EXCEPT !["main"] = "unshare", !["child1"] = "close"]
          /\ writers' = {"main", "child1"}
       \/ Goto("main", "err") /\ UNCHANGED writers
    /\ UNCHANGED <<account, inNs, uidMap, gidMap>>

\* A failure of unshare returns at once, with the pipe still open.
Unshare ==
    /\ upc["main"] = "unshare"
    /\ \E ok \in BOOLEAN : inNs' = ok /\ Goto("main", IF ok THEN "close" ELSE "err")
    /\ UNCHANGED <<account, writers, uidMap, gidMap>>

MainCloses ==
    /\ upc["main"] = "close"
    /\ Goto("main", "wait") /\ writers' = writers \ {"main"}
    /\ UNCHANGED <<account, inNs, uidMap, gidMap>>

IsSuccess(how) == how = "exit 0"

MainWaits ==
    /\ upc["main"] = "wait" /\ upc["child1"] \in {"exit 0", "exit 1"}
    /\ Goto("main", IF IsSuccess(upc["child1"]) THEN "ok" ELSE "err")
    /\ UNCHANGED <<account, writers, inNs, uidMap, gidMap>>

\* Faulty variant of ChildCloses: the child keeps the write end.
ChildKeeps == UNCHANGED writers

\* The child must not hold the write end itself while it waits for everyone to close it.
ChildCloses == writers' = writers \ {"child1"}

Child1Closes ==
    /\ upc["child1"] = "close"
    /\ ChildCloses /\ Goto("child1", "read")
    /\ UNCHANGED <<account, inNs, uidMap, gidMap>>

Child1Reads ==
    /\ upc["child1"] = "read" /\ writers = {}
    /\ \/ upc' = [upc EXCEPT !["child1"] = "wait", !["child2"] = "exec"]
       \/ Goto("child1", "err")
    /\ UNCHANGED <<account, writers, inNs, uidMap, gidMap>>

\* newgidmap fails when the main process is not in a namespace of its own, or for reasons of its
\* own; a child whose exec fails returns the error from unshare_userns, in the child.
Child2Execs ==
    /\ upc["child2"] = "exec"
    /\ \/ /\ inNs /\ upc["main"] \notin {"err", "exit 1"}
          /\ gidMap' = MapOf(account.gid, Head(Chosen(account.subgid)))
          /\ Goto("child2", "exit 0")
       \/ Goto("child2", "exit 1") /\ UNCHANGED gidMap
       \/ Goto("child2", "err") /\ UNCHANGED gidMap
    /\ UNCHANGED <<account, writers, inNs, uidMap>>

Child1Waits ==
    /\ upc["child1"] = "wait" /\ upc["child2"] \in {"exit 0", "exit 1"}
    /\ Goto("child1", IF IsSuccess(upc["child2"]) THEN "exec" ELSE "err")
    /\ UNCHANGED <<account, writers, inNs, uidMap, gidMap>>

Child1Execs ==
    /\ upc["child1"] = "exec"
    /\ \/ /\ inNs /\ upc["main"] \notin {"err", "exit 1"}
          /\ uidMap' = MapOf(account.uid, Head(Chosen(account.subuid)))
          /\ Goto("child1", "exit 0")
       \/ Goto("child1", "exit 1") /\ UNCHANGED uidMap
    /\ UNCHANGED <<account, writers, inNs, gidMap>>

\* The callers pass the error on and exit, in whichever process it was returned.
CallerExits ==
    \E p \in Procs :
        /\ upc[p] = "err" /\ Over(p, "exit 1")
        /\ UNCHANGED <<account, inNs, uidMap, gidMap>>

UsernsNext ==
    \/ Lookup \/ Fork \/ Unshare \/ MainCloses \/ MainWaits \/ Child1Closes \/ Child1Reads
    \/ Child2Execs \/ Child1Waits \/ Child1Execs \/ CallerExits

-----------------------------------------------------------------------------
(* Properties *)

\* When unshare_new_userns succeeds for a user other than root, the process is in a namespace
\* where every id up to the length of the range is mapped, in both maps, each to an id that is
\* the user's own, and mapping it back gives the same id again.
IdsMapped ==
    upc["main"] = "ok" /\ account.uid # 0 =>
        LET Own(o, id, lines) ==
                \/ o = id
                \/ \E k \in DOMAIN lines : /\ lines[k].user \in {ById(account.uid), ByName(account.name)}
                                           /\ Holds(lines[k].start, lines[k].len, o)
            Good(map, id, lines) ==
                \A i \in 0..FullRange :
                    LET o == ToOuter(map, i) IN Own(o, id, lines) /\ ToInner(map, o) = i
        IN  /\ inNs
            /\ Good(uidMap, account.uid, account.subuid)
            /\ Good(gidMap, account.gid, account.subgid)

\* No process waits for ever for another one: all of them return or exit.
UsernsEnds ==
    <>(/\ upc["main"] \in {"none", "ok", "exit 1"}
       /\ upc["child1"] \in {"none", "exit 0", "exit 1"}
       /\ upc["child2"] \in {"none", "exit 0", "exit 1"})
=============================================================================
