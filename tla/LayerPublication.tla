-------------------------- MODULE LayerPublication --------------------------
(***************************************************************************)
(* How builds publish btrfs subvolumes.  A build of a target makes a new   *)
(* subvolume in the working volume, fills and seals it, deletes the one    *)
(* its output symlink named before and links the output to the new one.    *)
(* `antlir2 compile' then collects old subvolumes.  Builds of different    *)
(* targets run concurrently; any of them may fail or be killed.            *)
(***************************************************************************)
EXTENDS Naturals, Sequences, FiniteSets

CONSTANTS
    Kind,       \* [targets -> {"compile", "receive", "send", "materialize"}]
    Dep,        \* [targets -> the target it is built from, or None]
    None,
    MaxBuilds,  \* bound on the number of builds
    MaxJobs,    \* how many of them Buck runs at a time
    MaxFaults,  \* bound on the number of failing system calls and kills
    Attempts    \* how often btrfs_send tries (11 in the code: once, and after each of 10 delays)

VARIABLES
    mode,       \* how the tools are started: under sudo, as root, as a user, or --rootless
    volume,     \* whether the working volume exists
    subvols,    \* [id -> subvolume] for those that exist
    tmpdirs,    \* temporary directories in the working volume, by the id of the subvolume made in them
    output,     \* the subvolume each target's output symlink names; it may be gone
    proc,       \* the running build of each target
    status,     \* how the last build of each target ended
    nextId, builds, faults, aged,
    collected   \* history: subvolumes deleted by garbage collection

vars == <<mode, volume, subvols, tmpdirs, output, proc, status, nextId, builds, faults, aged, collected>>

Targets == DOMAIN Kind

\* A package is made of a layer, and no target is built from itself.
ASSUME TargetsAssumption ==
    /\ IsFiniteSet(Targets)
    /\ Kind \in [Targets -> {"compile", "receive", "send", "materialize"}]
    /\ Dep \in [Targets -> Targets \cup {None}]
    /\ \A t \in Targets : Dep[t] # t /\ (Kind[t] = "send" => Dep[t] # None)
    /\ None \notin Targets \cup Nat \cup {"sendstream", "cas_dir", "tar"}

Modes == {"sudo", "root", "userns", "user"}

\* The steps of the four programs that make subvolumes, in the order of their code.
CompileStages == <<"ensure", "open", "create", "fill", "old", "delete", "seal", "unlink", "link", "gc", "collect">>
ReceiveStages == <<"ensure", "create", "fill", "move", "seal", "old", "delete", "unlink", "link">>
SendStages == <<"open", "create", "send", "ensure", "move", "old", "delete", "unlink", "link">>
MaterializeStages == <<"ensure", "old", "delete", "create", "fill", "link">>
Stages(kind) == [compile |-> CompileStages, receive |-> ReceiveStages, send |-> SendStages, materialize |-> MaterializeStages][kind]

Idle == [pc |-> 0, root |-> FALSE, guards |-> 0, dep |-> None, new |-> None, old |-> None, format |-> None, todo |-> {}, tries |-> 0]
At(t, stage) == proc[t].pc # 0 /\ Stages(Kind[t])[proc[t].pc] = stage
Running(t) == proc[t].pc # 0
Exists(id) == id \in DOMAIN subvols
Without(ids) == [i \in DOMAIN subvols \ ids |-> subvols[i]]

\* Rootless::init: under sudo the process becomes the calling user; escalate and the
\* guard it returns change the effective user, but a dropped guard restores the ids
\* of the user whatever the effective user was when the guard was made.
InitialRoot == mode = "root"
UsesGuards(t) == mode # "userns" /\ Kind[t] # "materialize"

\* Faulty variant of Escalate: the caller's user is kept.
EscalateForgotten(t, p) == p

Escalate(t, p) == IF UsesGuards(t) THEN [p EXCEPT !.root = TRUE, !.guards = @ + 1] ELSE p
DropGuard(t, p) == IF UsesGuards(t) THEN [p EXCEPT !.root = (mode # "sudo") /\ @, !.guards = @ - 1] ELSE p

Advance(p) == [p EXCEPT !.pc = @ + 1]
Step(t, p) == proc' = [proc EXCEPT ![t] = IF p.pc = Len(Stages(Kind[t])) THEN Idle ELSE Advance(p)]
Finish(t, p) == status' = IF p.pc = Len(Stages(Kind[t])) THEN [status EXCEPT ![t] = "ok"] ELSE status

\* A build returns an error.  A temporary directory is removed with what is in it, which
\* fails silently on a read-only subvolume and for a user who does not own it.
End(t, why) == /\ proc' = [proc EXCEPT ![t] = Idle]
               /\ status' = [status EXCEPT ![t] = why]
CanEmpty(t, id) == ~Exists(id) \/ ~subvols[id].tmp \/ (~subvols[id].ro /\ proc[t].root)
Fail(t, why) ==
    /\ End(t, why)
    /\ LET id == proc[t].new
           clean == id \in tmpdirs /\ CanEmpty(t, id)
       IN  /\ tmpdirs' = IF clean THEN tmpdirs \ {id} ELSE tmpdirs
           /\ subvols' = IF clean /\ Exists(id) /\ subvols[id].tmp THEN Without({id}) ELSE subvols
Fault(t) == faults < MaxFaults /\ faults' = faults + 1 /\ Fail(t, "fault")

\* Nothing has been built, or every target has.
Numbering == CHOOSE f \in [Targets -> 1..Cardinality(Targets)] : \A t, u \in Targets : f[t] = f[u] => t = u
Published(t) == [of |-> t, data |-> "full", ro |-> Kind[t] # "materialize", birth |-> "recent", tmp |-> FALSE]
InitBuilt(ts) ==
    /\ volume = (ts # {})
    /\ subvols = [i \in {Numbering[t] : t \in ts} |-> Published(CHOOSE t \in ts : Numbering[t] = i)]
    /\ output = [t \in Targets |-> IF t \in ts THEN Numbering[t] ELSE None]
    /\ status = [t \in Targets |-> IF t \in ts THEN "ok" ELSE "none"]
    /\ nextId = Cardinality(ts) + 1
Init ==
    /\ mode \in Modes
    /\ InitBuilt({}) \/ InitBuilt(Targets)
    /\ tmpdirs = {} /\ proc = [t \in Targets |-> Idle]
    /\ builds = 0 /\ faults = 0 /\ aged = FALSE /\ collected = {}

\* Buck builds a target when what it depends on is built, and does not run builds of a
\* target and of its dependency, or two of one target, at the same time.  It removes the
\* output first, except where no_outputs_cleanup keeps it.
BuckStarts(t) ==
    /\ ~Running(t) /\ builds < MaxBuilds /\ Cardinality({u \in Targets : Running(u)}) < MaxJobs
    /\ mode = "userns" => Kind[t] # "send"
    /\ Dep[t] # None => status[Dep[t]] = "ok" /\ ~Running(Dep[t])
    /\ \A u \in Targets : Dep[u] = t => ~Running(u)
    /\ \E format \in IF Kind[t] = "receive" THEN {"sendstream", "cas_dir", "tar"} ELSE {None} :
         proc' = [proc EXCEPT ![t] = [Idle EXCEPT !.pc = 1, !.format = format,
                    !.root = IF mode = "userns" THEN Kind[t] \in {"compile", "receive"} ELSE InitialRoot]]
    /\ builds' = builds + 1
    /\ output' = IF Kind[t] = "materialize" THEN [output EXCEPT ![t] = None] ELSE output
    /\ UNCHANGED <<mode, volume, subvols, tmpdirs, status, nextId, faults, aged, collected>>

\* WorkingVolume::ensure: adding the redirection holds a lock, and creating a directory
\* that another build has just created is no error.
Ensure(t) ==
    /\ At(t, "ensure")
    /\ \/ volume' = TRUE /\ Step(t, proc[t]) /\ UNCHANGED <<faults, status, subvols, tmpdirs>>
       \/ Fault(t) /\ UNCHANGED volume
    /\ UNCHANGED <<mode, output, nextId, builds, aged, collected>>

\* Subvolume::open of the layer to build from, through its output symlink.  compile
\* escalates before this, twice: in run and in create_new_layer.
OpenDep(t) ==
    /\ At(t, "open")
    /\ LET p == IF Kind[t] = "compile" THEN Escalate(t, Escalate(t, proc[t])) ELSE proc[t]
           dep == IF Dep[t] = None THEN None ELSE output[Dep[t]]
       IN  IF Kind[t] = "compile" /\ mode = "user"
           THEN Fail(t, "escalate")
           ELSE IF dep # None /\ ~Exists(dep)
           THEN Fail(t, "parent gone")
           ELSE Step(t, [p EXCEPT !.dep = dep]) /\ UNCHANGED <<status, subvols, tmpdirs>>
    /\ UNCHANGED <<mode, volume, output, nextId, builds, faults, aged, collected>>

\* Subvolume::create or Subvolume::snapshot to a newly allocated path.  A snapshot takes
\* the creation time of its source's root directory with it.  `btrfs receive' and
\* btrfs_send work in a temporary directory.
NewSubvol(t, source) ==
    [of |-> t, data |-> IF Kind[t] = "send" THEN subvols[source].data ELSE "partial", ro |-> Kind[t] = "send",
     birth |-> IF source = None THEN "recent" ELSE subvols[source].birth,
     tmp |-> Kind[t] = "send" \/ proc[t].format = "sendstream"]
Create(t) ==
    /\ At(t, "create")
    /\ LET source == proc[t].dep
           p == IF Kind[t] \in {"send", "receive"} THEN Escalate(t, proc[t]) ELSE proc[t]
           q == [(IF Kind[t] \in {"send", "compile"} THEN DropGuard(t, p) ELSE p) EXCEPT !.new = nextId]
           inTmp == Kind[t] = "send" \/ proc[t].format = "sendstream"
       IN  \/ /\ Kind[t] \in {"send", "receive"} /\ mode = "user"
              /\ Fail(t, "escalate") /\ UNCHANGED <<nextId, faults>>
           \/ /\ Kind[t] \in {"compile", "materialize"} \/ mode # "user"
              /\ IF source # None /\ ~Exists(source)
                 THEN Fail(t, "parent gone") /\ UNCHANGED nextId
                 ELSE IF Kind[t] # "materialize" /\ ~p.root
                 THEN Fail(t, "not root") /\ UNCHANGED nextId
                 ELSE /\ Step(t, q)
                      /\ subvols' = [i \in DOMAIN subvols \cup {nextId} |->
                                     IF i = nextId THEN NewSubvol(t, source) ELSE subvols[i]]
                      /\ tmpdirs' = IF inTmp THEN tmpdirs \cup {nextId} ELSE tmpdirs
                      /\ nextId' = nextId + 1
                      /\ UNCHANGED status
              /\ UNCHANGED faults
           \/ Fault(t) /\ UNCHANGED nextId
    /\ UNCHANGED <<mode, volume, output, builds, aged, collected>>

\* Compiling the features, `btrfs receive', CasDir::hydrate_into, unpacking a tar or
\* copying the overlay.  compile first drops its outer guard, reads the plans and
\* escalates again.  A subvolume collected meanwhile cannot be written.
Fill(t) ==
    /\ At(t, "fill")
    /\ LET id == proc[t].new
           reads == IF Kind[t] = "compile" THEN DropGuard(t, proc[t]) ELSE proc[t]
           p == IF Kind[t] = "compile" THEN Escalate(t, reads) ELSE reads
           q == IF Kind[t] = "compile" THEN DropGuard(t, p) ELSE p
       IN  \/ /\ IF ~Exists(id) THEN Fail(t, "collected")
                 ELSE IF ~p.root /\ Kind[t] = "compile" THEN Fail(t, "not root")
                 ELSE /\ subvols' = [subvols EXCEPT ![id].data = "full", ![id].ro = proc[t].format = "sendstream"]
                      /\ Step(t, q) /\ UNCHANGED <<status, tmpdirs>>
              /\ UNCHANGED faults
           \/ Fault(t)
    /\ UNCHANGED <<mode, volume, output, nextId, builds, aged, collected>>

\* btrfs send | sendstream-upgrade, tried again a number of times with a new file.
Send(t) ==
    /\ At(t, "send")
    /\ \/ Step(t, proc[t]) /\ UNCHANGED <<status, faults, subvols, tmpdirs>>
       \/ /\ faults < MaxFaults
          /\ IF proc[t].tries + 1 < Attempts
             THEN /\ proc' = [proc EXCEPT ![t].tries = @ + 1]
                  /\ UNCHANGED <<status, faults, subvols, tmpdirs>>
             ELSE Fault(t)
    /\ UNCHANGED <<mode, volume, output, nextId, builds, aged, collected>>

\* Faulty variant of SealedOnMove: a package stays writable.
SealedOnMoveNever(t) == FALSE

\* A subvolume made in a temporary directory is made writable and moved to its place; a
\* package is sealed at once.  Either call may fail, and leaves the subvolume where it is.
SealedOnMove(t) == Kind[t] = "send"
Move(t) ==
    /\ At(t, "move")
    /\ LET id == proc[t].new
           rw == [subvols EXCEPT ![id].ro = FALSE]
           moved == [rw EXCEPT ![id].tmp = FALSE, ![id].ro = SealedOnMove(t)]
           gone == Kind[t] # "send"
       IN  \/ /\ proc[t].format \in {"sendstream", None}
              /\ subvols' = moved /\ tmpdirs' = IF gone THEN tmpdirs \ {id} ELSE tmpdirs
              /\ Step(t, proc[t]) /\ UNCHANGED <<status, faults>>
           \/ /\ proc[t].format \in {"cas_dir", "tar"}
              /\ Step(t, proc[t]) /\ UNCHANGED <<status, faults, subvols, tmpdirs>>
           \/ /\ faults < MaxFaults /\ faults' = faults + 1 /\ proc[t].format \in {"sendstream", None}
              /\ End(t, "fault")
              /\ \/ /\ subvols' = IF proc[t].root THEN Without({id}) ELSE rw
                    /\ tmpdirs' = IF proc[t].root THEN tmpdirs \ {id} ELSE tmpdirs
                 \/ subvols' = subvols /\ UNCHANGED tmpdirs
                 \/ subvols' = [rw EXCEPT ![id].tmp = FALSE] /\ tmpdirs' = tmpdirs \ {id}
    /\ UNCHANGED <<mode, volume, output, nextId, builds, aged, collected>>

\* set_readonly(true) on the new subvolume.  The handle still works on a deleted one, or not.
Seal(t) ==
    /\ At(t, "seal")
    /\ LET id == proc[t].new
           q == IF Kind[t] = "compile" THEN DropGuard(t, proc[t]) ELSE proc[t]
       IN  \/ /\ proc[t].root
              /\ subvols' = IF Exists(id) THEN [subvols EXCEPT ![id].ro = TRUE] ELSE subvols
              /\ Step(t, q) /\ UNCHANGED <<status, faults, tmpdirs>>
           \/ ~proc[t].root /\ Fail(t, "not root") /\ UNCHANGED faults
           \/ proc[t].root /\ ~Exists(id) /\ Fail(t, "collected") /\ UNCHANGED faults
           \/ Fault(t)
    /\ UNCHANGED <<mode, volume, output, nextId, builds, aged, collected>>

\* Faulty variant of Previous: the previous subvolume is not looked for.
PreviousNever(t) == None

\* If the output exists, Subvolume::open of the previous subvolume; an error is only logged.
Previous(t) == IF output[t] # None /\ Exists(output[t]) THEN output[t] ELSE None
OpenOld(t) ==
    /\ At(t, "old")
    /\ LET p == IF Kind[t] = "compile" THEN Escalate(t, proc[t]) ELSE proc[t]
       IN  \/ /\ Step(t, [p EXCEPT !.old = Previous(t)])
              /\ UNCHANGED faults
           \/ /\ faults < MaxFaults /\ faults' = faults + 1
              /\ Step(t, [p EXCEPT !.old = None])
    /\ UNCHANGED <<mode, volume, subvols, tmpdirs, output, status, nextId, builds, aged, collected>>

\* Subvolume::delete of the previous subvolume.  When it fails compile makes it writable
\* and removes what is in it, as far as it can; the others only log.
Gutted(id) == {subvols, [subvols EXCEPT ![id].ro = FALSE], [subvols EXCEPT ![id].ro = FALSE, ![id].data = "gutted"], Without({id})}
DeleteOld(t) ==
    /\ At(t, "delete")
    /\ LET id == proc[t].old
           p == IF Kind[t] = "send" THEN Escalate(t, proc[t]) ELSE proc[t]
           done == CASE Kind[t] = "send" -> DropGuard(t, p)
                     [] Kind[t] = "receive" -> DropGuard(t, p)
                     [] OTHER -> p
           entered == IF Kind[t] = "materialize" THEN [done EXCEPT !.root = TRUE] ELSE done
       IN  /\ Step(t, [entered EXCEPT !.old = None])
           /\ \/ id = None /\ UNCHANGED <<subvols, faults>>
              \/ id # None /\ p.root /\ subvols' = Without({id}) /\ UNCHANGED faults
              \/ /\ id # None /\ faults < MaxFaults /\ faults' = faults + 1
                 /\ subvols' \in IF Exists(id) /\ Kind[t] = "compile" THEN Gutted(id) ELSE {subvols}
    /\ UNCHANGED <<mode, volume, tmpdirs, output, status, nextId, builds, aged, collected>>

\* remove_file of the output symlink, then symlink to the new subvolume.
Unlink(t) ==
    /\ At(t, "unlink")
    /\ output' = [output EXCEPT ![t] = None]
    /\ Step(t, proc[t])
    /\ UNCHANGED <<mode, volume, subvols, tmpdirs, status, nextId, builds, faults, aged, collected>>
LinkOutput(t) ==
    /\ At(t, "link")
    /\ \/ /\ output' = [output EXCEPT ![t] = proc[t].new]
          /\ Step(t, proc[t]) /\ Finish(t, proc[t])
          /\ tmpdirs' = tmpdirs \ {proc[t].new}
          /\ UNCHANGED <<faults, subvols>>
       \/ Fault(t) /\ UNCHANGED output
    /\ UNCHANGED <<mode, volume, nextId, builds, aged, collected>>

\* garbage_collect_old_subvols: the directory is listed, then each entry is looked at.
Entries == {<<"subvol", i>> : i \in {i \in DOMAIN subvols : ~subvols[i].tmp}} \cup {<<"tmp", i>> : i \in tmpdirs}
BeginGc(t) ==
    /\ At(t, "gc")
    /\ Step(t, [Escalate(t, proc[t]) EXCEPT !.todo = Entries])
    /\ UNCHANGED <<mode, volume, subvols, tmpdirs, output, status, nextId, builds, faults, aged, collected>>

\* Faulty variant of Collectable: the age does not matter.
CollectableAtAnyAge(id) == Exists(id) /\ ~subvols[id].tmp

Collectable(id) == Exists(id) /\ ~subvols[id].tmp /\ subvols[id].birth = "old"
\* The entries at which something happens: old subvolumes, and entries that have vanished.
Pending(t) == {e \in proc[t].todo : e \notin Entries \/ (e[1] = "subvol" /\ Collectable(e[2]))}
Collect(t) ==
    /\ At(t, "collect")
    /\ \E e \in Pending(t) :
         LET gone == e \notin Entries
         IN  \* a vanished entry ends the collection, or is not listed any more
             /\ \/ proc' = [proc EXCEPT ![t].todo = @ \ {e}]
                \/ gone /\ proc' = [proc EXCEPT ![t].todo = {}]
             /\ \/ ~gone /\ subvols' = Without({e[2]}) /\ collected' = collected \cup {e[2]} /\ UNCHANGED faults
                \/ ~gone /\ faults < MaxFaults /\ faults' = faults + 1 /\ UNCHANGED <<subvols, collected>>
                \/ gone /\ UNCHANGED <<subvols, collected, faults>>
    /\ UNCHANGED <<mode, volume, tmpdirs, output, status, nextId, builds, aged>>
EndGc(t) ==
    /\ At(t, "collect") /\ Pending(t) = {}
    /\ Step(t, DropGuard(t, proc[t])) /\ Finish(t, proc[t])
    /\ UNCHANGED <<mode, volume, subvols, tmpdirs, output, nextId, builds, faults, aged, collected>>

\* The machine stops, or the build is killed: nothing is cleaned up.
Kill(t) ==
    /\ Running(t) /\ faults < MaxFaults /\ faults' = faults + 1
    /\ End(t, "killed")
    /\ UNCHANGED <<mode, volume, subvols, tmpdirs, output, nextId, builds, aged, collected>>

\* AGE_THRESHOLD: fourteen days pass in which nothing is built.
TimePasses ==
    /\ ~aged /\ \A t \in Targets : ~Running(t)
    /\ aged' = TRUE
    /\ subvols' = [i \in DOMAIN subvols |-> [subvols[i] EXCEPT !.birth = "old"]]
    /\ UNCHANGED <<mode, volume, tmpdirs, output, proc, status, nextId, builds, faults, collected>>

BuildStep(t) == \/ BuckStarts(t) \/ Ensure(t) \/ OpenDep(t) \/ Create(t) \/ Fill(t) \/ Send(t) \/ Move(t) \/ Seal(t)
                \/ OpenOld(t) \/ DeleteOld(t) \/ Unlink(t) \/ LinkOutput(t) \/ BeginGc(t) \/ Collect(t) \/ EndGc(t)
                \/ Kill(t)
Next == TimePasses \/ \E t \in Targets : BuildStep(t)
Spec == Init /\ [][Next]_vars

-----------------------------------------------------------------------------
Quiet == \A t \in Targets : ~Running(t)
Whole(t, id) == /\ subvols[id].of = t /\ subvols[id].data = "full" /\ ~subvols[id].tmp
                /\ subvols[id].ro \/ Kind[t] = "materialize"
Named == {output[t] : t \in Targets}

TypeOK ==
    /\ mode \in Modes /\ volume \in BOOLEAN /\ DOMAIN subvols \subseteq 1..(nextId - 1)
    /\ \A i \in DOMAIN subvols : subvols[i].data \in {"partial", "full", "gutted"} /\ subvols[i].birth \in {"recent", "old"}
    /\ output \in [Targets -> {None} \cup 1..(nextId - 1)]
    /\ \A t \in Targets : proc[t].pc \in 0..Len(Stages(Kind[t])) /\ proc[t].guards \in 0..2

\* An output symlink names a complete, sealed subvolume of its own target.  What it names
\* is gone or damaged only while the target is built again, after a build that failed or
\* was killed, or because garbage collection deleted it.
OutputsAreWhole ==
    \A t \in Targets : output[t] # None =>
        \/ Exists(output[t]) /\ Whole(t, output[t])
        \/ output[t] \in collected
        \/ Running(t)
        \/ status[t] # "ok"

\* In every state between the steps of the builds and the garbage collector, the store
\* has its type and what is published is whole (Compile::run, btrfs_send, gc).
StoreIsSound == TypeOK /\ OutputsAreWhole

\* A failing system call or a killed build leaves at most one subvolume behind that no
\* output names, and nothing else does; but materialize-to-subvol never finds its previous
\* output, which Buck has removed, and leaves that subvolume behind on every rebuild.
Left == {i \in DOMAIN subvols \ Named : Kind[subvols[i].of] # "materialize"}
OnlyFailuresLeak == Quiet => Cardinality(Left) + Cardinality(tmpdirs \ Left) <= faults

\* A recent subvolume is deleted only by a step of its own target's build (no other build
\* moves in that step), and while no build runs that is made from that target: neither
\* deleting the previous output nor garbage_collect_old_subvols takes from a concurrent
\* build the recent subvolume it works on or builds from.
OwnersStep(i) ==
    \A u \in Targets \ {subvols[i].of} : proc'[u] = proc[u] /\ (Dep[u] = subvols[i].of => ~Running(u))
DeletesOwnOrOld ==
    [][\A i \in DOMAIN subvols \ DOMAIN subvols' : subvols[i].birth = "old" \/ OwnersStep(i)]_vars

\* Builds fail for a failing system call, because they are neither root nor under sudo, or
\* because garbage collection deleted the layer they build from or the new subvolume; never
\* because a privileged call is made without root.
FailsOnlyFor ==
    [][\A t \in Targets : status'[t] # status[t] =>
        CASE status'[t] = "escalate" -> mode = "user"
          [] status'[t] = "parent gone" -> (IF proc[t].dep # None THEN proc[t].dep ELSE output[Dep[t]]) \in collected
          [] status'[t] = "collected" -> proc[t].new \in collected
          [] OTHER -> status'[t] # "not root"]_vars
=============================================================================
