------------------------------ MODULE Container ------------------------------
(***************************************************************************)
(* Running one command in an isolated container: what is mounted where     *)
(* (isolate_unshare_preexec's setup_isolation, or systemd-nspawn with the  *)
(* arguments isolate_nspawn gives it), and how the pid1 stub of the new    *)
(* pid namespace supervises the command, reaps the orphans that are        *)
(* reparented to it and reports the command's status to the caller.        *)
(*                                                                         *)
(* A path is a sequence of names and <<>> is the root.  A job is the       *)
(* IsolationContext (inputs, platform and outputs map a destination in the *)
(* container to its source on the host) together with the facts about the  *)
(* host and the layer that the code's branches ask for:                    *)
(*   present   the paths that exist in the layer                           *)
(*   link      destinations that are symlinks in the layer, with targets   *)
(*   sealed    the layer is itself a read-only subvolume                   *)
(*   host      the directories that exist on the host                      *)
(*   submount  host directories where another host filesystem is mounted   *)
(*   canonical host paths that are symlinks, with what they resolve to     *)
(*   orphans   how many processes the command leaves behind                *)
(***************************************************************************)
EXTENDS Integers, Sequences, FiniteSets, SequencesExt, FiniteSetsExt

VARIABLES
    cjob,       \* the isolation context and the host it meets
    mounts,     \* the mounts of the new mount namespace, oldest first
    made,       \* mountpoints created, each with the filesystem it was created in
    cpc,        \* what the pid1 stub is doing
    pid2,       \* the command: none, running, or how it ended
    orphans,    \* processes reparented to pid1: still running and zombies
    pending,    \* signals delivered to pid1 and not yet received by it
    termed,     \* SIGTERM was sent to pid1
    cstatus     \* what isolate_unshare_preexec's caller sees

containerVars == <<cjob, mounts, made, cpc, pid2, orphans, pending, termed, cstatus>>

\* Exit statuses: the command's own failure, pid1's for a signal that it saw itself, and pid1's
\* for a status without a code.
FailedCode == 3
Signaled == 128 + 9
NoCode == 254

-----------------------------------------------------------------------------
(* Mounts *)

\* A mount: where it is, the filesystem and the directory of it that it shows, and whether
\* writes through it are refused.
Mount(at, fs, dir, ro) == [at |-> at, fs |-> fs, dir |-> dir, ro |-> ro]

\* The mount that a path of the container leads to: the latest one on the way to it, since a
\* mount hides everything that was mounted below its mountpoint before.
Covering(ms, path) == ms[Max({i \in DOMAIN ms : IsPrefix(ms[i].at, path)})]

\* The file that a path of the container leads to.
Seen(ms, path) ==
    LET m == Covering(ms, path)
    IN  [fs |-> m.fs, dir |-> m.dir \o SubSeq(path, Len(m.at) + 1, Len(path))]

ExistsIn(job, ms, mk, path) ==
    LET s == Seen(ms, path)
    IN  \/ Covering(ms, path).at = path
        \/ s \in mk
        \/ s.fs \in {"layer", "upper"} /\ s.dir \in job.present
        \/ s.fs = "host" /\ s.dir \in job.host

\* The state of a set-up while it goes through its steps.
Building(m) == [ok |-> TRUE, ms |-> <<m>>, mk |-> {}]

\* create_dir_all of a mountpoint, or of the parents of a file and the file: what is missing is
\* created in the filesystem that is visible there, and fails when that is read-only.
CreateMountpoint(job, b, path) ==
    LET missing == {i \in 1..Len(path) : ~ExistsIn(job, b.ms, b.mk, SubSeq(path, 1, i))}
    IN  IF b.ok /\ \A i \in missing : ~Covering(b.ms, SubSeq(path, 1, i)).ro
        THEN [b EXCEPT !.mk = @ \cup {Seen(b.ms, SubSeq(path, 1, i)) : i \in missing}]
        ELSE [b EXCEPT !.ok = FALSE]

AddMounts(b, ms) == IF b.ok THEN [b EXCEPT !.ms = @ \o ms] ELSE b

\* BTreeMap and BTreeSet go through paths in order: a directory before what is in it.
InOrder(paths) == SetToSortSeq(paths, LAMBDA p, q : Len(p) < Len(q))

\* A path that is given alone is bound to itself.
IntoBinds(paths) == [p \in paths |-> p]

\* One bind mount to make.
Bind(dst, src, ro) == [dst |-> dst, src |-> src, ro |-> ro]

BindsOf(binds, ro) ==
    LET order == InOrder(DOMAIN binds)
    IN  [i \in 1..Len(order) |-> Bind(order[i], binds[order[i]], ro)]

\* What a path of the host leads to.
Canonicalize(job, path) == IF path \in DOMAIN job.canonical THEN job.canonical[path] ELSE path

\* The root of the container.  With `ephemeral` it is an overlay whose upper directory is on the
\* scratch tmpfs.  Otherwise the layer is bind-mounted: `readonly` adds MS_RDONLY to the flags of
\* that one mount call, and the kernel ignores it there.
RootMount(job) ==
    IF job.ephemeral THEN Mount(<<>>, "upper", <<>>, FALSE)
                     ELSE Mount(<<>>, "layer", <<>>, job.sealed)

\* A tmpfs; a devtmpfs also gets the device nodes of the host ("null" stands for them) and a
\* tmpfs on shm.
MountTmpfs(job, b, path) ==
    LET null == path \o <<"null">>
        shm  == path \o <<"shm">>
        own  == <<Mount(path, "tmpfs", path, FALSE)>>
        dev  == <<Mount(null, "host", <<"dev", "null">>, FALSE), Mount(shm, "tmpfs", shm, FALSE)>>
    IN  AddMounts(CreateMountpoint(job, b, path),
                  IF path \in job.devtmpfs THEN own \o dev ELSE own)

\* make_mount_readonly: mount_setattr with AT_RECURSIVE (not of the one mount only).
MakeReadonly(bound) == [i \in DOMAIN bound |-> [bound[i] EXCEPT !.ro = TRUE]]

\* A recursive bind mount: the directory and every filesystem mounted below it on the host.
BindRecursively(job, at, src) ==
    LET root == Canonicalize(job, src)
        subs == InOrder({s \in job.submount : IsStrictPrefix(root, s)})
    IN  <<Mount(at, "host", root, FALSE)>>
        \o [i \in 1..Len(subs) |->
               Mount(at \o SubSeq(subs[i], Len(root) + 1, Len(subs[i])), "host", subs[i], FALSE)]

\* One turn of the loop over inputs, platform and outputs.  A destination that is a symlink of
\* the layer is replaced by what the symlink says.
MountBind(job, b, bind) ==
    LET dst   == IF bind.dst \in DOMAIN job.link THEN job.link[bind.dst] ELSE bind.dst
        bound == BindRecursively(job, dst, bind.src)
    IN  IF Canonicalize(job, bind.src) \notin job.host THEN [b EXCEPT !.ok = FALSE]
        ELSE AddMounts(CreateMountpoint(job, b, dst), IF bind.ro THEN MakeReadonly(bound) ELSE bound)

\* Faulty variant of AllBinds: the outputs are bound first.
AllBindsOutputsFirst(job) ==
    BindsOf(job.outputs, FALSE) \o BindsOf(job.inputs, TRUE) \o BindsOf(job.platform, TRUE)

\* The order of the loop: inputs, then platform, then outputs.
AllBinds(job) ==
    BindsOf(job.inputs, TRUE) \o BindsOf(job.platform, TRUE) \o BindsOf(job.outputs, FALSE)

\* A tmpfs as the top layer of an overlay of a directory that must exist.
MountOverlay(job, b, path) ==
    IF b.ok /\ ExistsIn(job, b.ms, b.mk, path)
    THEN AddMounts(b, <<Mount(path, "overlay", path, FALSE)>>)
    ELSE [b EXCEPT !.ok = FALSE]

\* setup_isolation: the root, the tmpfses, the binds, the overlays, /proc, and then the change
\* into the working directory and to the user.
EnterRoot(job, b) == [b EXCEPT !.ok = @ /\ ExistsIn(job, b.ms, b.mk, job.cwd) /\ job.userKnown]
SetupIsolation(job) ==
    LET tmpfses  == FoldLeft(LAMBDA b, p : MountTmpfs(job, b, p), Building(RootMount(job)),
                             InOrder(job.tmpfs) \o InOrder(job.devtmpfs))
        binds    == FoldLeft(LAMBDA b, x : MountBind(job, b, x), tmpfses, AllBinds(job))
        overlays == FoldLeft(LAMBDA b, p : MountOverlay(job, b, p), binds, InOrder(job.overlays))
        proc     == AddMounts(CreateMountpoint(job, overlays, <<"proc">>),
                              <<Mount(<<"proc">>, "proc", <<>>, FALSE)>>)
    IN  EnterRoot(job, proc)

\* isolate_nspawn's bind_arg: a path that is bound to itself is canonicalized on both sides.
BindArg(job, bind) ==
    IF bind.dst = bind.src THEN [bind EXCEPT !.dst = Canonicalize(job, bind.dst)] ELSE bind

\* isolate_nspawn's nspawn: two settings it refuses, and the arguments it gives.
NspawnRefuses(job) ==
    \/ Cardinality(job.devtmpfs) > 1 /\ <<"dev">> \notin job.devtmpfs
    \/ job.overlays # {}

NspawnBinds(job) ==
    LET binds == BindsOf(job.platform, TRUE) \o BindsOf(job.inputs, TRUE) \o BindsOf(job.outputs, FALSE)
    IN  [i \in DOMAIN binds |-> BindArg(job, binds[i])]

\* What systemd-nspawn makes of them: the mounts sorted by destination, the root sealed last.
NspawnMounts(job) ==
    LET sorted == SortSeq(NspawnBinds(job), LAMBDA x, y : Len(x.dst) < Len(y.dst))
        tmpfses == FoldLeft(LAMBDA b, p : MountTmpfs(job, b, p), Building(RootMount(job)),
                            InOrder(job.tmpfs \cup {<<"dev">>}))
        binds  == FoldLeft(LAMBDA b, x : MountBind(job, b, x), tmpfses, sorted)
    IN  [binds EXCEPT !.ok = @ /\ ~NspawnRefuses(job), !.ms[1].ro = @ \/ job.readonly]

-----------------------------------------------------------------------------
(* pid1 *)

NoContainer == [backend |-> "none"]

ContainerInit(jobs) ==
    /\ cjob \in jobs
    /\ mounts = << >> /\ made = {}
    /\ cpc = IF cjob.backend = "none" THEN "idle" ELSE "setup"
    /\ pid2 = "none" /\ orphans = [running |-> 0, zombie |-> 0]
    /\ pending = {} /\ termed = FALSE /\ cstatus = -1

\* The caller's IsolatedContext::command: isolate_unshare's refuses every invocation type but
\* one, and registration, which only systemd-nspawn supports.
UnshareRefuses(job) == job.invocation # "Pid2Pipe" \/ job.register

\* do_main unshares the pid namespace and starts the stub, which sets its signal handlers up and
\* then the mounts; then it starts the command.  Any error of these ends with status 1.
StartOn(b) ==
    LET refused == cjob.backend = "unshare" /\ UnshareRefuses(cjob)
    IN  IF refused \/ ~b.ok
        THEN /\ cpc' = "exited" /\ cstatus' = 1
             /\ made' = IF refused THEN {} ELSE b.mk
             /\ UNCHANGED <<mounts, pid2>>
        ELSE /\ mounts' = b.ms /\ made' = b.mk
             /\ cpc' = IF cjob.backend = "unshare" THEN "select" ELSE "nspawn"
             /\ pid2' = IF cjob.backend = "unshare" THEN "running" ELSE pid2
             /\ UNCHANGED cstatus
Start ==
    /\ cpc = "setup"
    /\ StartOn(IF cjob.backend = "unshare" THEN SetupIsolation(cjob) ELSE NspawnMounts(cjob))
    /\ UNCHANGED <<cjob, orphans, pending, termed>>

\* std::process::exit of the stub: the kernel kills what is left in the pid namespace, and
\* do_main passes the status on.
ExitWith(code) ==
    /\ cpc' = "exited" /\ cstatus' = code
    /\ orphans' = [running |-> 0, zombie |-> 0]

\* The status that tokio's Child::wait and waitpid give for the way the command ended.
CodeOf(how) == CASE how = "succeeded" -> 0 [] how = "failed" -> FailedCode [] how = "killed" -> NoCode
ReapedCodeOf(how) == IF how = "killed" THEN Signaled ELSE CodeOf(how)

Ended == pid2 \in {"succeeded", "failed", "killed"}

\* select!: any branch that is ready.
SelectPid2 ==
    /\ cpc = "select" /\ Ended
    /\ ExitWith(CodeOf(pid2))
    /\ UNCHANGED <<cjob, mounts, made, pid2, pending, termed>>

SelectSigterm ==
    /\ cpc = "select" /\ "term" \in pending
    /\ ExitWith(0) /\ pending' = pending \ {"term"}
    /\ UNCHANGED <<cjob, mounts, made, pid2, termed>>

SelectSigchld ==
    /\ cpc = "select" /\ "chld" \in pending
    /\ cpc' = "reaping" /\ pending' = pending \ {"chld"}
    /\ UNCHANGED <<cjob, mounts, made, pid2, orphans, termed, cstatus>>

\* waitpid(-1) without WNOHANG, in a loop: it blocks until some child is a zombie, and it ends
\* when there is no child at all, which cannot be while the command is one.
ReapPid2 == ExitWith(ReapedCodeOf(pid2)) /\ UNCHANGED pid2

Reap ==
    /\ cpc = "reaping"
    /\ \/ Ended /\ ReapPid2
       \/ /\ orphans.zombie > 0
          /\ orphans' = [orphans EXCEPT !.zombie = @ - 1]
          /\ UNCHANGED <<pid2, cpc, cstatus>>
    /\ UNCHANGED <<cjob, mounts, made, pending, termed>>

\* The stub's loop, which nothing but its own blocking calls can hold up.
Pid1 == SelectPid2 \/ SelectSigterm \/ SelectSigchld \/ Reap

\* The command leaves a process behind, which is reparented to pid1.
Orphan ==
    /\ pid2 = "running" /\ cpc # "exited" /\ orphans.running + orphans.zombie < cjob.orphans
    /\ orphans' = [orphans EXCEPT !.running = @ + 1]
    /\ UNCHANGED <<cjob, mounts, made, cpc, pid2, pending, termed, cstatus>>

OrphanEnds ==
    /\ orphans.running > 0 /\ cpc # "exited"
    /\ orphans' = [running |-> orphans.running - 1, zombie |-> orphans.zombie + 1]
    /\ pending' = pending \cup {"chld"}
    /\ UNCHANGED <<cjob, mounts, made, cpc, pid2, termed, cstatus>>

\* The command ends: with success, with a failure, or killed by a signal.
CommandEnds ==
    /\ pid2 = "running" /\ cpc # "exited"
    /\ pid2' \in {"succeeded", "failed", "killed"}
    /\ pending' = pending \cup {"chld"}
    /\ UNCHANGED <<cjob, mounts, made, cpc, orphans, termed, cstatus>>

Terminate ==
    /\ cpc \in {"select", "reaping"} /\ cjob.mayTerm /\ ~termed
    /\ termed' = TRUE /\ pending' = pending \cup {"term"}
    /\ UNCHANGED <<cjob, mounts, made, cpc, pid2, orphans, cstatus>>

ContainerNext == Start \/ Pid1 \/ Orphan \/ OrphanEnds \/ CommandEnds \/ Terminate

-----------------------------------------------------------------------------
(* Properties *)

\* Where a destination of the job is in the container.
PlaceOf(d) ==
    IF cjob.backend = "nspawn" /\ d \in DOMAIN cjob.canonical THEN Canonicalize(cjob, d)
    ELSE IF d \in DOMAIN cjob.link THEN cjob.link[d] ELSE d

Overlaid(path) == \E o \in cjob.overlays \cup {<<"proc">>} : IsPrefix(o, path)

LeadsTo(path, src) == Seen(mounts, path) = [fs |-> "host", dir |-> Canonicalize(cjob, src)]

\* Whatever inputs, platform paths and outputs are nested in each other, an output's destination
\* leads to its own source and can be written, and an input's destination leads to its source
\* unless a platform path or an output was asked for at the same place or above it.
AskedIsSeen ==
    mounts # << >> =>
        /\ \A d \in DOMAIN cjob.outputs :
              LET at == PlaceOf(d)
              IN  Overlaid(at) \/ (LeadsTo(at, cjob.outputs[d]) /\ ~Covering(mounts, at).ro)
        /\ \A d \in DOMAIN cjob.inputs :
              LET at == PlaceOf(d)
              IN  \/ Overlaid(at) \/ LeadsTo(at, cjob.inputs[d])
                  \/ \E o \in DOMAIN cjob.outputs \cup DOMAIN cjob.platform : IsPrefix(PlaceOf(o), at)

\* Nothing in the container can change the host except inside the source of an output (and
\* through device nodes): not through an input, a platform path, or another filesystem mounted
\* below one on the host; and setting an ephemeral container up leaves the layer as it was.
HostProtected ==
    LET Offered(dir) == \/ \E o \in DOMAIN cjob.outputs : IsPrefix(Canonicalize(cjob, cjob.outputs[o]), dir)
                        \/ dir = <<"dev", "null">>
        Open(fs, dir) == CASE fs = "host" -> Offered(dir)
                           [] fs = "layer" -> ~cjob.ephemeral /\ ~cjob.sealed
                           [] OTHER -> TRUE
    IN  /\ \A i \in DOMAIN mounts : ~mounts[i].ro => Open(mounts[i].fs, mounts[i].dir)
        /\ \A m \in made : Open(m.fs, m.dir)

\* The caller sees the command's own status: success only when the command succeeded or pid1
\* was told to terminate, the command's code when it failed, and a failure when a signal killed
\* it or the container could not be set up.
StatusFaithful ==
    cpc = "exited" =>
        CASE cstatus = 0 -> pid2 = "succeeded" \/ termed
          [] cstatus = FailedCode -> pid2 = "failed"
          [] cstatus \in {Signaled, NoCode} -> pid2 = "killed"
          [] OTHER -> pid2 = "none"

\* The command's end is the container's: however many orphans are still running, pid1 exits.
CommandEndsContainer == Ended ~> cpc = "exited"
=============================================================================
