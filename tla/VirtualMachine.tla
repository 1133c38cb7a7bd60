---------------------------- MODULE VirtualMachine ----------------------------
(***************************************************************************)
(* antlir2_vm: one invocation of the tool.  `isolate` and `test` respawn   *)
(* the tool inside a container with the arguments for `run`; `run` sets    *)
(* the VM's devices up, boots it (twice, when there is a first boot        *)
(* command), waits for it over the notify socket while a thread runs a     *)
(* command in the guest over ssh, and turns the outcome into its result.   *)
(*                                                                         *)
(* QEMU, the guest, the ssh thread, the sidecar services and the clock     *)
(* take steps of their own.  A job is the command line (flags and command  *)
(* words, a flag's value being part of it), the machine's disks and        *)
(* shares, and whether it has sidecar services.                            *)
(***************************************************************************)
EXTENDS Integers, Sequences, FiniteSets, SequencesExt, FiniteSetsExt

CONSTANTS
    DEVICE_PER_BRIDGE,  \* devices on one PCI bridge (32)
    MaxChassis          \* the largest chassis id (255)

VARIABLES
    vjob,       \* the command line and the machine
    margs,      \* the arguments as `run` sees them
    machine,    \* the devices of the VM
    vpc,        \* where the main thread is
    boot,       \* which boot this is, 1 or 2
    qemu,       \* the QEMU process of this boot
    notify,     \* the boot whose QEMU created the notify file; 0 when there is none
    cmd,        \* the command that the main thread waits for
    late,       \* the timeout has passed
    sidecar,    \* the sidecar services: none, running, ended
    done,       \* what has succeeded: the command and the boot
    vfail,      \* the VMError that VM::run returned
    vresult     \* what the tool returns

vmVars == <<vjob, margs, machine, vpc, boot, qemu, notify, cmd, late, sidecar, done, vfail, vresult>>

-----------------------------------------------------------------------------
(* The command line *)

\* VMArgs::to_args writes the flags in this order and the command's words last.
FlagOrder == <<"timeout-secs", "console-output-file", "eth0-output-file", "command-envs",
               "first-boot-command", "output-dirs", "console", "container">>
Flags == ToSet(FlagOrder)

ToArgs(a) == SelectSeq(FlagOrder, LAMBDA f : f \in a.flags) \o a.cmd

\* clap: options up to the first word that is none; from there on everything is the command.
Parsed(words) ==
    LET n == Max({k \in 0..Len(words) : \A i \in 1..k : words[i] \in Flags})
    IN  [flags |-> ToSet(SubSeq(words, 1, n)), cmd |-> SubSeq(words, n + 1, Len(words))]

\* VMModeArgs is a group of which one may be given.
Modes(a) == (a.flags \cap {"console", "container"}) \cup (IF a.cmd = << >> THEN {} ELSE {"command"})
Mode(a) == IF Modes(a) = {} THEN "shell" ELSE CHOOSE m \in Modes(a) : TRUE

TestTypes == {"custom", "rust"}
ListsTests(words) == words[1] = "rust" /\ "--list" \in ToSet(words)

\* What get_test_vm_args refuses.
BadTest(a) ==
    \/ "timeout-secs" \notin a.flags \/ "output-dirs" \in a.flags
    \/ a.cmd = << >> \/ a.cmd[1] \notin TestTypes

\* respawn always captures the console, except in console mode; the artifacts directory of the
\* test runner decides for get_test_vm_args.
ForRespawn(a) ==
    [a EXCEPT !.flags = @ \cup (IF "console" \in @ THEN {} ELSE {"console-output-file"})]
ForTest(a, artifacts) ==
    [flags |-> (a.flags \ {"console-output-file"})
               \cup (IF artifacts THEN {"console-output-file"} ELSE {}),
     cmd   |-> Tail(a.cmd)]

-----------------------------------------------------------------------------
(* Devices *)

\* As many bridges as hold that many disks.
NumBridges(n) == (n + DEVICE_PER_BRIDGE - 1) \div DEVICE_PER_BRIDGE

\* PCIBridges::new gives bridge i the chassis i + 1, which must fit.
BridgesFit(n) == NumBridges(n) <= MaxChassis
BridgeOf(disk) == disk \div DEVICE_PER_BRIDGE

\* get_all_shares_opts: the platform's paths read-only, then the outputs.
AllShares(job) ==
    LET Opts(paths, ro) == [i \in 1..Cardinality(paths) |-> [path |-> SetToSeq(paths)[i], ro |-> ro]]
    IN  Opts(job.platform, TRUE) \o Opts(job.outputs, FALSE)

\* generate_unit_files: a share's unit file is named after its path and written over an earlier
\* one; it mounts the share's tag, which is numbered.
UnitFiles(shares) ==
    [p \in {shares[i].path : i \in DOMAIN shares} |->
        LET last == Max({i \in DOMAIN shares : shares[i].path = p})
        IN  [tag |-> last, ro |-> shares[last].ro]]

NoMachine == [disks |-> << >>, bridges |-> 0, shares |-> << >>, units |-> << >>]

MachineOf(job) ==
    [disks   |-> [d \in 1..job.disks |-> BridgeOf(d - 1)],
     bridges |-> NumBridges(job.disks),
     shares  |-> AllShares(job),
     units   |-> UnitFiles(AllShares(job))]

-----------------------------------------------------------------------------
(* The tool *)

NoVm == [entry |-> "none", flags |-> {}, cmd |-> << >>]
NoCommand == [what |-> "none", status |-> "none"]

VmInit(jobs) ==
    /\ vjob \in jobs
    /\ margs = [flags |-> {}, cmd |-> << >>, expectFailure |-> FALSE, postmortem |-> FALSE]
    /\ machine = NoMachine
    /\ vpc = IF vjob.entry = "none" THEN "idle" ELSE "enter"
    /\ boot = 1 /\ qemu = "none" /\ notify = 0 /\ cmd = NoCommand
    /\ late = FALSE /\ sidecar = "none" /\ done = {} /\ vfail = "none" /\ vresult = "none"

Closed == qemu \in {"closing", "off"}
TimedOut == late

Return(result) == vpc' = "returned" /\ vresult' = result

\* `run` is called with the arguments; `isolate` and `test` parse them again from the words that
\* the outer process wrote, and only `test` passes the two flags of `run` itself on.
Enter ==
    /\ vpc = "enter"
    /\ LET given   == [flags |-> vjob.flags, cmd |-> vjob.cmd]
           passed  == CASE vjob.entry = "run" -> given
                        [] vjob.entry = "isolate" -> Parsed(ToArgs(ForRespawn(given)))
                        [] OTHER -> IF BadTest(given) THEN given
                                    ELSE Parsed(ToArgs(ForTest(given, vjob.artifacts)))
           forward == vjob.entry # "isolate"
       IN  /\ margs' = [flags |-> passed.flags, cmd |-> passed.cmd,
                        expectFailure |-> forward /\ vjob.expectFailure,
                        postmortem |-> forward /\ vjob.postmortem]
           /\ IF \/ Cardinality(Modes(given)) > 1 \/ Cardinality(Modes(passed)) > 1
                 \/ vjob.entry = "test" /\ BadTest(given)
              THEN Return("error")
              ELSE /\ vpc' = IF vjob.entry = "test" /\ ListsTests(given.cmd) THEN "list" ELSE "prepare"
                   /\ UNCHANGED vresult
    /\ UNCHANGED <<vjob, machine, boot, qemu, notify, cmd, late, sidecar, done, vfail>>

\* Listing tests needs no VM: the command runs in the container.
ListTests ==
    /\ vpc = "list"
    /\ \E ok \in BOOLEAN : Return(IF ok THEN "ok" ELSE "error")
    /\ UNCHANGED <<vjob, margs, machine, boot, qemu, notify, cmd, late, sidecar, done, vfail>>

\* The checks at the start of `run`, VM::new and the sidecar services.  Making the devices (disk
\* images, units, interfaces, the TPM) may fail, which no expected failure covers.
CannotRun ==
    \/ margs.postmortem /\ ("console-output-file" \notin margs.flags \/ margs.cmd = << >>)
    \/ ~BridgesFit(vjob.disks) \/ AllShares(vjob) = << >>
    \/ vjob.devicesFail

Prepare ==
    /\ vpc = "prepare"
    /\ IF CannotRun THEN Return("error") /\ UNCHANGED <<machine, sidecar>>
       ELSE /\ machine' = MachineOf(vjob)
            /\ sidecar' = IF vjob.sidecars THEN "running" ELSE "none"
            /\ vpc' = "spawn" /\ UNCHANGED vresult
    /\ UNCHANGED <<vjob, margs, boot, qemu, notify, cmd, late, done, vfail>>

LastBoot == boot = 2 \/ "first-boot-command" \notin margs.flags

\* What `run` of main.rs makes of VM::run's result.
AllowedFailures == {"boot", "early", "ssh", "run"}

Judged(failure) ==
    IF failure = "none" THEN ~margs.expectFailure
    ELSE margs.expectFailure /\ failure \in AllowedFailures

VmReturns(failure) ==
    /\ vfail' = failure
    /\ IF ~Judged(failure) THEN Return("error")
       ELSE IF margs.postmortem THEN vpc' = "postmortem" /\ UNCHANGED vresult
       ELSE Return("ok")

Goes(where) == vpc' = where /\ UNCHANGED <<vfail, vresult>>

\* The command that the main thread runs in a thread of its own and waits for.
Runs(what) == cmd' = [what |-> what, status |-> "running"]
GuestCommand == IF boot = 1 /\ ~LastBoot THEN "first" ELSE IF margs.postmortem THEN "stub" ELSE "command"

\* The shares' daemons, the console's file or QEMU may fail to come up, and the key for ssh after.
SpawnVm ==
    /\ vpc = "spawn"
    /\ \/ qemu' = "starting" /\ Goes("notify")
       \/ qemu' \in {qemu, "starting"} /\ VmReturns("spawn")
    /\ UNCHANGED <<vjob, margs, machine, boot, notify, cmd, late, sidecar, done>>

\* The loop that waits for the notify file.
AwaitNotify ==
    /\ vpc = "notify"
    /\ CASE TimedOut -> VmReturns("timeout")
         [] ~TimedOut /\ notify # 0 -> Goes("connect")
         [] ~TimedOut /\ notify = 0 -> qemu = "off" /\ VmReturns("early")
    /\ UNCHANGED <<vjob, margs, machine, boot, qemu, notify, cmd, late, sidecar, done>>

\* Connecting makes QEMU start the guest; nobody accepts when the file is not this QEMU's.
Connect ==
    /\ vpc = "connect"
    /\ CASE sidecar = "ended" -> VmReturns("sidecar") /\ UNCHANGED <<qemu, cmd>>
         [] sidecar # "ended" /\ ~(notify = boot /\ qemu = "listening") ->
                VmReturns("boot") /\ UNCHANGED <<qemu, cmd>>
         [] OTHER -> /\ qemu' = "booting"
                     /\ IF Mode(margs) = "container" THEN Goes("poll") /\ Runs("bash")
                        ELSE Goes("settimeout") /\ UNCHANGED cmd
    /\ UNCHANGED <<vjob, margs, machine, boot, notify, late, sidecar, done>>

ReadTimeout == "timeout-secs" \in margs.flags /\ late

SetReadTimeout ==
    /\ vpc = "settimeout"
    /\ IF TimedOut THEN VmReturns("timeout") ELSE Goes("read")
    /\ UNCHANGED <<vjob, margs, machine, boot, qemu, notify, cmd, late, sidecar, done>>

\* read_line returns with the guest's message, or with nothing when the socket is closed (which
\* is not an error), or fails with the read timeout.
ReadBootEvent ==
    /\ vpc = "read"
    /\ \/ /\ qemu = "up" \/ Closed
          /\ IF sidecar = "ended" THEN VmReturns("sidecar") /\ UNCHANGED cmd
             ELSE Goes("poll") /\ Runs(IF Mode(margs) = "console" THEN "console" ELSE GuestCommand)
       \/ /\ qemu # "up" /\ ~Closed /\ ReadTimeout
          /\ VmReturns("boot") /\ UNCHANGED cmd
    /\ UNCHANGED <<vjob, margs, machine, boot, qemu, notify, late, sidecar, done>>

\* cleanup_vm: nothing to do before the tool exits; otherwise the VM is powered off if it runs.
Cleanup ==
    CASE LastBoot -> VmReturns("none") /\ UNCHANGED cmd
      [] ~LastBoot /\ qemu = "off" -> Goes("close") /\ UNCHANGED cmd
      [] OTHER -> Goes("poll") /\ Runs("poweroff")

\* "We care about exit code only if we are running a command".
BadStatus(status) == Mode(margs) = "command" /\ status = "failed"

\* After a poweroff its status does not matter: the process must exit.
AfterPoweroff == "exit"

CommandReturned ==
    CASE cmd.status = "not started" -> VmReturns("run") /\ UNCHANGED cmd
      [] cmd.status # "not started" /\ cmd.what = "poweroff" -> Goes(AfterPoweroff) /\ UNCHANGED cmd
      [] cmd.status # "not started" /\ cmd.what \in {"first", "stub", "command"} /\ BadStatus(cmd.status) ->
             VmReturns("ssh") /\ UNCHANGED cmd
      [] OTHER -> Cleanup

\* wait_for_timeout: the time, then the thread, then the socket, again and again.
Poll ==
    /\ vpc = "poll"
    /\ CASE TimedOut -> VmReturns("timeout") /\ UNCHANGED cmd
         [] ~TimedOut /\ cmd.what # "console" /\ cmd.status # "running" -> CommandReturned
         [] OTHER -> Goes("socket") /\ UNCHANGED cmd
    /\ UNCHANGED <<vjob, margs, machine, boot, qemu, notify, late, sidecar, done>>

PollSocket ==
    /\ vpc = "socket"
    /\ CASE ~Closed -> Goes("poll") /\ UNCHANGED cmd
         [] Closed /\ cmd.what = "console" -> Cleanup
         [] OTHER -> VmReturns("run") /\ UNCHANGED cmd
    /\ UNCHANGED <<vjob, margs, machine, boot, qemu, notify, late, sidecar, done>>

AwaitExit ==
    /\ vpc = "exit"
    /\ CASE TimedOut -> VmReturns("timeout")
         [] OTHER -> qemu = "off" /\ Goes("close")
    /\ UNCHANGED <<vjob, margs, machine, boot, qemu, notify, cmd, late, sidecar, done>>

\* Faulty variant of RemoveNotify: the notify file stays.
NotifyLeft == notify' = notify

\* The end of cleanup_vm closes the socket and removes the notify file, either of which may fail;
\* then the second boot.
RemoveNotify == notify' = 0

CloseVm ==
    /\ vpc = "close"
    /\ \/ RemoveNotify /\ boot' = 2 /\ cmd' = NoCommand /\ Goes("spawn")
       \/ VmReturns("cleanup") /\ UNCHANGED <<notify, boot, cmd>>
    /\ UNCHANGED <<vjob, margs, machine, qemu, late, sidecar, done>>

\* The command of a postmortem run is run by the tool itself once the VM is over.
Postmortem ==
    /\ vpc = "postmortem"
    /\ \E ok \in BOOLEAN :
          /\ Return(IF ok THEN "ok" ELSE "error")
          /\ done' = IF ok THEN done \cup {<<"postmortem", boot>>} ELSE done
    /\ UNCHANGED <<vjob, margs, machine, boot, qemu, notify, cmd, late, sidecar, vfail>>

VmRun ==
    \/ SpawnVm \/ AwaitNotify \/ Connect \/ SetReadTimeout \/ ReadBootEvent \/ Poll \/ PollSocket
    \/ AwaitExit \/ CloseVm

-----------------------------------------------------------------------------
(* Everything else *)

Running == vpc \notin {"idle", "returned", "postmortem"}

\* QEMU creates the notify socket and waits for a connection, boots the guest until its default
\* target tells the socket, and may end at any time: first its end of the socket is closed, then
\* the process is gone, with or without the socket's file.
QemuListens ==
    /\ qemu = "starting" /\ Running /\ qemu' = "listening" /\ notify' = boot
    /\ UNCHANGED <<vjob, margs, machine, vpc, boot, cmd, late, sidecar, done, vfail, vresult>>

GuestBoots ==
    /\ qemu = "booting" /\ Running /\ qemu' = "up"
    /\ UNCHANGED <<vjob, margs, machine, vpc, boot, notify, cmd, late, sidecar, done, vfail, vresult>>

QemuEnds ==
    /\ Running
    /\ \/ qemu \in {"starting", "listening", "booting", "up"} /\ qemu' = "closing" /\ UNCHANGED notify
       \/ qemu = "closing" /\ qemu' = "off" /\ notify' \in {notify, 0}
    /\ UNCHANGED <<vjob, margs, machine, vpc, boot, cmd, late, sidecar, done, vfail, vresult>>

\* The thread's command: ssh succeeds only in a guest that is up.
ThreadEnds ==
    /\ cmd.status = "running" /\ cmd.what # "console" /\ Running
    /\ \E s \in {"succeeded", "failed", "not started"} :
          /\ s = "succeeded" => cmd.what = "bash" \/ qemu = "up"
          /\ cmd' = [cmd EXCEPT !.status = s]
          /\ done' = IF s = "succeeded" THEN done \cup {<<cmd.what, boot>>} ELSE done
    /\ UNCHANGED <<vjob, margs, machine, vpc, boot, qemu, notify, late, sidecar, vfail, vresult>>

SidecarEnds ==
    /\ sidecar = "running" /\ Running /\ sidecar' = "ended"
    /\ UNCHANGED <<vjob, margs, machine, vpc, boot, qemu, notify, cmd, late, done, vfail, vresult>>

\* The clock starts with VM::run and covers both boots.
TimePasses ==
    /\ "timeout-secs" \in margs.flags /\ ~late /\ qemu # "none" /\ Running /\ late' = TRUE
    /\ UNCHANGED <<vjob, margs, machine, vpc, boot, qemu, notify, cmd, sidecar, done, vfail, vresult>>

VmNext ==
    \/ Enter \/ ListTests \/ Prepare \/ VmRun \/ Postmortem
    \/ QemuListens \/ GuestBoots \/ QemuEnds \/ ThreadEnds \/ SidecarEnds \/ TimePasses

-----------------------------------------------------------------------------
(* Properties *)

\* The tool reports the success of a command only if the command succeeded in the guest of the
\* last boot (after the VM, for a postmortem run), and the first boot command before it in the
\* guest of the first boot.
SuccessMeansDone ==
    vresult = "ok" /\ Mode(margs) = "command" /\ ~margs.expectFailure /\ vfail = "none" /\ qemu # "none" =>
        /\ <<IF margs.postmortem THEN "postmortem" ELSE "command", boot>> \in done
        /\ "first-boot-command" \in margs.flags => boot = 2 /\ <<"first", 1>> \in done

\* Every failure of VM::run has its cause: in particular a second boot is not taken for a failed
\* one because of what the first one left behind, and a command is not given up while its VM is
\* alive and there is time.
VmFailsOnlyFor ==
    /\ vfail = "timeout" => late
    /\ vfail = "early" => qemu = "off"
    /\ vfail = "boot" => Closed \/ late
    /\ vfail = "run" => Closed \/ cmd.status = "not started"
    /\ vfail = "ssh" => cmd.status = "failed"
    /\ vfail = "sidecar" => sidecar = "ended"
    /\ vfail = "cleanup" => boot = 1 /\ qemu = "off"

\* The second QEMU, which uses the same disks and sockets, is started only when the first has
\* exited and its notify file is gone.
OneVmAtATime == vpc = "spawn" /\ boot = 2 => qemu = "off" /\ notify = 0

\* Every disk is on a bridge that exists, and no bridge has more disks than it takes.
DisksPlaced ==
    \A d \in DOMAIN machine.disks :
        /\ machine.disks[d] \in 0..(machine.bridges - 1)
        /\ Cardinality({e \in DOMAIN machine.disks : machine.disks[e] = machine.disks[d]}) <= DEVICE_PER_BRIDGE

\* In the guest, every output directory is mounted writable from a share of that directory, even
\* when it is also a platform path, and every other platform path read-only.
SharesMounted ==
    machine.shares # << >> =>
        /\ \A p \in vjob.outputs : p \in DOMAIN machine.units /\ ~machine.units[p].ro
        /\ \A p \in vjob.platform \ vjob.outputs : p \in DOMAIN machine.units /\ machine.units[p].ro
        /\ \A p \in DOMAIN machine.units : machine.shares[machine.units[p].tag].path = p

\* What `run` is given inside the container is what the outer process was given, except for a
\* command whose first word is itself a flag of the tool.
ArgsSurvive ==
    vpc = "prepare" /\ (vjob.cmd # << >> => \A i \in 1..Min({2, Len(vjob.cmd)}) : vjob.cmd[i] \notin Flags) =>
        /\ margs.cmd = IF vjob.entry = "test" THEN Tail(vjob.cmd) ELSE vjob.cmd
        /\ margs.flags \ {"console-output-file"} = vjob.flags \ {"console-output-file"}

\* With a timeout VM::run returns, whatever QEMU, the guest, ssh and the sidecars do.
VmRunEnds == vpc = "spawn" /\ "timeout-secs" \in margs.flags ~> vpc \in {"returned", "postmortem"}

\* The virtual machine is the one that was asked for and reports what happened in it: VM::run,
\* PCIBridges::new, the shares and the arguments of the respawned process.
VmAsAsked ==
    /\ SuccessMeansDone /\ VmFailsOnlyFor /\ OneVmAtATime
    /\ DisksPlaced /\ SharesMounted /\ ArgsSurvive
=============================================================================
