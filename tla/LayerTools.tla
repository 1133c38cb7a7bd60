----------------------------- MODULE LayerTools -----------------------------
(***************************************************************************)
(* What is done with a layer once it is built: it is packaged in one of    *)
(* the formats and read back, made into a btrfs image, its sendstream is   *)
(* parsed; a command runs in it in a container, set up in a user namespace *)
(* where the tool is not root, and it is booted in a virtual machine.      *)
(* These programs share no state, so a behaviour is the life of one of     *)
(* them while the others have nothing to do.                               *)
(***************************************************************************)
EXTENDS LayerFormats, BtrfsPackage, SendstreamParser, Container, Userns, VirtualMachine

CONSTANTS
    ContainerJobs,  \* the containers to set up
    Accounts,       \* the users to make namespaces for
    VmJobs          \* the invocations of antlir2_vm

NoJob == <<"none", EmptyTree, EmptyTree>>
NoSpec == [subvols |-> << >>, default |-> NoDefault, free |-> 0, seed |-> FALSE]

vars == <<formatVars, packageVars, parserVars, containerVars, usernsVars, vmVars>>

Init ==
    \E tool \in {"format", "btrfs", "parser", "container", "userns", "vm"} :
        LET Given(t, jobs, none) == IF tool = t THEN jobs ELSE {none}
        IN  /\ FormatInit(Given("format", Jobs, NoJob))
            /\ PackageInit(Given("btrfs", PackageSpecs, NoSpec))
            /\ ParserInit(Given("parser", Inputs, << >>))
            /\ ContainerInit(Given("container", ContainerJobs, NoContainer))
            /\ UsernsInit(Given("userns", Accounts, NoAccount))
            /\ VmInit(Given("vm", VmJobs, NoVm))

Packaging == UNCHANGED <<containerVars, usernsVars, vmVars>>
Isolating == UNCHANGED <<formatVars, packageVars, parserVars>>

FormatStep == FormatNext /\ UNCHANGED <<packageVars, parserVars>> /\ Packaging
PackageStep == bspec # NoSpec /\ PackageNext /\ UNCHANGED <<formatVars, parserVars>> /\ Packaging
ParserStep == source # << >> /\ ParserNext /\ UNCHANGED <<formatVars, packageVars>> /\ Packaging

ContainerStep == ContainerNext /\ UNCHANGED <<usernsVars, vmVars>> /\ Isolating
Pid1Step == Pid1 /\ UNCHANGED <<usernsVars, vmVars>> /\ Isolating
UsernsStep == UsernsNext /\ UNCHANGED <<containerVars, vmVars>> /\ Isolating
VmStep == VmNext /\ UNCHANGED <<containerVars, usernsVars>> /\ Isolating
VmRunStep == VmRun /\ UNCHANGED <<containerVars, usernsVars>> /\ Isolating
ClockStep == TimePasses /\ UNCHANGED <<containerVars, usernsVars>> /\ Isolating

Next == FormatStep \/ PackageStep \/ ParserStep \/ ContainerStep \/ UsernsStep \/ VmStep

\* The packager, the parser, the loop of pid1, that of the VM's main thread and the processes of
\* unshare_userns are held up by nothing but their own blocking calls; the clock goes on.  The
\* command of a container, its orphans, QEMU, the guest, ssh and the sidecars may do nothing for
\* ever.
Spec ==
    /\ Init /\ [][Next]_vars
    /\ WF_vars(PackageStep) /\ WF_vars(ParserStep)
    /\ WF_vars(Pid1Step) /\ WF_vars(UsernsStep) /\ WF_vars(VmRunStep) /\ WF_vars(ClockStep)

(* The btrfs packager ends, whatever sizes btrfs reports, when no free space is asked for:
   each resize that does not stop the shrink loop is to a smaller size.  With free space to
   add the loop may grow the filesystem again, and then the packager ends unless btrfs makes
   it do so for ever.  shrink_fs. *)
GrowsAgain == bstage = "resize" /\ shrink.prev # NoSize /\ shrink'.prev > shrink.prev
PackagingEnds ==
    bspec = NoSpec \/ <>(bstage \in {"ok", "failed"}) \/ (bspec.free > 0 /\ []<><<GrowsAgain>>_packageVars)

(* The parser returns, unless the source ends in the middle of a stream header: then the
   last round of its loop repeats for ever.  wire::parse. *)
ParserReturns == source = << >> \/ CutInHeader(source) \/ <>Returned

(* A command runs isolated as it was asked to: it sees what it was given, nothing else of the
   host is open to it, its status is the one reported, and the ids of its namespace are the
   user's.  isolation.rs, pid1.rs, unshare_new_userns. *)
IsolatedAsAsked == AskedIsSeen /\ HostProtected /\ StatusFaithful /\ IdsMapped

(* None of the tools waits for ever: shrink_fs, wire::parse, the loop of pid1,
   unshare_new_userns and VM::run with a timeout all come to their end. *)
ToolsEnd == PackagingEnds /\ ParserReturns /\ CommandEndsContainer /\ UsernsEnds /\ VmRunEnds
=============================================================================
