------------------------ MODULE LayerPublicationSteps ------------------------
(* The inductive invariant of LayerPublication, PublicationInv, says of each  *)
(* target where its build is and what that stage has established (Mine), and  *)
(* charges what is left behind to the faults so far (ChargesAreFew).  A step  *)
(* of a build is Good when it keeps what the invariant says of its own        *)
(* target, touches nothing of the others, ends for a listed reason, and adds  *)
(* at most one charge, with a fault.  Here are the lemmas the steps share,    *)
(* and that the steps are Good that leave the subvolumes alone, and those of  *)
(* garbage collection, which deletes only old ones.                           *)
EXTENDS LayerPublication, Integers, TLAPS

-----------------------------------------------------------------------------
(***************************************************************************)
(* Builds, their stages and their subvolumes                               *)
(***************************************************************************)

(* The records of a build and of a subvolume.                                *)
Ids == {None} \cup Nat
ProcRecord ==
  [pc : Nat, root : BOOLEAN, guards : Int, dep : Ids, new : Ids, old : Ids,
   format : {None, "sendstream", "cas_dir", "tar"},
   todo : SUBSET ({"subvol", "tmp"} \X Nat), tries : Nat]
SubvolRecord ==
  [of : Targets, data : {"partial", "full", "gutted"}, ro : BOOLEAN,
   birth : {"recent", "old"}, tmp : BOOLEAN]

(* Each program has its stages at fixed places.                             *)
LEMMA StagesOfKinds ==
  /\ Stages("compile") = CompileStages /\ Len(CompileStages) = 11
  /\ Stages("receive") = ReceiveStages /\ Len(ReceiveStages) = 9
  /\ Stages("send") = SendStages /\ Len(SendStages) = 9
  /\ Stages("materialize") = MaterializeStages /\ Len(MaterializeStages) = 6
<1>1. /\ Stages("compile") = CompileStages
      /\ Stages("receive") = ReceiveStages
      /\ Stages("send") = SendStages
      /\ Stages("materialize") = MaterializeStages
  BY Zenon DEF Stages
<1>2. Len(CompileStages) = 11 /\ Len(ReceiveStages) = 9
  BY Zenon DEF CompileStages, ReceiveStages
<1>3. Len(SendStages) = 9 /\ Len(MaterializeStages) = 6
  BY Zenon DEF SendStages, MaterializeStages
<1> QED BY <1>1, <1>2, <1>3, Zenon

(* The number of stages of a build.                                         *)
Last(t) == Len(Stages(Kind[t]))

(* The number of stages of each kind of build.                                *)
LEMMA LastStage ==
  ASSUME NEW t \in Targets
  PROVE  \/ Kind[t] = "compile" /\ Last(t) = 11
         \/ Kind[t] = "receive" /\ Last(t) = 9
         \/ Kind[t] = "send" /\ Last(t) = 9
         \/ Kind[t] = "materialize" /\ Last(t) = 6
BY StagesOfKinds, TargetsAssumption, Zenon DEF Last

(* Where a build is, by its kind and the number of its stage.               *)
IsAt(t, kind, n) == Kind[t] = kind /\ proc[t].pc = n

(* The numbers at which each stage stands, by the kind of the build.          *)
LEMMA StageNumbers ==
  ASSUME NEW t \in Targets, proc[t].pc \in 0 .. Last(t)
  PROVE  /\ At(t, "ensure") => IsAt(t, "compile", 1) \/ IsAt(t, "receive", 1) \/ IsAt(t, "send", 4) \/ IsAt(t, "materialize", 1)
         /\ At(t, "open") => IsAt(t, "compile", 2) \/ IsAt(t, "send", 1)
         /\ At(t, "create") => IsAt(t, "compile", 3) \/ IsAt(t, "receive", 2) \/ IsAt(t, "send", 2) \/ IsAt(t, "materialize", 4)
         /\ At(t, "fill") => IsAt(t, "compile", 4) \/ IsAt(t, "receive", 3) \/ IsAt(t, "materialize", 5)
         /\ At(t, "send") => IsAt(t, "send", 3)
         /\ At(t, "move") => IsAt(t, "receive", 4) \/ IsAt(t, "send", 5)
         /\ At(t, "seal") => IsAt(t, "compile", 7) \/ IsAt(t, "receive", 5)
         /\ At(t, "old") => IsAt(t, "compile", 5) \/ IsAt(t, "receive", 6) \/ IsAt(t, "send", 6) \/ IsAt(t, "materialize", 2)
         /\ At(t, "delete") => IsAt(t, "compile", 6) \/ IsAt(t, "receive", 7) \/ IsAt(t, "send", 7) \/ IsAt(t, "materialize", 3)
         /\ At(t, "unlink") => IsAt(t, "compile", 8) \/ IsAt(t, "receive", 8) \/ IsAt(t, "send", 8)
         /\ At(t, "link") => IsAt(t, "compile", 9) \/ IsAt(t, "receive", 9) \/ IsAt(t, "send", 9) \/ IsAt(t, "materialize", 6)
         /\ At(t, "gc") => IsAt(t, "compile", 10)
         /\ At(t, "collect") => IsAt(t, "compile", 11)
<1>1. CASE Kind[t] = "compile"
  <2>1. Last(t) = 11 /\ \A s : At(t, s) <=> proc[t].pc # 0 /\ CompileStages[proc[t].pc] = s
    BY <1>1, StagesOfKinds, Zenon DEF At, Last
  <2>2. proc[t].pc \in 0 .. 11
    BY <2>1, Zenon
  <2> QED BY <1>1, <2>1, <2>2 DEF CompileStages, IsAt
<1>2. CASE Kind[t] = "receive"
  <2>1. Last(t) = 9 /\ \A s : At(t, s) <=> proc[t].pc # 0 /\ ReceiveStages[proc[t].pc] = s
    BY <1>2, StagesOfKinds, Zenon DEF At, Last
  <2>2. proc[t].pc \in 0 .. 9
    BY <2>1, Zenon
  <2> QED BY <1>2, <2>1, <2>2 DEF ReceiveStages, IsAt
<1>3. CASE Kind[t] = "send"
  <2>1. Last(t) = 9 /\ \A s : At(t, s) <=> proc[t].pc # 0 /\ SendStages[proc[t].pc] = s
    BY <1>3, StagesOfKinds, Zenon DEF At, Last
  <2>2. proc[t].pc \in 0 .. 9
    BY <2>1, Zenon
  <2> QED BY <1>3, <2>1, <2>2 DEF SendStages, IsAt
<1>4. CASE Kind[t] = "materialize"
  <2>1. Last(t) = 6 /\ \A s : At(t, s) <=> proc[t].pc # 0 /\ MaterializeStages[proc[t].pc] = s
    BY <1>4, StagesOfKinds, Zenon DEF At, Last
  <2>2. proc[t].pc \in 0 .. 6
    BY <2>1, Zenon
  <2> QED BY <1>4, <2>1, <2>2 DEF MaterializeStages, IsAt
<1> QED BY <1>1, <1>2, <1>3, <1>4, TargetsAssumption, Zenon

-----------------------------------------------------------------------------
(***************************************************************************)
(* Updates of a build's record                                             *)
(***************************************************************************)

(* A build's record by the fields the invariant speaks of.                  *)
Is(p, pc, root, guards, dep, new, old, format) ==
  /\ p \in ProcRecord
  /\ p.pc = pc /\ p.root = root /\ p.guards = guards
  /\ p.dep = dep /\ p.new = new /\ p.old = old /\ p.format = format
Same(p) == Is(p, p.pc, p.root, p.guards, p.dep, p.new, p.old, p.format)

(* The record of a build that does not run.                                   *)
LEMMA IdleRecord == Is(Idle, 0, FALSE, 0, None, None, None, None)
<1>1. Idle \in ProcRecord
  BY DEF Idle, ProcRecord, Ids
<1> QED BY <1>1, Zenon DEF Is, Idle

(* What an update of one field of a record leaves alone.                    *)
LEMMA WithPc ==
  ASSUME NEW p \in ProcRecord, NEW x \in Nat
  PROVE  Is([p EXCEPT !.pc = x], x, p.root, p.guards, p.dep, p.new, p.old, p.format)
BY Zenon DEF Is, ProcRecord

(* The effective user and the number of guards change.                        *)
LEMMA WithGuards ==
  ASSUME NEW p \in ProcRecord, NEW x \in BOOLEAN, NEW g \in Int
  PROVE  Is([p EXCEPT !.root = x, !.guards = g], p.pc, x, g, p.dep, p.new, p.old, p.format)
BY Zenon DEF Is, ProcRecord

(* The previous subvolume is opened or forgotten.                             *)
LEMMA WithOld ==
  ASSUME NEW p \in ProcRecord, NEW x \in Ids
  PROVE  Is([p EXCEPT !.old = x], p.pc, p.root, p.guards, p.dep, p.new, x, p.format)
BY Zenon DEF Is, ProcRecord

(* Rootless::escalate makes the process root; dropping the guard makes it    *)
(* the user again under sudo, and leaves it what it was otherwise.           *)
LEMMA EscalateFields ==
  ASSUME NEW t, NEW p \in ProcRecord
  PROVE  Is(Escalate(t, p), p.pc, UsesGuards(t) \/ p.root, IF UsesGuards(t) THEN p.guards + 1 ELSE p.guards,
            p.dep, p.new, p.old, p.format)
<1>1. p.root \in BOOLEAN /\ p.guards \in Int
  BY Zenon DEF ProcRecord
<1>2. CASE UsesGuards(t)
  <2>1. Escalate(t, p) = [p EXCEPT !.root = TRUE, !.guards = p.guards + 1]
    BY <1>2, Zenon DEF Escalate
  <2>2. p.guards + 1 \in Int
    BY <1>1
  <2>3. Is(Escalate(t, p), p.pc, TRUE, p.guards + 1, p.dep, p.new, p.old, p.format)
    BY <2>1, <2>2, WithGuards, Zenon
  <2> QED BY <1>1, <1>2, <2>3, Zenon DEF Is
<1>3. CASE ~UsesGuards(t)
  BY <1>1, <1>3, Zenon DEF Escalate, Is
<1> QED BY <1>2, <1>3, Zenon

(* What dropping a guard does to the record of a build.                       *)
LEMMA DropGuardFields ==
  ASSUME NEW t, NEW p \in ProcRecord
  PROVE  Is(DropGuard(t, p), p.pc, IF UsesGuards(t) THEN mode # "sudo" /\ p.root ELSE p.root,
            IF UsesGuards(t) THEN p.guards - 1 ELSE p.guards, p.dep, p.new, p.old, p.format)
<1>1. p.root \in BOOLEAN /\ p.guards \in Int
  BY Zenon DEF ProcRecord
<1>2. CASE UsesGuards(t)
  <2>1. DropGuard(t, p) = [p EXCEPT !.root = (mode # "sudo") /\ p.root, !.guards = p.guards - 1]
    BY <1>2, Zenon DEF DropGuard
  <2>2. p.guards - 1 \in Int /\ ((mode # "sudo") /\ p.root) \in BOOLEAN
    BY <1>1
  <2>3. Is(DropGuard(t, p), p.pc, (mode # "sudo") /\ p.root, p.guards - 1, p.dep, p.new, p.old, p.format)
    BY <2>1, <2>2, WithGuards, Zenon
  <2> QED BY <1>1, <1>2, <2>3, Zenon DEF Is
<1>3. CASE ~UsesGuards(t)
  BY <1>1, <1>3, Zenon DEF DropGuard, Is
<1> QED BY <1>2, <1>3, Zenon

(* A build goes on to its next stage, or has ended after its last one.      *)
LEMMA StepFields ==
  ASSUME NEW t \in Targets, proc \in [Targets -> ProcRecord], NEW p \in ProcRecord, Step(t, p)
  PROVE  /\ proc' \in [Targets -> ProcRecord]
         /\ \A u \in Targets : u # t => proc'[u] = proc[u]
         /\ p.pc = Last(t) => Is(proc'[t], 0, FALSE, 0, None, None, None, None)
         /\ p.pc # Last(t) => Is(proc'[t], p.pc + 1, p.root, p.guards, p.dep, p.new, p.old, p.format)
<1>1. p.pc \in Nat
  BY Zenon DEF ProcRecord
<1>2. p.pc + 1 \in Nat
  BY <1>1
<1>3. Is(Advance(p), p.pc + 1, p.root, p.guards, p.dep, p.new, p.old, p.format)
  BY <1>2, WithPc, Zenon DEF Advance
<1>4. PICK q : q = IF p.pc = Len(Stages(Kind[t])) THEN Idle ELSE Advance(p)
  BY Zenon
<1>5. /\ p.pc = Last(t) => Is(q, 0, FALSE, 0, None, None, None, None)
      /\ p.pc # Last(t) => Is(q, p.pc + 1, p.root, p.guards, p.dep, p.new, p.old, p.format)
  BY <1>3, <1>4, IdleRecord, Zenon DEF Last
<1>6. q \in ProcRecord
  BY <1>5, Zenon DEF Is
<1>7. proc' = [proc EXCEPT ![t] = q]
  BY <1>4, Zenon DEF Step
<1>8. proc' \in [Targets -> ProcRecord] /\ proc'[t] = q /\ \A u \in Targets : u # t => proc'[u] = proc[u]
  BY <1>6, <1>7, Zenon
<1> QED BY <1>5, <1>8, Zenon

(* A subvolume changes: its read-only flag, its place, its data, its age.   *)
IsSubvol(r, of, data, ro, birth, tmp) ==
  r \in SubvolRecord /\ r.of = of /\ r.data = data /\ r.ro = ro /\ r.birth = birth /\ r.tmp = tmp

-----------------------------------------------------------------------------
(***************************************************************************)
(* The inductive invariant                                                 *)
(***************************************************************************)

(* How far a build has come.                                                *)
HasNew(t) == \/ Kind[t] = "compile" /\ proc[t].pc > 3
             \/ Kind[t] \in {"receive", "send"} /\ proc[t].pc > 2
             \/ Kind[t] = "materialize" /\ proc[t].pc > 4
Filled(t) == \/ Kind[t] = "compile" /\ proc[t].pc > 4
             \/ Kind[t] = "receive" /\ proc[t].pc > 3
             \/ Kind[t] = "send"
             \/ Kind[t] = "materialize" /\ proc[t].pc > 5
InPlace(t) == \/ Kind[t] \in {"compile", "materialize"}
              \/ Kind[t] = "receive" /\ (proc[t].pc > 4 \/ proc[t].format # "sendstream")
              \/ Kind[t] = "send" /\ proc[t].pc > 5
Sealed(t) == \/ Kind[t] = "compile" /\ proc[t].pc > 7
             \/ Kind[t] \in {"receive", "send"} /\ proc[t].pc > 5
Linked(t) == Kind[t] = "compile" /\ proc[t].pc > 9
Opened(t) == \/ Kind[t] = "compile" /\ proc[t].pc > 2
             \/ Kind[t] = "send" /\ proc[t].pc > 1
AtDelete(t) == \/ Kind[t] = "compile" /\ proc[t].pc = 6
               \/ Kind[t] \in {"receive", "send"} /\ proc[t].pc = 7
               \/ Kind[t] = "materialize" /\ proc[t].pc = 3

(* The new subvolume of a build is its own and as complete as the stage      *)
(* says, unless garbage collection has deleted it; no output names it before *)
(* it is linked.                                                             *)
GoodNew(t) ==
  LET id == proc[t].new
  IN  /\ id \in 1 .. nextId - 1
      /\ \/ id \in collected
         \/ /\ Exists(id) /\ subvols[id].of = t
            /\ Filled(t) => subvols[id].data = "full"
            /\ InPlace(t) => ~subvols[id].tmp
            /\ Sealed(t) => subvols[id].ro
      /\ output[t] = id <=> Linked(t)
NewIsGood(t) == IF HasNew(t) THEN GoodNew(t) ELSE proc[t].new = None

(* The subvolume a build is about to delete is an earlier one of its target. *)
OldIsOwn(t) ==
  proc[t].old # None =>
    /\ AtDelete(t)
    /\ proc[t].old \in 1 .. nextId - 1 /\ proc[t].old # proc[t].new
    /\ Exists(proc[t].old) => subvols[proc[t].old].of = t

(* While a build runs, the layer it is built from is built, and is not being *)
(* built again; the subvolume it has opened is the one that layer published. *)
DepIsBuilt(t) ==
  /\ Running(t) /\ Dep[t] # None => ~Running(Dep[t]) /\ status[Dep[t]] = "ok"
  /\ proc[t].dep = IF Opened(t) /\ Dep[t] # None THEN output[Dep[t]] ELSE None

(* An output names a subvolume of its target; after a successful build, a    *)
(* complete one, unless garbage collection has deleted it.                   *)
OutputIsOwn(t) ==
  /\ Exists(output[t]) => subvols[output[t]].of = t
  /\ ~Running(t) /\ status[t] = "ok" =>
       /\ output[t] # None
       /\ output[t] \in collected \/ (Exists(output[t]) /\ Whole(t, output[t]))

(* Every guard of Rootless::escalate is dropped again, and the process is    *)
(* root wherever it makes a privileged call.                                 *)
Privileges(t) ==
  LET pc == proc[t].pc
  IN  /\ proc[t].guards = IF ~UsesGuards(t) THEN 0
                          ELSE IF Kind[t] = "compile" THEN IF pc = 3 THEN 2 ELSE IF pc \in {4, 6, 7, 11} THEN 1 ELSE 0
                          ELSE IF Kind[t] = "receive" /\ pc \in 3 .. 7 THEN 1 ELSE 0
      /\ Kind[t] = "compile" /\ pc > 2 => mode # "user"
      /\ Kind[t] = "receive" /\ pc > 2 => mode # "user"
      /\ Kind[t] = "compile" /\ pc \in {3, 6, 7} => proc[t].root
      /\ Kind[t] = "receive" /\ pc \in 3 .. 7 => proc[t].root
      /\ Kind[t] = "send" /\ pc # 0 => mode # "userns"
      /\ mode = "userns" /\ pc # 0 /\ Kind[t] \in {"compile", "receive"} => proc[t].root
Placed(t) ==
  /\ proc[t].pc \in 0 .. Last(t)
  /\ proc[t].format \in IF proc[t].pc # 0 /\ Kind[t] = "receive" THEN {"sendstream", "cas_dir", "tar"} ELSE {None}

(* A temporary directory is not published, and while a build still has one,  *)
(* what is in it is still there.                                             *)
TmpIsHidden(t) ==
  /\ output[t] \notin tmpdirs
  /\ proc[t].new \in tmpdirs => Kind[t] = "send" \/ (Exists(proc[t].new) /\ subvols[proc[t].new].tmp)
Mine(t) == /\ Placed(t) /\ Privileges(t) /\ NewIsGood(t) /\ OldIsOwn(t) /\ DepIsBuilt(t)
           /\ OutputIsOwn(t) /\ TmpIsHidden(t)
Statuses == {"none", "ok", "fault", "killed", "escalate", "parent gone", "collected", "not root"}
StoreType ==
  /\ mode \in Modes /\ volume \in BOOLEAN /\ nextId \in Nat \ {0} /\ faults \in Nat
  /\ subvols \in [DOMAIN subvols -> SubvolRecord] /\ DOMAIN subvols \subseteq 1 .. nextId - 1
  /\ tmpdirs \subseteq 1 .. nextId - 1
  /\ output \in [Targets -> {None} \cup 1 .. nextId - 1]
  /\ proc \in [Targets -> ProcRecord]
  /\ status \in [Targets -> Statuses]
  /\ collected \subseteq (1 .. nextId - 1) \ DOMAIN subvols

(* What a failing call or a killed build has left behind: subvolumes and     *)
(* temporary directories that no build is working on and no output names,    *)
(* and the previous output of a build that has failed to delete it.          *)
PastOld(t) == \/ Kind[t] = "compile" /\ proc[t].pc > 5
              \/ Kind[t] \in {"receive", "send"} /\ proc[t].pc > 6
Accounted(t, i) == i = proc[t].new \/ (i = output[t] /\ (i = proc[t].old \/ ~PastOld(t)))
Kept == {i \in DOMAIN subvols : Kind[subvols[i].of] # "materialize"}
Charged == {i \in Kept \cup tmpdirs : \A t \in Targets : ~Accounted(t, i)}
ChargesAreFew == IsFiniteSet(Charged) /\ Cardinality(Charged) <= faults
PublicationInv == StoreType /\ ChargesAreFew /\ \A t \in Targets : Mine(t)

-----------------------------------------------------------------------------
(***************************************************************************)
(* What a step of one build does to the others                             *)
(***************************************************************************)

(* A step of t changes and deletes only subvolumes of t, and deletes others  *)
(* only by collecting them when they are old; what it adds is its own.       *)
Touches(t) ==
  /\ \A i \in DOMAIN subvols : \/ i \in DOMAIN subvols' /\ (subvols[i].of # t => subvols'[i] = subvols[i])
                               \/ subvols[i].of = t
                               \/ i \in collected' /\ subvols[i].birth = "old" /\ ~subvols[i].tmp
  /\ \A i \in DOMAIN subvols' : IF i \in DOMAIN subvols THEN subvols'[i].of = subvols[i].of
                                ELSE i = nextId /\ subvols'[i].of = t
  /\ collected \subseteq collected'
  /\ tmpdirs' \subseteq tmpdirs \cup {nextId}
  /\ mode' = mode /\ nextId' \in {nextId, nextId + 1}
OnlyOwn(t) ==
  \A u \in Targets : u # t => proc'[u] = proc[u] /\ output'[u] = output[u] /\ status'[u] = status[u]

(* The cause of a build's new status, as FailsOnlyFor states it.             *)
Explained(t) ==
  status'[t] # status[t] =>
    CASE status'[t] = "escalate" -> mode = "user"
      [] status'[t] = "parent gone" -> (IF proc[t].dep # None THEN proc[t].dep ELSE output[Dep[t]]) \in collected
      [] status'[t] = "collected" -> proc[t].new \in collected
      [] OTHER -> status'[t] # "not root"
Charges == \/ faults' = faults /\ Charged' \subseteq Charged
           \/ faults' = faults + 1 /\ \E x : Charged' \subseteq Charged \cup {x}
Good(t) == StoreType' /\ Touches(t) /\ OnlyOwn(t) /\ Explained(t) /\ Charges /\ Mine(t)'

(* The builds of other targets do not notice a step of t.                    *)
LEMMA OthersDoNotNotice ==
  ASSUME PublicationInv, NEW t \in Targets, Good(t), NEW u \in Targets, u # t,
         Running(t) \/ \A v \in Targets : Dep[v] = t => ~Running(v)
  PROVE  Mine(u)'
<1>1. /\ proc'[u] = proc[u] /\ output'[u] = output[u] /\ status'[u] = status[u] /\ mode' = mode
      /\ collected \subseteq collected' /\ nextId' \in {nextId, nextId + 1} /\ nextId \in Nat \ {0}
      /\ tmpdirs' \subseteq tmpdirs \cup {nextId}
  BY Zenon DEF Good, OnlyOwn, Touches, PublicationInv, StoreType
<1>2. \A i \in DOMAIN subvols : subvols[i].of = u =>
        \/ i \in DOMAIN subvols' /\ subvols'[i] = subvols[i]
        \/ i \in collected' /\ ~subvols[i].tmp
  BY Zenon DEF Good, Touches
<1>3. \A i \in DOMAIN subvols' : i # nextId => i \in DOMAIN subvols /\ subvols'[i].of = subvols[i].of
  BY Zenon DEF Good, Touches
<1>4. /\ output[u] \in {None} \cup 1 .. nextId - 1 /\ nextId \notin 1 .. nextId - 1
      /\ None \notin Nat /\ output[u] # nextId
  BY TargetsAssumption DEF PublicationInv, StoreType
<1>5. Mine(u)
  BY Zenon DEF PublicationInv
<1>6. Placed(u)' /\ Privileges(u)'
  BY <1>1, <1>5, Zenon DEF Mine, Placed, Privileges, UsesGuards, Last
<1>7. NewIsGood(u)'
  <2>1. CASE ~HasNew(u)
    BY <1>1, <1>5, <2>1, Zenon DEF Mine, NewIsGood, HasNew
  <2>2. CASE HasNew(u)
    <3>1. GoodNew(u)
      BY <1>5, <2>2, Zenon DEF Mine, NewIsGood
    <3>2. GoodNew(u)'
      BY <1>1, <1>2, <3>1 DEF GoodNew, Filled, InPlace, Sealed, Linked, Exists
    <3> QED BY <1>1, <2>2, <3>2, Zenon DEF NewIsGood, HasNew
  <2> QED BY <2>1, <2>2, Zenon
<1>8. OldIsOwn(u)'
  BY <1>1, <1>3, <1>5 DEF Mine, OldIsOwn, AtDelete, Exists
<1>9. DepIsBuilt(u)'
  <2>1. CASE ~Running(u)
    BY <1>1, <1>5, <2>1 DEF Mine, DepIsBuilt, Running, Opened
  <2>2. CASE Running(u)
    <3>1. Dep[u] # t
      BY <1>5, <2>2, TargetsAssumption, Zenon DEF Mine, DepIsBuilt
    <3>2. Dep[u] # None => Dep[u] \in Targets
      BY TargetsAssumption, Zenon
    <3>3. Dep[u] # None =>
            proc'[Dep[u]] = proc[Dep[u]] /\ output'[Dep[u]] = output[Dep[u]] /\ status'[Dep[u]] = status[Dep[u]]
      BY <3>1, <3>2, Zenon DEF Good, OnlyOwn
    <3> QED BY <1>1, <1>5, <3>3, Zenon DEF Mine, DepIsBuilt, Running, Opened
  <2> QED BY <2>1, <2>2, Zenon
<1>10. OutputIsOwn(u)'
  <2>1. Exists(output[u])' => subvols'[output[u]].of = u
    BY <1>1, <1>3, <1>4, <1>5, Zenon DEF Mine, OutputIsOwn, Exists
  <2>2. ASSUME ~Running(u), status[u] = "ok"
        PROVE  output[u] # None /\ (output[u] \in collected' \/ (Exists(output[u])' /\ Whole(u, output[u])'))
    <3>1. output[u] # None /\ (output[u] \in collected \/ (Exists(output[u]) /\ Whole(u, output[u])))
      BY <1>5, <2>2, Zenon DEF Mine, OutputIsOwn
    <3> QED BY <1>1, <1>2, <3>1, Zenon DEF Whole, Exists
  <2> QED BY <1>1, <2>1, <2>2, Zenon DEF OutputIsOwn, Running, Exists, Whole
<1>11. TmpIsHidden(u)'
  <2>1. output'[u] \notin tmpdirs'
    BY <1>1, <1>4, <1>5, Zenon DEF Mine, TmpIsHidden
  <2>2. ASSUME proc[u].new \in tmpdirs', Kind[u] # "send"
        PROVE  proc[u].new \in DOMAIN subvols' /\ subvols'[proc[u].new].tmp
    <3>1. proc[u].new = None \/ proc[u].new \in 1 .. nextId - 1
      BY <1>5, Zenon DEF Mine, NewIsGood, GoodNew
    <3>2. proc[u].new \in tmpdirs
      BY <1>1, <1>4, <2>2, <3>1, Zenon DEF Good, StoreType
    <3>3. proc[u].new \in DOMAIN subvols /\ subvols[proc[u].new].tmp
      BY <1>5, <2>2, <3>2, Zenon DEF Mine, TmpIsHidden, Exists
    <3>4. HasNew(u) /\ GoodNew(u)
      BY <1>4, <1>5, <3>3 DEF Mine, NewIsGood, PublicationInv, StoreType
    <3>5. subvols[proc[u].new].of = u
      BY <3>3, <3>4, Zenon DEF GoodNew, PublicationInv, StoreType
    <3> QED BY <1>2, <3>3, <3>5, Zenon
  <2> QED BY <1>1, <2>1, <2>2, Zenon DEF TmpIsHidden, Exists
<1> QED BY <1>6, <1>7, <1>8, <1>9, <1>10, <1>11, Zenon DEF Mine

-----------------------------------------------------------------------------
(***************************************************************************)
(* What good steps have in common                                          *)
(***************************************************************************)

LEMMA NothingTouched ==
  ASSUME NEW t \in Targets, StoreType, mode' = mode, nextId' = nextId, collected' = collected, subvols' = subvols,
         tmpdirs' \subseteq tmpdirs
  PROVE  Touches(t)
BY Zenon DEF Touches

(* A step changes one subvolume, its own, or removes it.                     *)
LEMMA OwnTouched ==
  ASSUME NEW t \in Targets, StoreType, mode' = mode, nextId' = nextId, collected' = collected,
         tmpdirs' \subseteq tmpdirs, NEW id, Exists(id) => subvols[id].of = t,
         DOMAIN subvols' \subseteq DOMAIN subvols,
         \A i \in DOMAIN subvols : i # id => i \in DOMAIN subvols' /\ subvols'[i] = subvols[i],
         id \in DOMAIN subvols' => subvols'[id].of = t
  PROVE  Touches(t)
BY Zenon DEF Touches, Exists

(* What a step leaves behind: X, unless it is accounted for.                 *)
LEMMA StepCharges ==
  ASSUME NEW t \in Targets, StoreType, Touches(t), OnlyOwn(t), NEW X,
         \A i \in (DOMAIN subvols' \cup tmpdirs') \ X : i \in Kept' \cup tmpdirs' =>
            IF i = nextId THEN Accounted(t, i)' ELSE Accounted(t, i) => Accounted(t, i)'
  PROVE  Charged' \subseteq Charged \cup X
<1> SUFFICES ASSUME NEW i \in Charged', i \notin X
             PROVE  i \in Charged
  BY Zenon
<1>1. i \in Kept' \cup tmpdirs' /\ \A u \in Targets : ~Accounted(u, i)'
  BY Zenon DEF Charged
<1>2. i \in DOMAIN subvols' \cup tmpdirs'
  BY <1>1, Zenon DEF Kept
<1>3. i # nextId
  BY <1>1, <1>2, Zenon
<1>4. i \in Kept \cup tmpdirs
  BY <1>1, <1>3, Zenon DEF Kept, Touches
<1>5. \A u \in Targets : ~Accounted(u, i)
  <2>1. ~Accounted(t, i)
    BY <1>1, <1>2, <1>3, Zenon
  <2>2. ASSUME NEW u \in Targets, u # t
        PROVE  ~Accounted(u, i)
    <3>1. proc'[u] = proc[u] /\ output'[u] = output[u]
      BY <2>2, Zenon DEF OnlyOwn
    <3>2. ~Accounted(u, i)'
      BY <1>1, Zenon
    <3> QED BY <3>1, <3>2, Zenon DEF Accounted, PastOld
  <2> QED BY <2>1, <2>2, Zenon
<1> QED BY <1>4, <1>5, Zenon DEF Charged

(* The layer a build is made from stays as it is while the build runs.       *)
LEMMA DepKept ==
  ASSUME PublicationInv, NEW t \in Targets, OnlyOwn(t), Running(t),
         proc'[t].dep = IF Opened(t)' /\ Dep[t] # None THEN output[Dep[t]] ELSE None
  PROVE  DepIsBuilt(t)'
<1>1. Dep[t] # None => Dep[t] \in Targets /\ Dep[t] # t
  BY TargetsAssumption, Zenon
<1>2. Dep[t] # None => ~Running(Dep[t]) /\ status[Dep[t]] = "ok"
  BY Zenon DEF PublicationInv, Mine, DepIsBuilt
<1> QED BY <1>1, <1>2, Zenon DEF OnlyOwn, DepIsBuilt, Running

(* The output of a running build names one of its own subvolumes.            *)
LEMMA OwnOutputKept ==
  ASSUME PublicationInv, NEW t \in Targets, Touches(t), proc'[t].pc # 0, output'[t] \in {output[t], None}, StoreType'
  PROVE  OutputIsOwn(t)'
<1>1. output[t] \in {None} \cup 1 .. nextId - 1 /\ nextId \in Nat /\ None \notin Nat
  BY TargetsAssumption, Zenon DEF PublicationInv, StoreType
<1>2. Exists(output[t]) => subvols[output[t]].of = t
  BY Zenon DEF PublicationInv, Mine, OutputIsOwn
<1>3. output[t] \in DOMAIN subvols' => subvols'[output[t]].of = t
  BY <1>1, <1>2, Zenon DEF Touches, Exists
<1>4. None \notin DOMAIN subvols'
  BY <1>1 DEF StoreType
<1> QED BY <1>3, <1>4, Zenon DEF OutputIsOwn, Running, Exists

(* A build ends: it returns an error or is killed.  Its new subvolume may be *)
(* left behind, which then counts a fault.                                   *)
LEMMA EndIsGood ==
  ASSUME PublicationInv, NEW t \in Targets, Running(t), NEW why \in Statuses \ {"none", "ok"}, End(t, why),
         mode' = mode, volume' = volume, output' = output, nextId' = nextId, collected' = collected,
         subvols' \in [DOMAIN subvols' -> SubvolRecord], DOMAIN subvols' \subseteq DOMAIN subvols,
         \A i \in DOMAIN subvols : i # proc[t].new => i \in DOMAIN subvols' /\ subvols'[i] = subvols[i],
         proc[t].new \in DOMAIN subvols' => subvols'[proc[t].new].of = subvols[proc[t].new].of,
         tmpdirs' \subseteq tmpdirs, Explained(t),
         \/ faults' = faults + 1
         \/ faults' = faults /\ proc[t].new \notin DOMAIN subvols \cup tmpdirs
  PROVE  Good(t)
<1>1. StoreType /\ Mine(t)
  BY Zenon DEF PublicationInv
<1>2. Is(proc'[t], 0, FALSE, 0, None, None, None, None) /\ proc' \in [Targets -> ProcRecord]
  <2>1. Idle \in ProcRecord
    BY IdleRecord, Zenon DEF Is
  <2>2. proc' = [proc EXCEPT ![t] = Idle] /\ proc \in [Targets -> ProcRecord]
    BY <1>1, Zenon DEF End, StoreType
  <2>3. proc'[t] = Idle /\ proc' \in [Targets -> ProcRecord]
    BY <2>1, <2>2, Zenon
  <2> QED BY <2>3, IdleRecord, Zenon
<1>3. status'[t] = why /\ status' \in [Targets -> Statuses]
  BY <1>1, Zenon DEF End, StoreType
<1>4. OnlyOwn(t)
  BY <1>1, Zenon DEF OnlyOwn, End, StoreType
<1>5. StoreType'
  BY <1>1, <1>2, <1>3 DEF StoreType
<1>6. Exists(proc[t].new) => subvols[proc[t].new].of = t
  BY <1>1, TargetsAssumption DEF Mine, NewIsGood, GoodNew, Exists, StoreType
<1>7. Touches(t)
  BY <1>1, <1>6, OwnTouched, Zenon DEF Exists
<1>8. Mine(t)'
  <2>1. 0 \in 0 .. Last(t)
    BY LastStage
  <2>2. Placed(t)' /\ Privileges(t)'
    BY <1>2, <2>1 DEF Placed, Privileges, Is, Last
  <2>3. NewIsGood(t)' /\ OldIsOwn(t)' /\ DepIsBuilt(t)'
    BY <1>2 DEF NewIsGood, HasNew, OldIsOwn, DepIsBuilt, Opened, Running, Is
  <2>4. OutputIsOwn(t)'
    BY <1>1, <1>3, <1>7, Zenon DEF Mine, OutputIsOwn, Exists, Touches, StoreType
  <2>5. TmpIsHidden(t)'
    BY <1>1, <1>2, TargetsAssumption DEF Mine, TmpIsHidden, Is, StoreType
  <2> QED BY <2>2, <2>3, <2>4, <2>5, Zenon DEF Mine
<1>9. Charges
  <2>1. \A i : Accounted(t, i) => i = proc[t].new \/ Accounted(t, i)'
    BY <1>2 DEF Accounted, PastOld, Is
  <2>2. nextId \notin DOMAIN subvols \cup tmpdirs
    BY <1>1 DEF StoreType
  <2>3. CASE faults' = faults + 1
    <3>1. Charged' \subseteq Charged \cup {proc[t].new}
      <4>1. \A i \in (DOMAIN subvols' \cup tmpdirs') \ {proc[t].new} :
              IF i = nextId THEN Accounted(t, i)' ELSE Accounted(t, i) => Accounted(t, i)'
        BY <2>1, <2>2, Zenon
      <4> QED BY <1>1, <1>4, <1>7, <4>1, StepCharges, Zenon
    <3> QED BY <2>3, <3>1, Zenon DEF Charges
  <2>4. CASE faults' = faults /\ proc[t].new \notin DOMAIN subvols \cup tmpdirs
    <3>1. Charged' \subseteq Charged \cup {}
      <4>1. \A i \in (DOMAIN subvols' \cup tmpdirs') \ {} :
              IF i = nextId THEN Accounted(t, i)' ELSE Accounted(t, i) => Accounted(t, i)'
        BY <2>1, <2>2, <2>4, Zenon
      <4> QED BY <1>1, <1>4, <1>7, <4>1, StepCharges, Zenon
    <3> QED BY <2>4, <3>1, Zenon DEF Charges
  <2> QED BY <2>3, <2>4, Zenon
<1> QED BY <1>4, <1>5, <1>7, <1>8, <1>9, Zenon DEF Good

(* A build returns an error; its temporary directory is removed if it can be. *)
LEMMA FailIsGood ==
  ASSUME PublicationInv, NEW t \in Targets, Running(t), NEW why \in Statuses \ {"none", "ok"}, Fail(t, why),
         mode' = mode, volume' = volume, output' = output, nextId' = nextId, collected' = collected, Explained(t),
         \/ faults' = faults + 1
         \/ faults' = faults /\ proc[t].new \notin DOMAIN subvols \cup tmpdirs
  PROVE  Good(t)
<1>1. subvols \in [DOMAIN subvols -> SubvolRecord]
  BY Zenon DEF PublicationInv, StoreType
<1>2. /\ subvols' \in [DOMAIN subvols' -> SubvolRecord] /\ DOMAIN subvols' \subseteq DOMAIN subvols
      /\ \A i \in DOMAIN subvols : i # proc[t].new => i \in DOMAIN subvols' /\ subvols'[i] = subvols[i]
      /\ proc[t].new \in DOMAIN subvols' => subvols'[proc[t].new].of = subvols[proc[t].new].of
      /\ tmpdirs' \subseteq tmpdirs
  BY <1>1, Zenon DEF Fail, Without
<1>3. End(t, why)
  BY Zenon DEF Fail
<1> QED BY <1>2, <1>3, EndIsGood, Zenon

(* A system call of a build fails.                                           *)
LEMMA FaultIsGood ==
  ASSUME PublicationInv, NEW t \in Targets, Running(t), Fault(t),
         mode' = mode, volume' = volume, output' = output, nextId' = nextId, collected' = collected
  PROVE  Good(t)
<1>1. Fail(t, "fault") /\ faults' = faults + 1
  BY Zenon DEF Fault
<1>2. status'[t] = "fault"
  BY <1>1, Zenon DEF Fail, End, PublicationInv, StoreType
<1>3. Explained(t)
  BY <1>2, Zenon DEF Explained
<1> QED BY <1>1, <1>3, FailIsGood, Zenon DEF Statuses

(* A build goes on, and neither the volume nor its output changes.           *)
LEMMA OnwardIsGood ==
  ASSUME PublicationInv, NEW t \in Targets, Running(t),
         proc' \in [Targets -> ProcRecord], \A u \in Targets : u # t => proc'[u] = proc[u],
         mode' = mode, subvols' = subvols, tmpdirs' = tmpdirs, output' = output, status' = status,
         nextId' = nextId, collected' = collected, volume' \in BOOLEAN,
         proc'[t].pc \in 1 .. Last(t), proc'[t].new = proc[t].new, proc'[t].format = proc[t].format,
         HasNew(t)' <=> HasNew(t), Linked(t)' <=> Linked(t),
         Filled(t)' => Filled(t), InPlace(t)' => InPlace(t), Sealed(t)' => Sealed(t),
         Privileges(t)', OldIsOwn(t)',
         proc'[t].dep = IF Opened(t)' /\ Dep[t] # None THEN output[Dep[t]] ELSE None,
         NEW x,
         \A i \in DOMAIN subvols \cup tmpdirs : i # x \/ faults' = faults => (Accounted(t, i) => Accounted(t, i)'),
         faults' \in {faults, faults + 1}
  PROVE  Good(t)
<1>1. StoreType /\ Mine(t)
  BY Zenon DEF PublicationInv
<1>2. StoreType'
  BY <1>1 DEF StoreType
<1>3. Touches(t)
  BY <1>1, NothingTouched, Zenon
<1>4. OnlyOwn(t) /\ Explained(t)
  BY Zenon DEF OnlyOwn, Explained
<1>5. Mine(t)'
  <2>1. Placed(t)'
    BY <1>1 DEF Mine, Placed, Running, Last
  <2>2. NewIsGood(t)'
    <3>1. CASE ~HasNew(t)
      BY <1>1, <3>1, Zenon DEF Mine, NewIsGood
    <3>2. CASE HasNew(t)
      <4>1. GoodNew(t)
        BY <1>1, <3>2, Zenon DEF Mine, NewIsGood
      <4>2. GoodNew(t)'
        BY <4>1, Zenon DEF GoodNew, Exists
      <4> QED BY <3>2, <4>2, Zenon DEF NewIsGood
    <3> QED BY <3>1, <3>2, Zenon
  <2>3. DepIsBuilt(t)'
    BY <1>4, DepKept, Zenon
  <2>4. OutputIsOwn(t)'
    BY <1>2, <1>3, LastStage, OwnOutputKept
  <2>5. TmpIsHidden(t)'
    BY <1>1, Zenon DEF Mine, TmpIsHidden, Exists
  <2> QED BY <2>1, <2>2, <2>3, <2>4, <2>5, Zenon DEF Mine
<1>6. Charges
  <2>1. nextId \notin DOMAIN subvols \cup tmpdirs
    BY <1>1 DEF StoreType
  <2>2. CASE faults' = faults
    <3>1. \A i \in (DOMAIN subvols' \cup tmpdirs') \ {} :
            IF i = nextId THEN Accounted(t, i)' ELSE Accounted(t, i) => Accounted(t, i)'
      BY <2>1, <2>2, Zenon
    <3>2. Charged' \subseteq Charged \cup {}
      BY <1>1, <1>3, <1>4, <3>1, StepCharges, Zenon
    <3> QED BY <2>2, <3>2, Zenon DEF Charges
  <2>3. CASE faults' = faults + 1
    <3>1. \A i \in (DOMAIN subvols' \cup tmpdirs') \ {x} :
            IF i = nextId THEN Accounted(t, i)' ELSE Accounted(t, i) => Accounted(t, i)'
      BY <2>1, Zenon
    <3>2. Charged' \subseteq Charged \cup {x}
      BY <1>1, <1>3, <1>4, <3>1, StepCharges, Zenon
    <3> QED BY <2>3, <3>2, Zenon DEF Charges
  <2> QED BY <2>2, <2>3, Zenon
<1> QED BY <1>2, <1>3, <1>4, <1>5, <1>6, Zenon DEF Good

(* A build goes on to its next stage.                                        *)
LEMMA StepOn ==
  ASSUME NEW t \in Targets, StoreType, NEW p \in ProcRecord, p.pc # Last(t), Step(t, p)
  PROVE  /\ proc' \in [Targets -> ProcRecord]
         /\ \A u \in Targets : u # t => proc'[u] = proc[u]
         /\ Is(proc'[t], p.pc + 1, p.root, p.guards, p.dep, p.new, p.old, p.format)
<1>1. proc \in [Targets -> ProcRecord]
  BY Zenon DEF StoreType
<1> QED BY <1>1, StepFields, Zenon

(* A build goes on, and changes the volume or its output.                     *)
LEMMA ContinueIsGood ==
  ASSUME PublicationInv, NEW t \in Targets, Running(t), StoreType', Touches(t), OnlyOwn(t), status'[t] = status[t],
         proc'[t].pc \in 1 .. Last(t), proc'[t].format = proc[t].format, output'[t] \in {output[t], None} \/ OutputIsOwn(t)',
         Privileges(t)', NewIsGood(t)', OldIsOwn(t)', TmpIsHidden(t)', Charges,
         proc'[t].dep = IF Opened(t)' /\ Dep[t] # None THEN output[Dep[t]] ELSE None
  PROVE  Good(t)
<1>1. Explained(t)
  BY Zenon DEF Explained
<1>2. DepIsBuilt(t)'
  BY DepKept, Zenon
<1>3. OutputIsOwn(t)'
  BY OwnOutputKept, LastStage
<1>4. Placed(t)'
  BY DEF PublicationInv, Mine, Placed, Running, Last
<1> QED BY <1>1, <1>2, <1>3, <1>4, Zenon DEF Good, Mine

(* Nothing is left behind when everything accounted for stays so.             *)
LEMMA NoCharge ==
  ASSUME PublicationInv, NEW t \in Targets, Touches(t), OnlyOwn(t), faults' = faults,
         \A i \in DOMAIN subvols' \cup tmpdirs' :
            i \in Kept' \cup tmpdirs' /\ (i = nextId \/ Accounted(t, i)) => Accounted(t, i)'
  PROVE  Charges
<1>1. StoreType
  BY Zenon DEF PublicationInv
<1>2. \A i \in (DOMAIN subvols' \cup tmpdirs') \ {} : i \in Kept' \cup tmpdirs' =>
        IF i = nextId THEN Accounted(t, i)' ELSE Accounted(t, i) => Accounted(t, i)'
  BY Zenon
<1>3. Charged' \subseteq Charged \cup {}
  BY <1>1, <1>2, StepCharges, Zenon
<1> QED BY <1>3, Zenon DEF Charges

(* One subvolume is changed.                                                  *)
Updated(g, f, D, id, data, ro, tmp) ==
  /\ g \in [D -> SubvolRecord]
  /\ \A i \in D : i # id => g[i] = f[i]
  /\ id \in D => g[id].of = f[id].of /\ g[id].data = data /\ g[id].ro = ro /\ g[id].tmp = tmp

-----------------------------------------------------------------------------
(***************************************************************************)
(* Fields of a build's record                                              *)
(***************************************************************************)

(* The layer to build from is opened.                                         *)
LEMMA WithDep ==
  ASSUME NEW p \in ProcRecord, NEW x \in Ids
  PROVE  Is([p EXCEPT !.dep = x], p.pc, p.root, p.guards, x, p.new, p.old, p.format)
BY Zenon DEF Is, ProcRecord

(* The entries left to collect change.                                        *)
LEMMA WithTodo ==
  ASSUME NEW p \in ProcRecord, NEW x \in SUBSET ({"subvol", "tmp"} \X Nat)
  PROVE  Is([p EXCEPT !.todo = x], p.pc, p.root, p.guards, p.dep, p.new, p.old, p.format)
BY Zenon DEF Is, ProcRecord

(* Another attempt at sending is counted.                                     *)
LEMMA WithTries ==
  ASSUME NEW p \in ProcRecord, NEW x \in Nat
  PROVE  Is([p EXCEPT !.tries = x], p.pc, p.root, p.guards, p.dep, p.new, p.old, p.format)
BY Zenon DEF Is, ProcRecord

-----------------------------------------------------------------------------
(***************************************************************************)
(* From the start of a build to opening what it works on                   *)
(***************************************************************************)

(* WorkingVolume::ensure.                                                    *)
LEMMA EnsureIsGood ==
  ASSUME PublicationInv, NEW t \in Targets, Ensure(t)
  PROVE  Good(t)
<1>1. StoreType /\ Mine(t) /\ Running(t)
  BY Zenon DEF PublicationInv, Ensure, At, Running
<1>2. CASE Fault(t) /\ UNCHANGED volume
  BY <1>1, <1>2, FaultIsGood, Zenon DEF Ensure
<1>3. CASE volume' = TRUE /\ Step(t, proc[t]) /\ UNCHANGED <<faults, status, subvols, tmpdirs>>
  <2>1. IsAt(t, "compile", 1) \/ IsAt(t, "receive", 1) \/ IsAt(t, "send", 4) \/ IsAt(t, "materialize", 1)
    BY <1>1, StageNumbers, Zenon DEF Ensure, Mine, Placed
  <2>2. proc[t] \in ProcRecord /\ proc[t].pc # Last(t)
    BY <1>1, <2>1, LastStage DEF StoreType, IsAt
  <2>3. /\ proc' \in [Targets -> ProcRecord]
        /\ \A u \in Targets : u # t => proc'[u] = proc[u]
        /\ Is(proc'[t], proc[t].pc + 1, proc[t].root, proc[t].guards, proc[t].dep, proc[t].new, proc[t].old,
              proc[t].format)
    BY <1>1, <1>3, <2>2, StepOn, Zenon
  <2>4. /\ mode' = mode /\ subvols' = subvols /\ tmpdirs' = tmpdirs /\ output' = output /\ status' = status
        /\ nextId' = nextId /\ collected' = collected /\ volume' \in BOOLEAN /\ faults' = faults
    BY <1>3, Zenon DEF Ensure
  <2>5. /\ proc'[t].pc \in 1 .. Last(t)
        /\ proc'[t].new = proc[t].new /\ proc'[t].format = proc[t].format
        /\ HasNew(t)' <=> HasNew(t)
        /\ Linked(t)' <=> Linked(t)
        /\ Filled(t)' => Filled(t)
        /\ InPlace(t)' => InPlace(t)
        /\ Sealed(t)' => Sealed(t)
    BY <2>1, <2>3, LastStage DEF IsAt, Is, HasNew, Linked, Filled, InPlace, Sealed
  <2>6. Privileges(t)'
    BY <1>1, <2>1, <2>3, <2>4 DEF IsAt, Mine, Privileges, Is, UsesGuards
  <2>7. OldIsOwn(t)'
    BY <1>1, <2>1, <2>3 DEF IsAt, Mine, OldIsOwn, Is, AtDelete
  <2>8. proc'[t].dep = IF Opened(t)' /\ Dep[t] # None THEN output[Dep[t]] ELSE None
    BY <1>1, <2>1, <2>3 DEF IsAt, Mine, DepIsBuilt, Is, Opened
  <2>9. \A i : Accounted(t, i) => Accounted(t, i)'
    BY <2>1, <2>3, <2>4 DEF IsAt, Accounted, PastOld, Is
  <2> QED BY <1>1, <2>3, <2>4, <2>5, <2>6, <2>7, <2>8, <2>9, OnwardIsGood, Zenon
<1> QED BY <1>2, <1>3, Zenon DEF Ensure

(* Buck starts a build: it may remove the output, which no running build uses. *)
LEMMA BuckStartsIsGood ==
  ASSUME PublicationInv, NEW t \in Targets, BuckStarts(t)
  PROVE  Good(t)
<1>1. StoreType /\ Mine(t) /\ ~Running(t) /\ proc[t].pc = 0
  BY Zenon DEF PublicationInv, BuckStarts, Running
<1>2. /\ mode' = mode /\ nextId' = nextId /\ collected' = collected /\ volume' = volume /\ subvols' = subvols
      /\ tmpdirs' = tmpdirs /\ status' = status /\ faults' = faults
      /\ output' = IF Kind[t] = "materialize" THEN [output EXCEPT ![t] = None] ELSE output
  BY Zenon DEF BuckStarts
<1>3. PICK format \in IF Kind[t] = "receive" THEN {"sendstream", "cas_dir", "tar"} ELSE {None} :
        proc' = [proc EXCEPT ![t] = [Idle EXCEPT !.pc = 1, !.format = format,
                   !.root = IF mode = "userns" THEN Kind[t] \in {"compile", "receive"} ELSE InitialRoot]]
  BY Zenon DEF BuckStarts
<1>4. PICK root \in BOOLEAN : root = IF mode = "userns" THEN Kind[t] \in {"compile", "receive"} ELSE InitialRoot
  <2>1. CASE mode = "userns"
    <3>1. (Kind[t] \in {"compile", "receive"}) \in BOOLEAN
      OBVIOUS
    <3> QED BY <2>1, <3>1, Zenon
  <2>2. CASE mode # "userns"
    <3>1. (mode = "root") \in BOOLEAN
      BY Zenon
    <3> QED BY <2>2, <3>1, Zenon DEF InitialRoot
  <2> QED BY <2>1, <2>2, Zenon
<1>5. PICK q : q = [Idle EXCEPT !.pc = 1, !.format = format, !.root = root]
  BY Zenon
<1>6. Is(q, 1, root, 0, None, None, None, format)
  <2>1. q = [pc |-> 1, root |-> root, guards |-> 0, dep |-> None, new |-> None, old |-> None, format |-> format,
             todo |-> {}, tries |-> 0]
    BY <1>5, Zenon DEF Idle
  <2>2. format \in {None, "sendstream", "cas_dir", "tar"}
    BY Zenon
  <2>3. q \in ProcRecord
    BY <2>1, <2>2 DEF ProcRecord, Ids
  <2> QED BY <2>1, <2>3, Zenon DEF Is
<1>7. /\ proc' \in [Targets -> ProcRecord] /\ proc'[t] = q
      /\ \A u \in Targets : u # t => proc'[u] = proc[u]
  <2>1. proc' = [proc EXCEPT ![t] = q]
    BY <1>3, <1>4, <1>5, Zenon
  <2>2. proc \in [Targets -> ProcRecord] /\ q \in ProcRecord
    BY <1>1, <1>6, Zenon DEF StoreType, Is
  <2> QED BY <2>1, <2>2, Zenon
<1>8. Is(proc'[t], 1, root, 0, None, None, None, format)
  BY <1>6, <1>7, Zenon
<1>9. output' \in [Targets -> {None} \cup 1 .. nextId - 1] /\ output'[t] \in {output[t], None}
  BY <1>1, <1>2, Zenon DEF StoreType
<1>10. StoreType'
  BY <1>1, <1>2, <1>7, <1>9, Zenon DEF StoreType
<1>11. Touches(t) /\ OnlyOwn(t)
  <2>1. \A u \in Targets : u # t => output'[u] = output[u]
    BY <1>1, <1>2, Zenon DEF StoreType
  <2> QED BY <1>1, <1>2, <1>7, <2>1, NothingTouched, Zenon DEF OnlyOwn
<1>12. Explained(t)
  BY <1>2, Zenon DEF Explained
<1>13. Mine(t)'
  <2>1. Placed(t)'
    <3>1. 1 \in 0 .. Last(t)
      BY LastStage
    <3> QED BY <1>8, <3>1 DEF Placed, Is, Last
  <2>2. Privileges(t)'
    <3>1. Kind[t] = "send" => mode # "userns"
      BY Zenon DEF BuckStarts
    <3>2. mode = "userns" /\ Kind[t] \in {"compile", "receive"} => proc'[t].root
      BY <1>4, <1>8, Zenon DEF Is
    <3>3. proc'[t].pc = 1 /\ proc'[t].guards = 0
      BY <1>8, Zenon DEF Is
    <3> QED BY <1>2, <3>1, <3>2, <3>3 DEF Privileges, UsesGuards
  <2>3. NewIsGood(t)' /\ OldIsOwn(t)'
    BY <1>8 DEF NewIsGood, HasNew, OldIsOwn, Is
  <2>4. DepIsBuilt(t)'
    <3>1. Dep[t] # None => /\ Dep[t] \in Targets /\ Dep[t] # t /\ status[Dep[t]] = "ok" /\ ~Running(Dep[t])
      BY TargetsAssumption, Zenon DEF BuckStarts
    <3>2. Dep[t] # None => ~Running(Dep[t])' /\ status'[Dep[t]] = "ok"
      BY <1>2, <1>7, <3>1, Zenon DEF Running
    <3> QED BY <1>8, <3>2 DEF DepIsBuilt, Opened, Is
  <2>5. OutputIsOwn(t)'
    <3>1. proc'[t].pc # 0
      BY <1>8 DEF Is
    <3> QED BY <1>9, <1>10, <1>11, <3>1, OwnOutputKept, Zenon
  <2>6. TmpIsHidden(t)'
    BY <1>1, <1>2, <1>8, <1>9, TargetsAssumption DEF Mine, TmpIsHidden, StoreType, Is
  <2> QED BY <2>1, <2>2, <2>3, <2>4, <2>5, <2>6, Zenon DEF Mine
<1>14. Charges
  <2>1. proc[t].new = None /\ proc[t].new \notin DOMAIN subvols \cup tmpdirs /\ nextId \notin DOMAIN subvols \cup tmpdirs
    BY <1>1, TargetsAssumption DEF Mine, NewIsGood, HasNew, StoreType
  <2>2. output[t] \notin tmpdirs /\ (output[t] \in DOMAIN subvols => subvols[output[t]].of = t)
    BY <1>1, Zenon DEF Mine, TmpIsHidden, OutputIsOwn, Exists
  <2>3. ASSUME NEW i \in Kept \cup tmpdirs, Accounted(t, i)
        PROVE  Accounted(t, i)'
    <3>1. i = output[t]
      BY <2>1, <2>3, Zenon DEF Accounted, Kept
    <3>2. Kind[t] # "materialize"
      BY <2>2, <2>3, <3>1, Zenon DEF Kept
    <3>3. output'[t] = output[t] /\ ~PastOld(t)'
      BY <1>2, <1>8, <3>2 DEF PastOld, Is
    <3> QED BY <3>1, <3>3, Zenon DEF Accounted
  <2>4. Kept' = Kept
    BY <1>2, Zenon DEF Kept
  <2>5. \A i \in (DOMAIN subvols' \cup tmpdirs') \ {} : i \in Kept' \cup tmpdirs' =>
          IF i = nextId THEN Accounted(t, i)' ELSE Accounted(t, i) => Accounted(t, i)'
    BY <1>2, <2>1, <2>3, <2>4, Zenon
  <2>6. Charged' \subseteq Charged \cup {}
    BY <1>1, <1>11, <2>5, StepCharges, Zenon
  <2> QED BY <1>2, <2>6, Zenon DEF Charges
<1> QED BY <1>10, <1>11, <1>12, <1>13, <1>14, Zenon DEF Good

(* A build is killed.                                                         *)
LEMMA KillIsGood ==
  ASSUME PublicationInv, NEW t \in Targets, Kill(t)
  PROVE  Good(t)
<1>1. StoreType /\ Running(t) /\ End(t, "killed") /\ faults' = faults + 1
  BY Zenon DEF PublicationInv, Kill
<1>2. /\ mode' = mode /\ nextId' = nextId /\ collected' = collected /\ volume' = volume /\ subvols' = subvols
      /\ tmpdirs' = tmpdirs /\ output' = output
  BY Zenon DEF Kill
<1>3. status'[t] = "killed"
  BY <1>1, Zenon DEF End, StoreType
<1>4. Explained(t)
  BY <1>3, Zenon DEF Explained
<1>5. subvols' \in [DOMAIN subvols' -> SubvolRecord]
  BY <1>1, <1>2, Zenon DEF StoreType
<1> QED BY <1>1, <1>2, <1>4, <1>5, EndIsGood, Zenon DEF Statuses

(* Subvolume::open of the layer to build from: the layer is there, or has     *)
(* been collected.                                                            *)
LEMMA OpenDepIsGood ==
  ASSUME PublicationInv, NEW t \in Targets, OpenDep(t)
  PROVE  Good(t)
<1>1. StoreType /\ Mine(t) /\ Running(t)
  BY Zenon DEF PublicationInv, OpenDep, At, Running
<1>2. IsAt(t, "compile", 2) \/ IsAt(t, "send", 1)
  BY <1>1, StageNumbers, Zenon DEF OpenDep, Mine, Placed
<1>3. /\ mode' = mode /\ output' = output /\ nextId' = nextId /\ collected' = collected /\ volume' = volume
      /\ faults' = faults
  BY Zenon DEF OpenDep
<1>4. proc[t].new = None /\ proc[t].dep = None /\ proc[t].old = None
  BY <1>1, <1>2 DEF Mine, NewIsGood, HasNew, IsAt, DepIsBuilt, Opened, OldIsOwn, AtDelete
<1>5. proc[t].new \notin DOMAIN subvols \cup tmpdirs
  BY <1>1, <1>4, TargetsAssumption DEF StoreType
<1> DEFINE d == IF Dep[t] = None THEN None ELSE output[Dep[t]]
           p == IF Kind[t] = "compile" THEN Escalate(t, Escalate(t, proc[t])) ELSE proc[t]
<1>6. CASE Kind[t] = "compile" /\ mode = "user"
  <2>1. Fail(t, "escalate")
    BY <1>6, Zenon DEF OpenDep
  <2>2. status'[t] = "escalate"
    BY <1>1, <2>1, Zenon DEF Fail, End, StoreType
  <2>3. Explained(t)
    BY <1>6, <2>2, Zenon DEF Explained
  <2> QED BY <1>1, <1>3, <1>5, <2>1, <2>3, FailIsGood, Zenon DEF Statuses
<1>7. CASE ~(Kind[t] = "compile" /\ mode = "user") /\ d # None /\ ~Exists(d)
  <2>1. Fail(t, "parent gone")
    BY <1>7, Zenon DEF OpenDep
  <2>2. status'[t] = "parent gone"
    BY <1>1, <2>1, Zenon DEF Fail, End, StoreType
  <2>3. d = output[Dep[t]] /\ Dep[t] # None /\ Dep[t] \in Targets
    BY <1>7, TargetsAssumption, Zenon
  <2>4. ~Running(Dep[t]) /\ status[Dep[t]] = "ok" /\ Mine(Dep[t])
    BY <1>1, <2>3, Zenon DEF Mine, DepIsBuilt, PublicationInv
  <2>5. d \in collected
    BY <1>7, <2>3, <2>4, Zenon DEF Mine, OutputIsOwn
  <2>6. Explained(t)
    BY <1>4, <2>2, <2>3, <2>5, Zenon DEF Explained
  <2> QED BY <1>1, <1>3, <1>5, <2>1, <2>6, FailIsGood, Zenon DEF Statuses
<1>8. CASE ~(Kind[t] = "compile" /\ mode = "user") /\ ~(d # None /\ ~Exists(d))
  <2>1. Step(t, [p EXCEPT !.dep = d]) /\ UNCHANGED <<status, subvols, tmpdirs>>
    BY <1>8, Zenon DEF OpenDep
  <2>2. proc[t] \in ProcRecord /\ proc[t].pc # Last(t) /\ d \in Ids
    BY <1>1, <1>2, LastStage, TargetsAssumption DEF StoreType, IsAt, Ids
  <2>3. Is(p, proc[t].pc, (Kind[t] = "compile" /\ UsesGuards(t)) \/ proc[t].root,
           IF Kind[t] = "compile" /\ UsesGuards(t) THEN proc[t].guards + 2 ELSE proc[t].guards,
           proc[t].dep, proc[t].new, proc[t].old, proc[t].format)
    <3>0. proc[t].root \in BOOLEAN /\ proc[t].guards \in Int
      BY <2>2, Zenon DEF ProcRecord
    <3>1. CASE Kind[t] = "compile"
      <4>1. PICK q : q = Escalate(t, proc[t])
        BY Zenon
      <4>2. Is(q, proc[t].pc, UsesGuards(t) \/ proc[t].root,
               IF UsesGuards(t) THEN proc[t].guards + 1 ELSE proc[t].guards,
               proc[t].dep, proc[t].new, proc[t].old, proc[t].format)
        BY <2>2, <4>1, EscalateFields, Zenon
      <4>3. Is(Escalate(t, q), q.pc, UsesGuards(t) \/ q.root, IF UsesGuards(t) THEN q.guards + 1 ELSE q.guards,
            q.dep, q.new, q.old, q.format)
        BY <4>2, EscalateFields, Zenon DEF Is
      <4>4. p = Escalate(t, q)
        BY <3>1, <4>1, Zenon
      <4> HIDE DEF p
      <4> QED BY <3>0, <3>1, <4>2, <4>3, <4>4 DEF Is
    <3>2. CASE Kind[t] # "compile"
      BY <2>2, <3>0, <3>2, Zenon DEF Is
    <3> QED BY <3>1, <3>2, Zenon
  <2> HIDE DEF p
  <2>4. PICK q : q = [p EXCEPT !.dep = d]
    BY Zenon
  <2>5. Is(q, p.pc, p.root, p.guards, d, p.new, p.old, p.format)
    BY <2>2, <2>3, <2>4, WithDep, Zenon DEF Is
  <2>6. q \in ProcRecord /\ q.pc # Last(t) /\ Step(t, q)
    <3>1. Step(t, q)
      BY <2>1, <2>4, Zenon
    <3> QED BY <2>2, <2>3, <2>5, <3>1, Zenon DEF Is
  <2>7. /\ proc' \in [Targets -> ProcRecord]
        /\ \A u \in Targets : u # t => proc'[u] = proc[u]
        /\ Is(proc'[t], q.pc + 1, q.root, q.guards, q.dep, q.new, q.old, q.format)
    BY <1>1, <2>6, StepOn, Zenon
  <2>8. Is(proc'[t], proc[t].pc + 1, (Kind[t] = "compile" /\ UsesGuards(t)) \/ proc[t].root,
           IF Kind[t] = "compile" /\ UsesGuards(t) THEN proc[t].guards + 2 ELSE proc[t].guards,
           d, proc[t].new, proc[t].old, proc[t].format)
    BY <2>3, <2>5, <2>7, Zenon DEF Is
  <2>9. /\ proc'[t].pc \in 1 .. Last(t)
        /\ proc'[t].new = proc[t].new /\ proc'[t].format = proc[t].format
        /\ HasNew(t)' <=> HasNew(t)
        /\ Linked(t)' <=> Linked(t)
        /\ Filled(t)' => Filled(t)
        /\ InPlace(t)' => InPlace(t)
        /\ Sealed(t)' => Sealed(t)
    BY <1>2, <2>8, LastStage DEF IsAt, Is, HasNew, Linked, Filled, InPlace, Sealed
  <2>10. Privileges(t)'
    <3>1. UsesGuards(t) <=> mode # "userns"
      BY <1>2, Zenon DEF UsesGuards, IsAt
    <3>2. /\ Kind[t] = "compile" => proc'[t].pc = 3 /\ mode # "user"
          /\ Kind[t] = "send" => proc'[t].pc = 2
          /\ Kind[t] = "compile" \/ Kind[t] = "send"
      BY <1>2, <1>8, <2>8 DEF IsAt, Is
    <3>3. Kind[t] = "send" => mode # "userns"
      BY <1>1, <1>2 DEF IsAt, Mine, Privileges
    <3>4. Kind[t] = "compile" => proc'[t].root
      <4>1. mode = "userns" /\ Kind[t] = "compile" => proc[t].root
        BY <1>1, <1>2, Zenon DEF IsAt, Mine, Privileges
      <4> QED BY <2>8, <3>1, <4>1, Zenon DEF Is
    <3>5. proc'[t].guards = IF Kind[t] = "compile" /\ UsesGuards(t) THEN 2 ELSE 0
      <4>1. proc[t].guards = 0
        BY <1>1, <1>2 DEF IsAt, Mine, Privileges
      <4> QED BY <2>8, <4>1 DEF Is
    <3> QED BY <1>3, <3>1, <3>2, <3>3, <3>4, <3>5, Zenon DEF Privileges, UsesGuards
  <2>11. OldIsOwn(t)'
    BY <1>4, <2>8, Zenon DEF OldIsOwn, Is
  <2>12. proc'[t].dep = IF Opened(t)' /\ Dep[t] # None THEN output[Dep[t]] ELSE None
    BY <1>2, <2>8 DEF IsAt, Is, Opened
  <2>13. \A i : Accounted(t, i) => Accounted(t, i)'
    BY <1>2, <1>3, <2>8 DEF IsAt, Accounted, PastOld, Is
  <2>14. volume' \in BOOLEAN /\ subvols' = subvols /\ tmpdirs' = tmpdirs /\ status' = status
    BY <1>1, <1>3, <2>1, Zenon DEF StoreType
  <2> HIDE DEF d
  <2> QED BY <1>1, <1>3, <2>7, <2>9, <2>10, <2>11, <2>12, <2>13, <2>14, OnwardIsGood, Zenon
<1> QED BY <1>6, <1>7, <1>8, Zenon

(* btrfs send | sendstream-upgrade, and its retries.                          *)
LEMMA SendIsGood ==
  ASSUME PublicationInv, NEW t \in Targets, Send(t)
  PROVE  Good(t)
<1>1. StoreType /\ Mine(t) /\ Running(t)
  BY Zenon DEF PublicationInv, Send, At, Running
<1>2. IsAt(t, "send", 3)
  BY <1>1, StageNumbers, Zenon DEF Send, Mine, Placed
<1>3. /\ mode' = mode /\ output' = output /\ nextId' = nextId /\ collected' = collected /\ volume' = volume
      /\ volume' \in BOOLEAN
  BY <1>1, Zenon DEF Send, StoreType
<1>4. CASE Fault(t)
  BY <1>1, <1>3, <1>4, FaultIsGood, Zenon
<1>5. ASSUME proc' \in [Targets -> ProcRecord], \A u \in Targets : u # t => proc'[u] = proc[u],
             NEW pc \in {3, 4},
             Is(proc'[t], pc, proc[t].root, proc[t].guards, proc[t].dep, proc[t].new, proc[t].old, proc[t].format),
             UNCHANGED <<status, faults, subvols, tmpdirs>>
      PROVE  Good(t)
  <2>1. /\ proc'[t].pc \in 1 .. Last(t)
        /\ proc'[t].new = proc[t].new /\ proc'[t].format = proc[t].format
        /\ HasNew(t)' <=> HasNew(t)
        /\ Linked(t)' <=> Linked(t)
        /\ Filled(t)' => Filled(t)
        /\ InPlace(t)' => InPlace(t)
        /\ Sealed(t)' => Sealed(t)
    BY <1>2, <1>5, LastStage DEF IsAt, Is, HasNew, Linked, Filled, InPlace, Sealed
  <2>2. Privileges(t)'
    BY <1>1, <1>2, <1>3, <1>5 DEF IsAt, Mine, Privileges, Is, UsesGuards
  <2>3. OldIsOwn(t)'
    BY <1>1, <1>2, <1>5 DEF IsAt, Mine, OldIsOwn, Is, AtDelete
  <2>4. proc'[t].dep = IF Opened(t)' /\ Dep[t] # None THEN output[Dep[t]] ELSE None
    BY <1>1, <1>2, <1>5 DEF IsAt, Mine, DepIsBuilt, Is, Opened
  <2>5. \A i : Accounted(t, i) => Accounted(t, i)'
    BY <1>2, <1>3, <1>5 DEF IsAt, Accounted, PastOld, Is
  <2>6. subvols' = subvols /\ tmpdirs' = tmpdirs /\ status' = status /\ faults' = faults
    BY <1>5, Zenon
  <2> QED BY <1>1, <1>3, <1>5, <2>1, <2>2, <2>3, <2>4, <2>5, <2>6, OnwardIsGood, Zenon
<1>6. proc[t] \in ProcRecord /\ proc[t].pc = 3 /\ Last(t) = 9 /\ proc \in [Targets -> ProcRecord]
  BY <1>1, <1>2, LastStage, Zenon DEF StoreType, IsAt
<1>7. CASE Step(t, proc[t]) /\ UNCHANGED <<status, faults, subvols, tmpdirs>>
  <2>1. /\ proc' \in [Targets -> ProcRecord]
        /\ \A u \in Targets : u # t => proc'[u] = proc[u]
        /\ Is(proc'[t], proc[t].pc + 1, proc[t].root, proc[t].guards, proc[t].dep, proc[t].new, proc[t].old,
              proc[t].format)
    <3>1. proc[t].pc # Last(t)
      BY <1>6
    <3> QED BY <1>1, <1>6, <1>7, <3>1, StepOn, Zenon
  <2>2. Is(proc'[t], 4, proc[t].root, proc[t].guards, proc[t].dep, proc[t].new, proc[t].old, proc[t].format)
    BY <1>6, <2>1
  <2> QED BY <1>5, <1>7, <2>1, <2>2, Zenon
<1>8. CASE proc' = [proc EXCEPT ![t].tries = @ + 1] /\ UNCHANGED <<status, faults, subvols, tmpdirs>>
  <2>1. PICK q : q = [proc[t] EXCEPT !.tries = proc[t].tries + 1]
    BY Zenon
  <2>2. proc[t].tries + 1 \in Nat
    BY <1>6 DEF ProcRecord
  <2>3. Is(q, proc[t].pc, proc[t].root, proc[t].guards, proc[t].dep, proc[t].new, proc[t].old, proc[t].format)
    BY <1>6, <2>1, <2>2, WithTries, Zenon
  <2>4. proc' = [proc EXCEPT ![t] = q]
    BY <1>6, <1>8, <2>1, Zenon
  <2>5. proc' \in [Targets -> ProcRecord] /\ proc'[t] = q /\ \A u \in Targets : u # t => proc'[u] = proc[u]
    BY <1>6, <2>3, <2>4, Zenon DEF Is
  <2>6. Is(proc'[t], 3, proc[t].root, proc[t].guards, proc[t].dep, proc[t].new, proc[t].old, proc[t].format)
    BY <1>6, <2>3, <2>5, Zenon
  <2>7. UNCHANGED <<status, faults, subvols, tmpdirs>>
    BY <1>8, Zenon
  <2> QED BY <1>5, <2>5, <2>6, <2>7, Zenon
<1> QED BY <1>4, <1>7, <1>8, Zenon DEF Send

(* Subvolume::open of what the output names; on an error nothing is deleted   *)
(* later, and a subvolume may be left behind.                                 *)
LEMMA OpenOldIsGood ==
  ASSUME PublicationInv, NEW t \in Targets, OpenOld(t)
  PROVE  Good(t)
<1>1. StoreType /\ Mine(t) /\ Running(t)
  BY Zenon DEF PublicationInv, OpenOld, At, Running
<1>2. IsAt(t, "compile", 5) \/ IsAt(t, "receive", 6) \/ IsAt(t, "send", 6) \/ IsAt(t, "materialize", 2)
  BY <1>1, StageNumbers, Zenon DEF OpenOld, Mine, Placed
<1>3. /\ mode' = mode /\ output' = output /\ nextId' = nextId /\ collected' = collected /\ volume' = volume
      /\ volume' \in BOOLEAN /\ subvols' = subvols /\ tmpdirs' = tmpdirs /\ status' = status
  BY <1>1, Zenon DEF OpenOld, StoreType
<1>4. PICK p : p = IF Kind[t] = "compile" THEN Escalate(t, proc[t]) ELSE proc[t]
  BY Zenon
<1>5. PICK old : /\ Step(t, [p EXCEPT !.old = old])
                 /\ \/ old = Previous(t) /\ faults' = faults
                    \/ old = None /\ faults' = faults + 1
  BY <1>4, Zenon DEF OpenOld
<1>6. old \in Ids /\ (old # None => Exists(old) /\ old = output[t])
  BY <1>1, <1>5, TargetsAssumption DEF Previous, StoreType, Ids, Exists
<1>7. proc[t] \in ProcRecord /\ proc[t].pc # Last(t) /\ proc[t].root \in BOOLEAN
  <2>1. proc[t] \in ProcRecord
    BY <1>1, Zenon DEF StoreType
  <2> QED BY <1>2, <2>1, LastStage DEF IsAt, ProcRecord
<1>8. Is(p, proc[t].pc, (Kind[t] = "compile" /\ UsesGuards(t)) \/ proc[t].root,
         IF Kind[t] = "compile" /\ UsesGuards(t) THEN proc[t].guards + 1 ELSE proc[t].guards,
         proc[t].dep, proc[t].new, proc[t].old, proc[t].format)
  <2>1. Is(Escalate(t, proc[t]), proc[t].pc, UsesGuards(t) \/ proc[t].root,
           IF UsesGuards(t) THEN proc[t].guards + 1 ELSE proc[t].guards,
           proc[t].dep, proc[t].new, proc[t].old, proc[t].format)
    BY <1>7, EscalateFields, Zenon
  <2> QED BY <1>4, <1>7, <2>1, Zenon DEF Is
<1>9. PICK q : q = [p EXCEPT !.old = old]
  BY Zenon
<1>10. Is(q, p.pc, p.root, p.guards, p.dep, p.new, old, p.format)
  BY <1>6, <1>8, <1>9, WithOld, Zenon DEF Is
<1>11. q \in ProcRecord /\ q.pc # Last(t) /\ Step(t, q)
  <2>1. Step(t, q)
    BY <1>5, <1>9, Zenon
  <2> QED BY <1>7, <1>8, <1>10, <2>1, Zenon DEF Is
<1>12. /\ proc' \in [Targets -> ProcRecord]
       /\ \A u \in Targets : u # t => proc'[u] = proc[u]
       /\ Is(proc'[t], q.pc + 1, q.root, q.guards, q.dep, q.new, q.old, q.format)
  BY <1>1, <1>11, StepOn, Zenon
<1>13. Is(proc'[t], proc[t].pc + 1, (Kind[t] = "compile" /\ UsesGuards(t)) \/ proc[t].root,
          IF Kind[t] = "compile" /\ UsesGuards(t) THEN proc[t].guards + 1 ELSE proc[t].guards,
          proc[t].dep, proc[t].new, old, proc[t].format)
  BY <1>8, <1>10, <1>12, Zenon DEF Is
<1>14. /\ proc'[t].pc \in 1 .. Last(t)
       /\ proc'[t].new = proc[t].new /\ proc'[t].format = proc[t].format
       /\ HasNew(t)' <=> HasNew(t)
       /\ Linked(t)' <=> Linked(t)
       /\ Filled(t)' => Filled(t)
       /\ InPlace(t)' => InPlace(t)
       /\ Sealed(t)' => Sealed(t)
  BY <1>2, <1>13, LastStage DEF IsAt, Is, HasNew, Linked, Filled, InPlace, Sealed
<1>15. Privileges(t)'
  <2>1. /\ mode = "userns" /\ Kind[t] \in {"compile", "receive"} => proc[t].root
        /\ Kind[t] = "receive" => proc[t].root /\ mode # "user"
        /\ Kind[t] = "compile" => mode # "user"
        /\ Kind[t] = "send" => mode # "userns"
        /\ proc[t].guards = IF Kind[t] = "receive" /\ UsesGuards(t) THEN 1 ELSE 0
    BY <1>1, <1>2 DEF IsAt, Mine, Privileges
  <2>2. /\ Kind[t] \in {"compile", "receive"} => proc'[t].root
        /\ proc'[t].guards = IF Kind[t] \in {"compile", "receive"} /\ UsesGuards(t) THEN 1 ELSE 0
    <3>1. Kind[t] \in {"compile", "receive"} => UsesGuards(t) \/ mode = "userns"
      BY Zenon DEF UsesGuards
    <3>2. Kind[t] \in {"compile", "receive"} => proc'[t].root
      BY <1>13, <2>1, <3>1, Zenon DEF Is
    <3>3. proc'[t].guards = IF Kind[t] \in {"compile", "receive"} /\ UsesGuards(t) THEN 1 ELSE 0
      BY <1>13, <2>1 DEF Is
    <3> QED BY <3>2, <3>3, Zenon
  <2>3. \/ Kind[t] = "compile" /\ proc'[t].pc = 6
        \/ Kind[t] \in {"receive", "send"} /\ proc'[t].pc = 7
        \/ Kind[t] = "materialize" /\ proc'[t].pc = 3
    BY <1>2, <1>13 DEF Is, IsAt
  <2> QED BY <1>3, <2>1, <2>2, <2>3 DEF Privileges, UsesGuards
<1>16. OldIsOwn(t)'
  <2>1. proc'[t].old = old /\ AtDelete(t)'
    BY <1>2, <1>13 DEF Is, IsAt, AtDelete
  <2>2. old # None => subvols[old].of = t /\ old \in 1 .. nextId - 1
    BY <1>1, <1>6, Zenon DEF Mine, OutputIsOwn, StoreType, Exists
  <2>3. old # None => old # proc[t].new
    BY <1>1, <1>2, <1>6 DEF Mine, NewIsGood, GoodNew, Linked, HasNew, IsAt
  <2> QED BY <1>3, <1>14, <2>1, <2>2, <2>3, Zenon DEF OldIsOwn, Exists
<1>17. proc'[t].dep = IF Opened(t)' /\ Dep[t] # None THEN output[Dep[t]] ELSE None
  BY <1>1, <1>2, <1>13 DEF IsAt, Mine, DepIsBuilt, Is, Opened
<1>18. \A i \in DOMAIN subvols \cup tmpdirs :
         i # output[t] \/ faults' = faults => (Accounted(t, i) => Accounted(t, i)')
  <2>1. faults' = faults => old = Previous(t)
    BY <1>1, <1>5 DEF StoreType
  <2>2. output[t] \notin tmpdirs
    BY <1>1, Zenon DEF Mine, TmpIsHidden
  <2>3. ASSUME output[t] \in DOMAIN subvols, faults' = faults
        PROVE  old = output[t]
    BY <1>1, <2>1, <2>3, TargetsAssumption, Zenon DEF Previous, Exists, StoreType
  <2> QED BY <1>3, <1>13, <2>2, <2>3, Zenon DEF Accounted, Is
<1>19. faults' \in {faults, faults + 1}
  BY <1>5, Zenon
<1> QED BY <1>1, <1>3, <1>12, <1>14, <1>15, <1>16, <1>17, <1>18, <1>19, OnwardIsGood, Zenon

-----------------------------------------------------------------------------
(***************************************************************************)
(* Publishing the new subvolume, and garbage collection                    *)
(***************************************************************************)

(* remove_file of the output: what it named has been deleted by then, or the  *)
(* fault that kept it has been counted.                                       *)
LEMMA UnlinkIsGood ==
  ASSUME PublicationInv, NEW t \in Targets, Unlink(t)
  PROVE  Good(t)
<1>1. StoreType /\ Mine(t) /\ Running(t)
  BY Zenon DEF PublicationInv, Unlink, At, Running
<1>2. Kind[t] \in {"compile", "receive", "send"} /\ proc[t].pc = 8
  BY <1>1, StageNumbers, Zenon DEF Unlink, Mine, Placed, IsAt
<1>3. /\ mode' = mode /\ nextId' = nextId /\ collected' = collected /\ volume' = volume /\ subvols' = subvols
      /\ tmpdirs' = tmpdirs /\ status' = status /\ faults' = faults
  BY Zenon DEF Unlink
<1>4. /\ output'[t] = None /\ output' \in [Targets -> {None} \cup 1 .. nextId - 1]
      /\ \A u \in Targets : u # t => output'[u] = output[u]
  BY <1>1, Zenon DEF Unlink, StoreType
<1>5. proc[t] \in ProcRecord /\ proc[t].pc # Last(t)
  BY <1>1, <1>2, LastStage DEF StoreType
<1>6. /\ proc' \in [Targets -> ProcRecord]
      /\ \A u \in Targets : u # t => proc'[u] = proc[u]
      /\ Is(proc'[t], proc[t].pc + 1, proc[t].root, proc[t].guards, proc[t].dep, proc[t].new, proc[t].old,
            proc[t].format)
  <2>1. Step(t, proc[t])
    BY Zenon DEF Unlink
  <2> QED BY <1>1, <1>5, <2>1, StepOn, Zenon
<1>7. /\ proc'[t].pc = 9 /\ proc'[t].root = proc[t].root /\ proc'[t].guards = proc[t].guards
      /\ proc'[t].dep = proc[t].dep /\ proc'[t].new = proc[t].new /\ proc'[t].old = proc[t].old
      /\ proc'[t].format = proc[t].format
  BY <1>2, <1>6 DEF Is
<1>8. StoreType'
  BY <1>1, <1>3, <1>4, <1>6, Zenon DEF StoreType
<1>9. Touches(t) /\ OnlyOwn(t)
  BY <1>1, <1>3, <1>4, <1>6, NothingTouched, Zenon DEF OnlyOwn
<1>10. Privileges(t)'
  BY <1>1, <1>2, <1>3, <1>7 DEF Mine, Privileges, UsesGuards
<1>11. proc[t].old = None
  BY <1>1, <1>2 DEF Mine, OldIsOwn, AtDelete
<1>12. HasNew(t) /\ GoodNew(t) /\ HasNew(t)'
  BY <1>1, <1>2, <1>7 DEF Mine, NewIsGood, HasNew
<1>13. NewIsGood(t)'
  <2>1. Filled(t) /\ InPlace(t) /\ ~Linked(t)' /\ (Sealed(t)' => Sealed(t))
    BY <1>2, <1>7 DEF Filled, InPlace, Linked, Sealed
  <2>2. output'[t] # proc[t].new
    BY <1>1, <1>4, <1>12, TargetsAssumption DEF GoodNew, StoreType
  <2>3. GoodNew(t)'
    BY <1>3, <1>7, <1>12, <2>1, <2>2, Zenon DEF GoodNew, Exists
  <2> QED BY <1>12, <2>3, Zenon DEF NewIsGood
<1>14. OldIsOwn(t)' /\ TmpIsHidden(t)'
  BY <1>1, <1>3, <1>4, <1>7, <1>11, TargetsAssumption DEF Mine, OldIsOwn, TmpIsHidden, StoreType, Exists
<1>15. proc'[t].dep = IF Opened(t)' /\ Dep[t] # None THEN output[Dep[t]] ELSE None
  BY <1>1, <1>2, <1>7 DEF Mine, DepIsBuilt, Opened
<1>16. Charges
  <2>1. \A i \in DOMAIN subvols \cup tmpdirs : Accounted(t, i) => i = proc[t].new
    BY <1>1, <1>2, <1>11, TargetsAssumption DEF Accounted, PastOld, StoreType
  <2>2. nextId \notin DOMAIN subvols \cup tmpdirs
    BY <1>1 DEF StoreType
  <2> QED BY <1>3, <1>7, <1>9, <2>1, <2>2, NoCharge, Zenon DEF Accounted
<1>17. proc'[t].pc \in 1 .. Last(t)
  BY <1>2, <1>7, LastStage
<1> QED BY <1>1, <1>3, <1>4, <1>7, <1>8, <1>9, <1>10, <1>13, <1>14, <1>15, <1>16, <1>17, ContinueIsGood, Zenon

(* garbage_collect_old_subvols begins: the directory is listed.               *)
LEMMA BeginGcIsGood ==
  ASSUME PublicationInv, NEW t \in Targets, BeginGc(t)
  PROVE  Good(t)
<1>1. StoreType /\ Mine(t) /\ Running(t)
  BY Zenon DEF PublicationInv, BeginGc, At, Running
<1>2. Kind[t] = "compile" /\ proc[t].pc = 10 /\ Last(t) = 11
  BY <1>1, StageNumbers, LastStage, Zenon DEF BeginGc, Mine, Placed, IsAt
<1>3. /\ mode' = mode /\ nextId' = nextId /\ collected' = collected /\ volume' = volume /\ subvols' = subvols
      /\ tmpdirs' = tmpdirs /\ status' = status /\ faults' = faults /\ output' = output /\ volume' \in BOOLEAN
  BY <1>1, Zenon DEF BeginGc, StoreType
<1>4. proc[t] \in ProcRecord /\ proc[t].root \in BOOLEAN
  <2>1. proc[t] \in ProcRecord
    BY <1>1, Zenon DEF StoreType
  <2> QED BY <2>1, Zenon DEF ProcRecord
<1>5. Entries \in SUBSET ({"subvol", "tmp"} \X Nat)
  BY <1>1 DEF Entries, StoreType
<1>6. PICK p : p = Escalate(t, proc[t])
  BY Zenon
<1>7. Is(p, proc[t].pc, UsesGuards(t) \/ proc[t].root, IF UsesGuards(t) THEN proc[t].guards + 1 ELSE proc[t].guards,
         proc[t].dep, proc[t].new, proc[t].old, proc[t].format)
  BY <1>4, <1>6, EscalateFields, Zenon
<1>8. PICK q : q = [p EXCEPT !.todo = Entries]
  BY Zenon
<1>9. Is(q, p.pc, p.root, p.guards, p.dep, p.new, p.old, p.format)
  BY <1>5, <1>7, <1>8, WithTodo, Zenon DEF Is
<1>10. q \in ProcRecord /\ q.pc # Last(t) /\ Step(t, q)
  <2>1. Step(t, q)
    BY <1>6, <1>8, Zenon DEF BeginGc
  <2> QED BY <1>2, <1>7, <1>9, <2>1 DEF Is
<1>11. /\ proc' \in [Targets -> ProcRecord]
       /\ \A u \in Targets : u # t => proc'[u] = proc[u]
       /\ Is(proc'[t], q.pc + 1, q.root, q.guards, q.dep, q.new, q.old, q.format)
  BY <1>1, <1>10, StepOn, Zenon
<1>12. /\ proc'[t].pc = 11 /\ proc'[t].root = (UsesGuards(t) \/ proc[t].root)
       /\ proc'[t].guards = IF UsesGuards(t) THEN proc[t].guards + 1 ELSE proc[t].guards
       /\ proc'[t].dep = proc[t].dep /\ proc'[t].new = proc[t].new /\ proc'[t].old = proc[t].old
       /\ proc'[t].format = proc[t].format
  BY <1>2, <1>7, <1>9, <1>11 DEF Is
<1>13. /\ proc'[t].pc \in 1 .. Last(t)
       /\ HasNew(t)' <=> HasNew(t)
       /\ Linked(t)' <=> Linked(t)
       /\ Filled(t)' => Filled(t)
       /\ InPlace(t)' => InPlace(t)
       /\ Sealed(t)' => Sealed(t)
  BY <1>2, <1>12 DEF HasNew, Linked, Filled, InPlace, Sealed
<1>14. Privileges(t)'
  <2>1. proc[t].guards = 0 /\ mode # "user" /\ (mode = "userns" => proc[t].root)
    BY <1>1, <1>2 DEF Mine, Privileges
  <2>2. proc'[t].guards = IF UsesGuards(t) THEN 1 ELSE 0
    BY <1>12, <2>1
  <2>3. mode = "userns" => proc'[t].root
    BY <1>12, <2>1, Zenon
  <2> QED BY <1>2, <1>3, <1>12, <2>1, <2>2, <2>3 DEF Privileges, UsesGuards
<1>15. proc[t].old = None
  BY <1>1, <1>2 DEF Mine, OldIsOwn, AtDelete
<1>16. OldIsOwn(t)'
  BY <1>12, <1>15, Zenon DEF OldIsOwn
<1>17. proc'[t].dep = IF Opened(t)' /\ Dep[t] # None THEN output[Dep[t]] ELSE None
  BY <1>1, <1>2, <1>12 DEF Mine, DepIsBuilt, Opened
<1>18. \A i : Accounted(t, i) => Accounted(t, i)'
  BY <1>2, <1>3, <1>12 DEF Accounted, PastOld
<1> QED BY <1>1, <1>3, <1>11, <1>12, <1>13, <1>14, <1>16, <1>17, <1>18, OnwardIsGood, Zenon

(* An old subvolume is collected, or the collection goes on without.          *)
LEMMA CollectIsGood ==
  ASSUME PublicationInv, NEW t \in Targets, Collect(t)
  PROVE  Good(t)
<1>1. StoreType /\ Mine(t) /\ Running(t)
  BY Zenon DEF PublicationInv, Collect, At, Running
<1>2. Kind[t] = "compile" /\ proc[t].pc = 11 /\ Last(t) = 11
  BY <1>1, StageNumbers, LastStage, Zenon DEF Collect, Mine, Placed, IsAt
<1>3. /\ mode' = mode /\ nextId' = nextId /\ volume' = volume /\ tmpdirs' = tmpdirs /\ output' = output
      /\ status' = status /\ volume' \in BOOLEAN
  BY <1>1, Zenon DEF Collect, StoreType
<1>4. PICK e \in Pending(t) :
         /\ \/ proc' = [proc EXCEPT ![t].todo = @ \ {e}]
            \/ proc' = [proc EXCEPT ![t].todo = {}]
         /\ \/ e \in Entries /\ subvols' = Without({e[2]}) /\ collected' = collected \cup {e[2]} /\ faults' = faults
            \/ faults' \in {faults, faults + 1} /\ subvols' = subvols /\ collected' = collected
  BY Zenon DEF Collect
<1>5. proc[t] \in ProcRecord /\ proc \in [Targets -> ProcRecord] /\ proc[t].todo \in SUBSET ({"subvol", "tmp"} \X Nat)
  <2>1. proc[t] \in ProcRecord
    BY <1>1, Zenon DEF StoreType
  <2> QED BY <1>1, <2>1, Zenon DEF StoreType, ProcRecord
<1>6. /\ proc' \in [Targets -> ProcRecord] /\ \A u \in Targets : u # t => proc'[u] = proc[u]
      /\ Is(proc'[t], proc[t].pc, proc[t].root, proc[t].guards, proc[t].dep, proc[t].new, proc[t].old, proc[t].format)
  <2>1. PICK todo \in SUBSET ({"subvol", "tmp"} \X Nat) : proc' = [proc EXCEPT ![t].todo = todo]
    <3>1. (proc[t].todo \ {e}) \in SUBSET ({"subvol", "tmp"} \X Nat) /\ {} \in SUBSET ({"subvol", "tmp"} \X Nat)
      BY <1>5, Zenon
    <3> QED BY <1>4, <3>1, Zenon
  <2>2. PICK q : q = [proc[t] EXCEPT !.todo = todo]
    BY Zenon
  <2>3. Is(q, proc[t].pc, proc[t].root, proc[t].guards, proc[t].dep, proc[t].new, proc[t].old, proc[t].format)
    BY <1>5, <2>2, WithTodo, Zenon
  <2>4. proc' = [proc EXCEPT ![t] = q]
    BY <2>1, <2>2, Zenon
  <2>5. proc' \in [Targets -> ProcRecord] /\ proc'[t] = q /\ \A u \in Targets : u # t => proc'[u] = proc[u]
    BY <1>5, <2>3, <2>4, Zenon DEF Is
  <2> QED BY <2>3, <2>5, Zenon
<1>7. /\ proc'[t].pc = 11 /\ proc'[t].root = proc[t].root /\ proc'[t].guards = proc[t].guards
      /\ proc'[t].dep = proc[t].dep /\ proc'[t].new = proc[t].new /\ proc'[t].old = proc[t].old
      /\ proc'[t].format = proc[t].format /\ proc'[t].pc \in 1 .. Last(t)
  BY <1>2, <1>6 DEF Is
<1>8. /\ HasNew(t) /\ HasNew(t)' /\ Linked(t) /\ Linked(t)' /\ Filled(t) /\ InPlace(t) /\ Sealed(t)
      /\ ~AtDelete(t) /\ (PastOld(t)' => PastOld(t))
  BY <1>2, <1>7 DEF HasNew, Linked, Filled, InPlace, Sealed, AtDelete, PastOld
<1>9. proc[t].old = None /\ GoodNew(t)
  BY <1>1, <1>8, Zenon DEF Mine, OldIsOwn, NewIsGood
<1>10. Privileges(t)'
  BY <1>1, <1>2, <1>3, <1>7, Zenon DEF Mine, Privileges, UsesGuards
<1>11. OldIsOwn(t)'
  BY <1>7, <1>9, Zenon DEF OldIsOwn
<1>12. proc'[t].dep = IF Opened(t)' /\ Dep[t] # None THEN output[Dep[t]] ELSE None
  BY <1>1, <1>2, <1>7, Zenon DEF Mine, DepIsBuilt, Opened
<1>13. \A i : Accounted(t, i) => Accounted(t, i)'
  BY <1>3, <1>7, <1>8, Zenon DEF Accounted
<1>14. CASE faults' \in {faults, faults + 1} /\ subvols' = subvols /\ collected' = collected
  BY <1>1, <1>3, <1>6, <1>7, <1>8, <1>10, <1>11, <1>12, <1>13, <1>14, OnwardIsGood, Zenon
<1>15. CASE e \in Entries /\ subvols' = Without({e[2]}) /\ collected' = collected \cup {e[2]} /\ faults' = faults
  <2>1. PICK id : id = e[2]
    BY Zenon
  <2>2. id \in DOMAIN subvols /\ ~subvols[id].tmp /\ subvols[id].birth = "old"
    BY <1>15, <2>1, Zenon DEF Pending, Collectable, Exists
  <2>3. /\ DOMAIN subvols' = DOMAIN subvols \ {id} /\ collected' = collected \cup {id}
        /\ \A i \in DOMAIN subvols \ {id} : subvols'[i] = subvols[i]
        /\ subvols' \in [DOMAIN subvols \ {id} -> SubvolRecord]
    BY <1>1, <1>15, <2>1, Zenon DEF Without, StoreType
  <2>4. StoreType'
    <3>1. DOMAIN subvols \subseteq 1 .. nextId - 1 /\ collected \subseteq (1 .. nextId - 1) \ DOMAIN subvols
      BY <1>1, Zenon DEF StoreType
    <3>2. /\ subvols' \in [DOMAIN subvols' -> SubvolRecord] /\ DOMAIN subvols' \subseteq 1 .. nextId' - 1
          /\ collected' \subseteq (1 .. nextId' - 1) \ DOMAIN subvols'
      BY <1>3, <2>2, <2>3, <3>1, Zenon
    <3> QED BY <1>1, <1>3, <1>6, <1>15, <3>2, Zenon DEF StoreType
  <2>5. Touches(t)
    BY <1>3, <2>2, <2>3, Zenon DEF Touches
  <2>6. OnlyOwn(t)
    BY <1>3, <1>6, Zenon DEF OnlyOwn
  <2>7. NewIsGood(t)'
    <3>1. GoodNew(t)'
      BY <1>3, <1>7, <1>8, <1>9, <2>3, Zenon DEF GoodNew, Exists
    <3> QED BY <1>8, <3>1, Zenon DEF NewIsGood
  <2>8. TmpIsHidden(t)'
    BY <1>1, <1>2, <1>3, <1>7, <2>2, <2>3, Zenon DEF Mine, TmpIsHidden, Exists
  <2>9. Charges
    <3>1. nextId \notin DOMAIN subvols \cup tmpdirs
      BY <1>1 DEF StoreType
    <3> QED BY <1>3, <1>13, <1>15, <2>3, <2>5, <2>6, <3>1, NoCharge, Zenon
  <2> QED BY <1>1, <1>3, <1>7, <1>10, <1>11, <1>12, <2>4, <2>5, <2>6, <2>7, <2>8, <2>9, ContinueIsGood, Zenon
<1> QED BY <1>4, <1>14, <1>15, Zenon

(* A build that has linked its output ends: the output is complete, unless it *)
(* has been collected.                                                        *)
LEMMA FinishIsGood ==
  ASSUME PublicationInv, NEW t \in Targets, Running(t), HasNew(t), GoodNew(t), Filled(t), InPlace(t),
         Sealed(t) \/ Kind[t] = "materialize", PastOld(t) \/ Kind[t] = "materialize", proc[t].old = None,
         proc' \in [Targets -> ProcRecord], \A u \in Targets : u # t => proc'[u] = proc[u],
         Is(proc'[t], 0, FALSE, 0, None, None, None, None),
         status' = [status EXCEPT ![t] = "ok"], mode' = mode, nextId' = nextId, collected' = collected,
         volume' = volume, subvols' = subvols, tmpdirs' \subseteq tmpdirs, faults' = faults,
         output' = [output EXCEPT ![t] = proc[t].new], proc[t].new \notin tmpdirs'
  PROVE  Good(t)
<1>1. StoreType /\ Mine(t)
  BY Zenon DEF PublicationInv
<1>2. /\ proc[t].new \in 1 .. nextId - 1 /\ output'[t] = proc[t].new
      /\ output' \in [Targets -> {None} \cup 1 .. nextId - 1]
      /\ \A u \in Targets : u # t => output'[u] = output[u]
  BY <1>1, Zenon DEF GoodNew, StoreType
<1>3. /\ status' \in [Targets -> Statuses] /\ status'[t] = "ok"
      /\ \A u \in Targets : u # t => status'[u] = status[u]
  BY <1>1, Zenon DEF StoreType, Statuses
<1>4. StoreType'
  BY <1>1, <1>2, <1>3, Zenon DEF StoreType
<1>5. Touches(t) /\ OnlyOwn(t)
  BY <1>1, <1>2, <1>3, NothingTouched, Zenon DEF OnlyOwn
<1>6. Explained(t)
  BY <1>3, Zenon DEF Explained
<1>7. Mine(t)'
  <2>1. 0 \in 0 .. Last(t)
    BY LastStage
  <2>2. Placed(t)' /\ Privileges(t)'
    BY <2>1 DEF Placed, Privileges, Is, Last
  <2>3. NewIsGood(t)' /\ OldIsOwn(t)' /\ DepIsBuilt(t)'
    BY DEF NewIsGood, HasNew, OldIsOwn, DepIsBuilt, Opened, Running, Is
  <2>4. OutputIsOwn(t)'
    <3>1. \/ proc[t].new \in collected
          \/ Exists(proc[t].new) /\ Whole(t, proc[t].new)
      BY Zenon DEF GoodNew, Whole
    <3>2. Exists(proc[t].new) => subvols[proc[t].new].of = t
      BY <1>1, <3>1, Zenon DEF StoreType, Whole, Exists
    <3>3. proc[t].new # None
      BY <1>2, TargetsAssumption DEF StoreType
    <3> QED BY <1>2, <3>1, <3>2, <3>3, Zenon DEF OutputIsOwn, Exists, Whole
  <2>5. TmpIsHidden(t)'
    BY <1>1, <1>2, TargetsAssumption DEF TmpIsHidden, Is, StoreType
  <2> QED BY <2>2, <2>3, <2>4, <2>5, Zenon DEF Mine
<1>8. Charges
  <2>1. nextId \notin DOMAIN subvols \cup tmpdirs
    BY <1>1 DEF StoreType
  <2>2. output[t] \notin tmpdirs /\ (output[t] \in DOMAIN subvols => subvols[output[t]].of = t)
    BY <1>1, Zenon DEF Mine, TmpIsHidden, OutputIsOwn, Exists
  <2>3. ASSUME NEW i \in Kept \cup tmpdirs, Accounted(t, i)
        PROVE  i = proc[t].new
    BY <1>1, <2>2, <2>3, TargetsAssumption DEF Accounted, Kept, StoreType
  <2>4. ~PastOld(t)' /\ Kept' = Kept
    BY DEF PastOld, Is, Kept
  <2>5. \A i \in DOMAIN subvols' \cup tmpdirs' :
          i \in Kept' \cup tmpdirs' /\ (i = nextId \/ Accounted(t, i)) => Accounted(t, i)'
    <3>1. \A i : i = output'[t] => Accounted(t, i)'
      BY <2>4, Zenon DEF Accounted
    <3> QED BY <1>2, <2>1, <2>3, <2>4, <3>1, Zenon
  <2> QED BY <1>5, <2>5, NoCharge, Zenon
<1> QED BY <1>4, <1>5, <1>6, <1>7, <1>8, Zenon DEF Good

(* symlink to the new subvolume.                                              *)
LEMMA LinkOutputIsGood ==
  ASSUME PublicationInv, NEW t \in Targets, LinkOutput(t)
  PROVE  Good(t)
<1>1. StoreType /\ Mine(t) /\ Running(t)
  BY Zenon DEF PublicationInv, LinkOutput, At, Running
<1>2. IsAt(t, "compile", 9) \/ IsAt(t, "receive", 9) \/ IsAt(t, "send", 9) \/ IsAt(t, "materialize", 6)
  BY <1>1, StageNumbers, Zenon DEF LinkOutput, Mine, Placed
<1>3. mode' = mode /\ nextId' = nextId /\ collected' = collected /\ volume' = volume
  BY Zenon DEF LinkOutput
<1>4. CASE Fault(t) /\ UNCHANGED output
  BY <1>1, <1>3, <1>4, FaultIsGood, Zenon
<1>5. CASE /\ output' = [output EXCEPT ![t] = proc[t].new]
           /\ Step(t, proc[t]) /\ Finish(t, proc[t])
           /\ tmpdirs' = tmpdirs \ {proc[t].new}
           /\ UNCHANGED <<faults, subvols>>
  <2>1. /\ HasNew(t) /\ Filled(t) /\ InPlace(t)
        /\ Sealed(t) \/ Kind[t] = "materialize"
        /\ PastOld(t) \/ Kind[t] = "materialize"
        /\ ~AtDelete(t) /\ ~Linked(t)
    BY <1>2 DEF IsAt, HasNew, Filled, InPlace, Sealed, PastOld, AtDelete, Linked
  <2>2. GoodNew(t) /\ proc[t].old = None
    BY <1>1, <2>1, Zenon DEF Mine, NewIsGood, OldIsOwn
  <2>3. proc[t] \in ProcRecord /\ proc \in [Targets -> ProcRecord] /\ subvols' = subvols /\ faults' = faults
    BY <1>1, <1>5, Zenon DEF StoreType
  <2>4. CASE Kind[t] # "compile"
    <3>1. proc[t].pc = Last(t)
      BY <1>2, <2>4, LastStage, Zenon DEF IsAt
    <3>2. /\ proc' \in [Targets -> ProcRecord] /\ \A u \in Targets : u # t => proc'[u] = proc[u]
          /\ Is(proc'[t], 0, FALSE, 0, None, None, None, None)
      <4>1. Step(t, proc[t])
        BY <1>5, Zenon
      <4> QED BY <2>3, <3>1, <4>1, StepFields, Zenon
    <3>3. status' = [status EXCEPT ![t] = "ok"]
      BY <1>5, <3>1, Zenon DEF Finish, Last
    <3> QED BY <1>1, <1>3, <1>5, <2>1, <2>2, <2>3, <3>2, <3>3, FinishIsGood, Zenon
  <2>5. CASE Kind[t] = "compile"
    <3>1. proc[t].pc = 9 /\ Last(t) = 11 /\ proc[t].pc # Last(t)
      BY <1>2, <2>5, LastStage DEF IsAt
    <3>2. /\ proc' \in [Targets -> ProcRecord] /\ \A u \in Targets : u # t => proc'[u] = proc[u]
          /\ Is(proc'[t], proc[t].pc + 1, proc[t].root, proc[t].guards, proc[t].dep, proc[t].new, proc[t].old,
                proc[t].format)
      <4>1. Step(t, proc[t])
        BY <1>5, Zenon
      <4> QED BY <1>1, <2>3, <3>1, <4>1, StepOn, Zenon
    <3>3. /\ proc'[t].pc = 10 /\ proc'[t].root = proc[t].root /\ proc'[t].guards = proc[t].guards
          /\ proc'[t].dep = proc[t].dep /\ proc'[t].new = proc[t].new /\ proc'[t].old = None
          /\ proc'[t].format = proc[t].format
      BY <2>2, <3>1, <3>2 DEF Is
    <3>4. status' = status
      BY <1>5, <3>1, Zenon DEF Finish, Last
    <3>5. /\ output'[t] = proc[t].new /\ output' \in [Targets -> {None} \cup 1 .. nextId - 1]
          /\ \A u \in Targets : u # t => output'[u] = output[u]
      BY <1>1, <1>5, <2>2, Zenon DEF StoreType, GoodNew
    <3>6. StoreType'
      BY <1>1, <1>3, <1>5, <2>3, <3>2, <3>4, <3>5, Zenon DEF StoreType
    <3>7. Touches(t) /\ OnlyOwn(t)
      BY <1>1, <1>3, <1>5, <2>3, <3>2, <3>4, <3>5, NothingTouched, Zenon DEF OnlyOwn
    <3>8. Privileges(t)'
      BY <1>1, <1>3, <2>5, <3>1, <3>3 DEF Mine, Privileges, UsesGuards
    <3>9. NewIsGood(t)'
      <4>1. HasNew(t)' /\ Linked(t)' /\ Sealed(t) /\ Filled(t) /\ InPlace(t)
        BY <2>1, <2>5, <3>3 DEF HasNew, Linked
      <4>2. GoodNew(t)'
        BY <1>3, <2>2, <2>3, <3>3, <3>5, <4>1, Zenon DEF GoodNew, Exists
      <4> QED BY <4>1, <4>2, Zenon DEF NewIsGood
    <3>10. OldIsOwn(t)' /\ TmpIsHidden(t)'
      BY <1>5, <3>3, <3>5, Zenon DEF OldIsOwn, TmpIsHidden
    <3>11. OutputIsOwn(t)'
      <4>1. Exists(proc[t].new) => subvols[proc[t].new].of = t
        BY <1>1, <2>2, Zenon DEF GoodNew, StoreType, Exists
      <4> QED BY <2>3, <3>3, <3>5, <4>1 DEF OutputIsOwn, Exists, Running
    <3>12. proc'[t].dep = IF Opened(t)' /\ Dep[t] # None THEN output[Dep[t]] ELSE None
      BY <1>1, <2>5, <3>1, <3>3 DEF Mine, DepIsBuilt, Opened
    <3>13. Charges
      <4>1. \A i \in DOMAIN subvols \cup tmpdirs : Accounted(t, i) => i = proc[t].new
        BY <1>1, <2>1, <2>2, <2>5, TargetsAssumption DEF Accounted, StoreType
      <4>2. nextId \notin DOMAIN subvols \cup tmpdirs
        BY <1>1 DEF StoreType
      <4>3. \A i : i = proc'[t].new => Accounted(t, i)'
        BY Zenon DEF Accounted
      <4> QED BY <1>5, <2>3, <3>3, <3>7, <4>1, <4>2, <4>3, NoCharge, Zenon
    <3>14. proc'[t].pc \in 1 .. Last(t)
      BY <3>1, <3>3
    <3> QED BY <1>1, <3>3, <3>4, <3>6, <3>7, <3>8, <3>9, <3>10, <3>11, <3>12, <3>13, <3>14, ContinueIsGood, Zenon
  <2> QED BY <2>4, <2>5, Zenon
<1> QED BY <1>4, <1>5, Zenon DEF LinkOutput

(* The collection is over, and with it the build.                             *)
LEMMA EndGcIsGood ==
  ASSUME PublicationInv, NEW t \in Targets, EndGc(t)
  PROVE  Good(t)
<1>1. StoreType /\ Mine(t) /\ Running(t)
  BY Zenon DEF PublicationInv, EndGc, At, Running
<1>2. Kind[t] = "compile" /\ proc[t].pc = 11 /\ Last(t) = 11
  BY <1>1, StageNumbers, LastStage, Zenon DEF EndGc, Mine, Placed, IsAt
<1>3. /\ mode' = mode /\ nextId' = nextId /\ collected' = collected /\ volume' = volume /\ subvols' = subvols
      /\ tmpdirs' = tmpdirs /\ faults' = faults /\ output' = output
  BY Zenon DEF EndGc
<1>4. HasNew(t) /\ Filled(t) /\ InPlace(t) /\ Sealed(t) /\ PastOld(t) /\ ~AtDelete(t) /\ Linked(t)
  BY <1>2 DEF HasNew, Filled, InPlace, Sealed, PastOld, AtDelete, Linked
<1>5. GoodNew(t) /\ proc[t].old = None /\ output[t] = proc[t].new
  BY <1>1, <1>4, Zenon DEF Mine, NewIsGood, OldIsOwn, GoodNew
<1>6. proc[t] \in ProcRecord /\ proc \in [Targets -> ProcRecord]
  BY <1>1, Zenon DEF StoreType
<1>7. PICK p : p = DropGuard(t, proc[t])
  BY Zenon
<1>8. p \in ProcRecord /\ p.pc = Last(t)
  <2>1. Is(p, proc[t].pc, IF UsesGuards(t) THEN mode # "sudo" /\ proc[t].root ELSE proc[t].root,
           IF UsesGuards(t) THEN proc[t].guards - 1 ELSE proc[t].guards,
           proc[t].dep, proc[t].new, proc[t].old, proc[t].format)
    BY <1>6, <1>7, DropGuardFields, Zenon
  <2> QED BY <1>2, <2>1, Zenon DEF Is
<1>9. /\ proc' \in [Targets -> ProcRecord] /\ \A u \in Targets : u # t => proc'[u] = proc[u]
      /\ Is(proc'[t], 0, FALSE, 0, None, None, None, None)
  <2>1. Step(t, p)
    BY <1>7, Zenon DEF EndGc
  <2> QED BY <1>6, <1>8, <2>1, StepFields, Zenon
<1>10. status' = [status EXCEPT ![t] = "ok"]
  BY <1>2, Zenon DEF EndGc, Finish, Last
<1>11. output' = [output EXCEPT ![t] = proc[t].new] /\ proc[t].new \notin tmpdirs'
  BY <1>1, <1>3, <1>5, Zenon DEF StoreType, Mine, TmpIsHidden
<1> QED BY <1>1, <1>3, <1>4, <1>5, <1>9, <1>10, <1>11, FinishIsGood, Zenon
=============================================================================
