----------------------- MODULE LayerPublicationProofs -----------------------
(* LayerPublication: for every set of targets, every dependency between them *)
(* and every number of builds, jobs and faults, in every interleaving of the *)
(* builds with one another, with garbage collection and with kills:          *)
(*   - what an output symlink names is a complete, sealed subvolume of its   *)
(*     target, but for the exceptions StoreIsSound lists;                    *)
(*   - nothing is left behind that a fault does not account for;             *)
(*   - a build deletes only its own subvolumes and old ones;                 *)
(*   - a build fails only for one of the reasons FailsOnlyFor lists.         *)
(*                                                                           *)
(* LayerPublicationSteps and LayerPublicationSubvolumes show of each action *)
(* that it is Good; a good step keeps the inductive invariant PublicationInv,*)
(* which implies the rest.                                                   *)
EXTENDS LayerPublicationSubvolumes, FiniteSetTheorems

-----------------------------------------------------------------------------
(***************************************************************************)
(* The invariant is inductive                                              *)
(***************************************************************************)

(* A step adds at most one to what is left behind, and then counts a fault.  *)
LEMMA ChargesStayFew ==
  ASSUME StoreType, ChargesAreFew, Charges
  PROVE  ChargesAreFew'
<1>1. faults \in Nat /\ IsFiniteSet(Charged) /\ Cardinality(Charged) \in Nat /\ Cardinality(Charged) <= faults
  BY FS_CardinalityType, Zenon DEF StoreType, ChargesAreFew
<1>2. CASE faults' = faults /\ Charged' \subseteq Charged
  <2>1. IsFiniteSet(Charged') /\ Cardinality(Charged') <= Cardinality(Charged)
    BY <1>1, <1>2, FS_Subset, Zenon
  <2>2. Cardinality(Charged') \in Nat
    BY <2>1, FS_CardinalityType, Zenon
  <2> QED BY <1>1, <1>2, <2>1, <2>2 DEF ChargesAreFew
<1>3. ASSUME faults' = faults + 1, NEW x, Charged' \subseteq Charged \cup {x}
      PROVE  ChargesAreFew'
  <2>1. /\ IsFiniteSet(Charged \cup {x})
        /\ Cardinality(Charged \cup {x}) = IF x \in Charged THEN Cardinality(Charged) ELSE Cardinality(Charged) + 1
    BY <1>1, FS_AddElement, Zenon
  <2>2. IsFiniteSet(Charged') /\ Cardinality(Charged') <= Cardinality(Charged \cup {x})
    BY <1>3, <2>1, FS_Subset, Zenon
  <2>3. Cardinality(Charged') \in Nat
    BY <2>2, FS_CardinalityType, Zenon
  <2> QED BY <1>1, <1>3, <2>1, <2>2, <2>3 DEF ChargesAreFew
<1> QED BY <1>2, <1>3, Zenon DEF Charges

(* A good step of one build keeps the whole invariant.                        *)
LEMMA GoodStepKeepsInv ==
  ASSUME PublicationInv, NEW t \in Targets, Good(t),
         Running(t) \/ \A v \in Targets : Dep[v] = t => ~Running(v)
  PROVE  PublicationInv'
<1>1. ChargesAreFew'
  BY ChargesStayFew, Zenon DEF PublicationInv, Good
<1>2. StoreType' /\ Mine(t)'
  BY Zenon DEF Good
<1>3. \A u \in Targets : u # t => Mine(u)'
  BY OthersDoNotNotice, Zenon
<1> QED BY <1>1, <1>2, <1>3, Zenon DEF PublicationInv

(* Every step of a build is good, and buck starts a build of a layer only     *)
(* while nothing that is built from it is being built.                        *)
LEMMA BuildStepIsGood ==
  ASSUME PublicationInv, NEW t \in Targets, BuildStep(t)
  PROVE  /\ Good(t)
         /\ Running(t) \/ (subvols' = subvols /\ \A v \in Targets : Dep[v] = t => ~Running(v))
<1>1. CASE BuckStarts(t)
  BY <1>1, BuckStartsIsGood, Zenon DEF BuckStarts
<1>2. CASE Ensure(t) \/ OpenDep(t) \/ Create(t) \/ Fill(t) \/ Send(t) \/ Move(t)
  <2>1. Good(t)
    BY <1>2, EnsureIsGood, OpenDepIsGood, CreateIsGood, FillIsGood, SendIsGood, MoveIsGood, Zenon
  <2>2. Running(t)
    BY <1>2, Zenon DEF Ensure, OpenDep, Create, Fill, Send, Move, At, Running
  <2> QED BY <2>1, <2>2, Zenon
<1>3. CASE Seal(t) \/ OpenOld(t) \/ DeleteOld(t) \/ Unlink(t) \/ LinkOutput(t)
  <2>1. Good(t)
    BY <1>3, SealIsGood, OpenOldIsGood, DeleteOldIsGood, UnlinkIsGood, LinkOutputIsGood, Zenon
  <2>2. Running(t)
    BY <1>3, Zenon DEF Seal, OpenOld, DeleteOld, Unlink, LinkOutput, At, Running
  <2> QED BY <2>1, <2>2, Zenon
<1>4. CASE BeginGc(t) \/ Collect(t) \/ EndGc(t) \/ Kill(t)
  <2>1. Good(t)
    BY <1>4, BeginGcIsGood, CollectIsGood, EndGcIsGood, KillIsGood, Zenon
  <2>2. Running(t)
    BY <1>4, Zenon DEF BeginGc, Collect, EndGc, Kill, At, Running
  <2> QED BY <2>1, <2>2, Zenon
<1> QED BY <1>1, <1>2, <1>3, <1>4, Zenon DEF BuildStep

(* A subvolume becomes old.                                                   *)
LEMMA WithBirth ==
  ASSUME NEW s \in SubvolRecord
  PROVE  IsSubvol([s EXCEPT !.birth = "old"], s.of, s.data, s.ro, "old", s.tmp)
BY Zenon DEF SubvolRecord, IsSubvol

(* Time passes while nothing is built: subvolumes become old, and are         *)
(* otherwise what they were.                                                  *)
LEMMA TimePassesKeepsInv ==
  ASSUME PublicationInv, TimePasses
  PROVE  PublicationInv'
<1>1. StoreType /\ ChargesAreFew /\ \A t \in Targets : Mine(t)
  BY Zenon DEF PublicationInv
<1>2. /\ mode' = mode /\ volume' = volume /\ tmpdirs' = tmpdirs /\ output' = output /\ proc' = proc
      /\ status' = status /\ nextId' = nextId /\ faults' = faults /\ collected' = collected
  BY Zenon DEF TimePasses
<1>3. /\ DOMAIN subvols' = DOMAIN subvols
      /\ \A i \in DOMAIN subvols : IsSubvol(subvols'[i], subvols[i].of, subvols[i].data, subvols[i].ro, "old", subvols[i].tmp)
  <2>1. DOMAIN subvols' = DOMAIN subvols
        /\ \A i \in DOMAIN subvols : subvols'[i] = [subvols[i] EXCEPT !.birth = "old"]
    BY Zenon DEF TimePasses
  <2>2. \A i \in DOMAIN subvols : subvols[i] \in SubvolRecord
    BY <1>1, Zenon DEF StoreType
  <2>3. ASSUME NEW i \in DOMAIN subvols
        PROVE  IsSubvol(subvols'[i], subvols[i].of, subvols[i].data, subvols[i].ro, "old", subvols[i].tmp)
    <3>1. IsSubvol([subvols[i] EXCEPT !.birth = "old"], subvols[i].of, subvols[i].data, subvols[i].ro, "old",
                   subvols[i].tmp)
      BY <2>2, <2>3, WithBirth, Zenon
    <3> QED BY <2>1, <2>3, <3>1, Zenon
  <2> QED BY <2>1, <2>3, Zenon
<1>4. \A i \in DOMAIN subvols : /\ subvols'[i] \in SubvolRecord /\ subvols'[i].of = subvols[i].of
                                /\ subvols'[i].data = subvols[i].data /\ subvols'[i].ro = subvols[i].ro
                                /\ subvols'[i].tmp = subvols[i].tmp
  BY <1>3, Zenon DEF IsSubvol
<1>5. StoreType'
  <2>1. subvols' \in [DOMAIN subvols' -> SubvolRecord]
    <3>1. subvols' = [i \in DOMAIN subvols' |-> subvols'[i]]
      BY Zenon DEF TimePasses
    <3> QED BY <1>3, <1>4, <3>1, Zenon
  <2> QED BY <1>1, <1>2, <1>3, <2>1, Zenon DEF StoreType
<1>6. ChargesAreFew'
  <2>1. Kept' = Kept
    BY <1>3, <1>4, Zenon DEF Kept
  <2>2. \A t, i : Accounted(t, i)' <=> Accounted(t, i)
    BY <1>2, Zenon DEF Accounted, PastOld
  <2>3. Charged' = Charged
    BY <1>2, <2>1, <2>2, Zenon DEF Charged
  <2> QED BY <1>1, <1>2, <2>3, Zenon DEF ChargesAreFew
<1>7. ASSUME NEW t \in Targets PROVE Mine(t)'
  <2>1. Mine(t)
    BY <1>1, Zenon
  <2>2. Placed(t)' /\ Privileges(t)' /\ DepIsBuilt(t)'
    BY <1>2, <2>1, Zenon DEF Mine, Placed, Privileges, UsesGuards, Last, DepIsBuilt, Running, Opened
  <2>3. NewIsGood(t)'
    <3>1. HasNew(t)' <=> HasNew(t)
      BY <1>2, Zenon DEF HasNew
    <3>2. GoodNew(t) => GoodNew(t)'
      BY <1>2, <1>3, <1>4, Zenon DEF GoodNew, Filled, InPlace, Sealed, Linked, Exists
    <3> QED BY <1>2, <2>1, <3>1, <3>2, Zenon DEF Mine, NewIsGood
  <2>4. OldIsOwn(t)' /\ OutputIsOwn(t)' /\ TmpIsHidden(t)'
    BY <1>2, <1>3, <1>4, <2>1, Zenon DEF Mine, OldIsOwn, AtDelete, OutputIsOwn, Running, TmpIsHidden, Exists, Whole
  <2> QED BY <2>2, <2>3, <2>4, Zenon DEF Mine
<1> QED BY <1>5, <1>6, <1>7, Zenon DEF PublicationInv

(* Every target can be given a number of its own.                             *)
LEMMA NumberingIsInjective ==
  /\ Numbering \in [Targets -> 1 .. Cardinality(Targets)] /\ Cardinality(Targets) \in Nat
  /\ \A t, u \in Targets : Numbering[t] = Numbering[u] => t = u
<1>1. IsFiniteSet(Targets)
  BY TargetsAssumption, Zenon
<1>2. PICK n \in Nat : n = Cardinality(Targets)
  BY <1>1, FS_CardinalityType, Zenon
<1>3. PICK b \in [1 .. n -> Targets] : \A t \in Targets : \E i \in 1 .. n : b[i] = t
  BY <1>1, <1>2, FS_CardinalityType DEF ExistsBijection, Bijection, Surjection
<1>4. PICK f : f = [t \in Targets |-> CHOOSE i \in 1 .. n : b[i] = t]
  BY Zenon
<1>5. f \in [Targets -> 1 .. n] /\ \A t \in Targets : b[f[t]] = t
  BY <1>3, <1>4, Zenon
<1>6. \E g \in [Targets -> 1 .. Cardinality(Targets)] : \A t, u \in Targets : g[t] = g[u] => t = u
  BY <1>2, <1>5, Zenon
<1> QED BY <1>2, <1>6, Zenon DEF Numbering

(* Nothing has been built, or every target has: the invariant holds.          *)
LEMMA InitEstablishesInv ==
  ASSUME Init
  PROVE  PublicationInv
<1>1. PICK ts : InitBuilt(ts) /\ ts \in {{}, Targets}
  BY Zenon DEF Init
<1>2. /\ ts \subseteq Targets /\ Cardinality(ts) \in Nat
      /\ \A t \in ts : Numbering[t] \in 1 .. Cardinality(ts)
      /\ \A t, u \in ts : Numbering[t] = Numbering[u] => t = u
  <2>1. CASE ts = {}
    BY <2>1, FS_EmptySet
  <2>2. CASE ts = Targets
    BY <2>2, NumberingIsInjective, Zenon
  <2> QED BY <1>1, <2>1, <2>2, Zenon
<1>3. /\ mode \in Modes /\ tmpdirs = {} /\ faults = 0 /\ collected = {} /\ proc = [t \in Targets |-> Idle]
      /\ volume = (ts # {}) /\ nextId = Cardinality(ts) + 1
      /\ output = [t \in Targets |-> IF t \in ts THEN Numbering[t] ELSE None]
      /\ status = [t \in Targets |-> IF t \in ts THEN "ok" ELSE "none"]
      /\ subvols = [i \in {Numbering[t] : t \in ts} |-> Published(CHOOSE t \in ts : Numbering[t] = i)]
  BY <1>1, Zenon DEF Init, InitBuilt
<1>4. DOMAIN subvols = {Numbering[t] : t \in ts} /\ \A t \in ts : subvols[Numbering[t]] = Published(t)
  <2>1. DOMAIN subvols = {Numbering[t] : t \in ts}
    BY <1>3, Zenon
  <2>2. ASSUME NEW t \in ts PROVE subvols[Numbering[t]] = Published(t)
    <3>1. (CHOOSE u \in ts : Numbering[u] = Numbering[t]) = t
      BY <1>2, Zenon
    <3>2. Numbering[t] \in {Numbering[u] : u \in ts}
      BY Zenon
    <3> QED BY <1>3, <3>1, <3>2, Zenon
  <2> QED BY <2>1, <2>2, Zenon
<1>5. \A t \in Targets : /\ Published(t) \in SubvolRecord /\ Published(t).of = t /\ Published(t).data = "full"
                         /\ Published(t).tmp = FALSE /\ (Published(t).ro \/ Kind[t] = "materialize")
  BY Zenon DEF Published, SubvolRecord
<1>6. \A t \in Targets : Is(proc[t], 0, FALSE, 0, None, None, None, None)
  BY <1>3, IdleRecord, Zenon
<1>7. StoreType
  <2>1. subvols \in [DOMAIN subvols -> SubvolRecord]
    <3>1. \A i \in DOMAIN subvols : subvols[i] \in SubvolRecord
      BY <1>2, <1>4, <1>5
    <3>2. subvols = [i \in DOMAIN subvols |-> subvols[i]]
      BY <1>3
    <3> QED BY <3>1, <3>2, Zenon
  <2>2. DOMAIN subvols \subseteq 1 .. nextId - 1
    BY <1>2, <1>3, <1>4
  <2>3. proc \in [Targets -> ProcRecord]
    BY <1>3, IdleRecord, Zenon DEF Is
  <2>4. output \in [Targets -> {None} \cup 1 .. nextId - 1] /\ status \in [Targets -> Statuses]
    BY <1>2, <1>3 DEF Statuses
  <2>5. volume \in BOOLEAN /\ nextId \in Nat \ {0} /\ faults \in Nat
    BY <1>2, <1>3
  <2> QED BY <1>3, <2>1, <2>2, <2>3, <2>4, <2>5, Zenon DEF StoreType
<1>8. ASSUME NEW t \in Targets PROVE Mine(t)
  <2>1. /\ proc[t].pc = 0 /\ proc[t].guards = 0 /\ proc[t].dep = None /\ proc[t].new = None /\ proc[t].old = None
        /\ proc[t].format = None
    BY <1>6, Zenon DEF Is
  <2>2. Placed(t)
    BY <2>1, LastStage DEF Placed
  <2>3. Privileges(t)
    BY <2>1 DEF Privileges
  <2>4. NewIsGood(t) /\ OldIsOwn(t) /\ DepIsBuilt(t)
    BY <2>1 DEF NewIsGood, HasNew, OldIsOwn, DepIsBuilt, Running, Opened
  <2>5. OutputIsOwn(t)
    <3>1. CASE t \in ts
      <4>1. output[t] = Numbering[t] /\ output[t] # None /\ Exists(output[t]) /\ subvols[output[t]] = Published(t)
        BY <1>2, <1>3, <1>4, <3>1, TargetsAssumption DEF Exists
      <4> QED BY <1>5, <4>1, Zenon DEF OutputIsOwn, Whole
    <3>2. CASE t \notin ts
      <4>1. output[t] = None /\ status[t] = "none"
        BY <1>3, <3>2, Zenon
      <4>2. ~Exists(None)
        BY <1>7, TargetsAssumption DEF StoreType, Exists
      <4> QED BY <4>1, <4>2, Zenon DEF OutputIsOwn
    <3> QED BY <3>1, <3>2, Zenon
  <2>6. TmpIsHidden(t)
    BY <1>3, Zenon DEF TmpIsHidden
  <2> QED BY <2>2, <2>3, <2>4, <2>5, <2>6, Zenon DEF Mine
<1>9. ChargesAreFew
  <2>1. \A t \in ts : Accounted(t, Numbering[t])
    <3>1. \A t \in ts : proc[t].pc = 0 /\ output[t] = Numbering[t]
      BY <1>2, <1>3, <1>6, Zenon DEF Is
    <3> QED BY <3>1 DEF Accounted, PastOld
  <2>2. Charged = {}
    BY <1>2, <1>3, <1>4, <2>1 DEF Charged, Kept
  <2> QED BY <1>3, <2>2, FS_EmptySet DEF ChargesAreFew
<1> QED BY <1>7, <1>8, <1>9, Zenon DEF PublicationInv

(* Every step keeps the invariant.                                            *)
LEMMA NextKeepsInv ==
  ASSUME PublicationInv, [Next]_vars
  PROVE  PublicationInv'
<1>1. CASE TimePasses
  BY <1>1, TimePassesKeepsInv, Zenon
<1>2. ASSUME NEW t \in Targets, BuildStep(t) PROVE PublicationInv'
  BY <1>2, BuildStepIsGood, GoodStepKeepsInv, Zenon
<1>3. CASE UNCHANGED vars
  <2>1. /\ mode' = mode /\ volume' = volume /\ subvols' = subvols /\ tmpdirs' = tmpdirs /\ output' = output
        /\ proc' = proc /\ status' = status /\ nextId' = nextId /\ faults' = faults /\ collected' = collected
    BY <1>3, Zenon DEF vars
  <2>2. StoreType'
    BY <2>1, Zenon DEF PublicationInv, StoreType
  <2>3. ChargesAreFew'
    <3>1. Kept' = Kept
      BY <2>1, Zenon DEF Kept
    <3>2. \A t, i : Accounted(t, i)' <=> Accounted(t, i)
      BY <2>1, Zenon DEF Accounted, PastOld
    <3>3. Charged' = Charged
      BY <2>1, <3>1, <3>2, Zenon DEF Charged
    <3> QED BY <2>1, <3>3, Zenon DEF PublicationInv, ChargesAreFew
  <2>4. ASSUME NEW t \in Targets PROVE Mine(t)'
    <3>1. Mine(t)
      BY Zenon DEF PublicationInv
    <3>2. Placed(t)' /\ Privileges(t)' /\ DepIsBuilt(t)'
      BY <2>1, <3>1, Zenon DEF Mine, Placed, Privileges, UsesGuards, Last, DepIsBuilt, Running, Opened
    <3>3. NewIsGood(t)'
      <4>1. HasNew(t)' <=> HasNew(t)
        BY <2>1, Zenon DEF HasNew
      <4>2. GoodNew(t) => GoodNew(t)'
        BY <2>1, Zenon DEF GoodNew, Filled, InPlace, Sealed, Linked, Exists
      <4> QED BY <2>1, <3>1, <4>1, <4>2, Zenon DEF Mine, NewIsGood
    <3>4. OldIsOwn(t)' /\ OutputIsOwn(t)' /\ TmpIsHidden(t)'
      BY <2>1, <3>1, Zenon DEF Mine, OldIsOwn, AtDelete, OutputIsOwn, Running, TmpIsHidden, Exists, Whole
    <3> QED BY <3>2, <3>3, <3>4, Zenon DEF Mine
  <2> QED BY <2>2, <2>3, <2>4, Zenon DEF PublicationInv
<1> QED BY <1>1, <1>2, <1>3, Zenon DEF Next

(* In every reachable state each build has established what its stage says,   *)
(* and what is left behind is charged to a fault (Compile::run, btrfs_send,   *)
(* btrfs_receive, materialize_to_subvol, garbage_collect_old_subvols).        *)
THEOREM PublicationInvariant == Spec => []PublicationInv
<1>1. Init => PublicationInv
  BY InitEstablishesInv, Zenon
<1>2. PublicationInv /\ [Next]_vars => PublicationInv'
  BY NextKeepsInv, Zenon
<1> QED BY <1>1, <1>2, PTL DEF Spec

-----------------------------------------------------------------------------
(***************************************************************************)
(* What the invariant implies                                              *)
(***************************************************************************)

(* The invariant implies that what is published is whole.                     *)
LEMMA InvImpliesSound ==
  ASSUME PublicationInv
  PROVE  StoreIsSound
<1>1. StoreType /\ \A t \in Targets : Mine(t)
  BY Zenon DEF PublicationInv
<1>2. TypeOK
  <2>1. \A i \in DOMAIN subvols : subvols[i].data \in {"partial", "full", "gutted"} /\ subvols[i].birth \in {"recent", "old"}
    <3>1. \A i \in DOMAIN subvols : subvols[i] \in SubvolRecord
      BY <1>1, Zenon DEF StoreType
    <3> QED BY <3>1, Zenon DEF SubvolRecord
  <2>2. ASSUME NEW t \in Targets PROVE proc[t].pc \in 0 .. Len(Stages(Kind[t])) /\ proc[t].guards \in 0 .. 2
    <3>1. Placed(t) /\ Privileges(t)
      BY <1>1, Zenon DEF Mine
    <3>2. proc[t].guards \in {0, 1, 2}
      BY <3>1, Zenon DEF Privileges
    <3> QED BY <3>1, <3>2 DEF Placed, Last
  <2> QED BY <1>1, <2>1, <2>2, Zenon DEF TypeOK, StoreType
<1>3. OutputsAreWhole
  BY <1>1, Zenon DEF OutputsAreWhole, Mine, OutputIsOwn
<1> QED BY <1>2, <1>3, Zenon DEF StoreIsSound

(* In every reachable state the store has its type, and what the output       *)
(* symlink of a target names is a complete, sealed subvolume of that target,  *)
(* unless the target is being built, its last build did not succeed, or       *)
(* garbage collection has deleted it (Compile::run, btrfs_send, gc).          *)
THEOREM StoreStaysSound == Spec => []StoreIsSound
BY PublicationInvariant, InvImpliesSound, PTL

(* When no build runs, everything that no output names has been charged.      *)
LEMMA InvImpliesFewLeaks ==
  ASSUME PublicationInv
  PROVE  OnlyFailuresLeak
<1> SUFFICES ASSUME Quiet
             PROVE  Cardinality(Left) + Cardinality(tmpdirs \ Left) <= faults
  BY Zenon DEF OnlyFailuresLeak
<1>1. StoreType /\ ChargesAreFew /\ \A t \in Targets : Mine(t) /\ proc[t].pc = 0
  BY Zenon DEF PublicationInv, Quiet, Running
<1>2. None \notin DOMAIN subvols \cup tmpdirs /\ faults \in Nat
  BY <1>1, TargetsAssumption DEF StoreType
<1>3. \A t \in Targets : proc[t].new = None /\ output[t] \notin tmpdirs
  BY <1>1 DEF Mine, NewIsGood, HasNew, TmpIsHidden
<1>4. Left \cup tmpdirs \subseteq Charged
  <2>1. ASSUME NEW i \in Left \cup tmpdirs, NEW t \in Targets PROVE ~Accounted(t, i)
    <3>1. i # output[t]
      BY <1>3, Zenon DEF Left, Named
    <3>2. i # None
      BY <1>2, Zenon DEF Left
    <3> QED BY <1>3, <3>1, <3>2, Zenon DEF Accounted
  <2>2. Left \subseteq Kept
    BY Zenon DEF Left, Kept
  <2> QED BY <2>1, <2>2, Zenon DEF Charged
<1>5. /\ IsFiniteSet(Charged) /\ Cardinality(Charged) <= faults /\ Cardinality(Charged) \in Nat
  BY <1>1, FS_CardinalityType, Zenon DEF ChargesAreFew
<1>6. PICK rest : rest = tmpdirs \ Left
  BY Zenon
<1>7. Left \subseteq Charged /\ rest \subseteq Charged /\ Left \cap rest = {} /\ Left \cup rest \subseteq Charged
  BY <1>4, <1>6, Zenon
<1>8. IsFiniteSet(Left) /\ IsFiniteSet(rest)
  BY <1>5, <1>7, FS_Subset, Zenon
<1>9. Cardinality(Left) \in Nat /\ Cardinality(rest) \in Nat
  BY <1>8, FS_CardinalityType, Zenon
<1>10. Cardinality(Left \cup rest) = Cardinality(Left) + Cardinality(rest)
  <2>1. Cardinality(Left \cup rest) = Cardinality(Left) + Cardinality(rest) - Cardinality(Left \cap rest)
    BY <1>8, FS_Union, Zenon
  <2>2. Cardinality(Left \cap rest) = 0
    BY <1>7, FS_EmptySet, Zenon
  <2> QED BY <1>9, <2>1, <2>2
<1>11. Cardinality(Left \cup rest) <= Cardinality(Charged)
  BY <1>5, <1>7, FS_Subset, Zenon
<1> QED BY <1>2, <1>5, <1>6, <1>9, <1>10, <1>11

(* When no build runs, there are at most as many unnamed subvolumes and       *)
(* leftover temporary directories as calls have failed and builds been killed; *)
(* materialize-to-subvol is the exception OnlyFailuresLeak states.            *)
THEOREM OnlyFailuresEverLeak == Spec => []OnlyFailuresLeak
BY PublicationInvariant, InvImpliesFewLeaks, PTL

(* A step deletes a subvolume of its own target, which is being built while   *)
(* no build that is made from it runs, or an old one.                         *)
LEMMA StepDeletesOwnOrOld ==
  ASSUME PublicationInv, [Next]_vars, NEW i \in DOMAIN subvols \ DOMAIN subvols'
  PROVE  subvols[i].birth = "old" \/ OwnersStep(i)
<1>1. ~TimePasses /\ ~UNCHANGED vars
  BY Zenon DEF TimePasses, vars
<1>2. PICK t \in Targets : BuildStep(t)
  BY <1>1, Zenon DEF Next
<1>3. Touches(t) /\ OnlyOwn(t) /\ (Running(t) \/ subvols' = subvols)
  BY <1>2, BuildStepIsGood, Zenon DEF Good
<1>4. Running(t) /\ (subvols[i].of = t \/ subvols[i].birth = "old")
  BY <1>3, Zenon DEF Touches
<1>5. \A u \in Targets : Dep[u] = t => ~Running(u)
  <2>1. \A u \in Targets : DepIsBuilt(u)
    BY Zenon DEF PublicationInv, Mine
  <2>2. t # None
    BY TargetsAssumption, Zenon
  <2> QED BY <1>4, <2>1, <2>2, Zenon DEF DepIsBuilt
<1> QED BY <1>3, <1>4, <1>5, Zenon DEF OnlyOwn, OwnersStep

(* No step deletes a recent subvolume but of the target whose build takes it, *)
(* and then no build made from that target runs: neither deleting the previous *)
(* output nor garbage_collect_old_subvols takes a recent subvolume from a     *)
(* concurrent build.                                                          *)
THEOREM DeletesOnlyOwnOrOld == Spec => DeletesOwnOrOld
<1> DEFINE OwnOrOld == \A i \in DOMAIN subvols \ DOMAIN subvols' : subvols[i].birth = "old" \/ OwnersStep(i)
<1>1. PublicationInv /\ [Next]_vars => [OwnOrOld]_vars
  BY StepDeletesOwnOrOld, Zenon
<1> QED BY <1>1, PublicationInvariant, PTL DEF Spec, DeletesOwnOrOld

(* A step that ends a build in failure does so for one of the listed reasons. *)
LEMMA StepFailsOnlyFor ==
  ASSUME PublicationInv, [Next]_vars, NEW t \in Targets
  PROVE  Explained(t)
<1>1. CASE TimePasses \/ UNCHANGED vars
  <2>1. status' = status
    BY <1>1, Zenon DEF TimePasses, vars
  <2> QED BY <2>1, Zenon DEF Explained
<1>2. ASSUME NEW u \in Targets, BuildStep(u) PROVE Explained(t)
  <2>1. Explained(u) /\ OnlyOwn(u)
    BY <1>2, BuildStepIsGood, Zenon DEF Good
  <2> QED BY <2>1, Zenon DEF OnlyOwn, Explained
<1> QED BY <1>1, <1>2, Zenon DEF Next

(* A build fails for a failing call, because it cannot escalate, or because   *)
(* garbage collection deleted what it works on: no privileged call is ever made *)
(* by a process that is not root (Rootless::escalate and its guards).         *)
THEOREM FailsOnlyForAReason == Spec => FailsOnlyFor
<1>1. PublicationInv /\ [Next]_vars => [\A t \in Targets : Explained(t)]_vars
  BY StepFailsOnlyFor, Zenon
<1> QED BY <1>1, PublicationInvariant, PTL DEF Spec, FailsOnlyFor, Explained
=============================================================================
