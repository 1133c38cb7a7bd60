--------------------- MODULE LayerPublicationSubvolumes ---------------------
(* The steps of a build that write the new subvolume of their target or delete*)
(* the previous one are Good.                                                *)
EXTENDS LayerPublicationSteps

-----------------------------------------------------------------------------
(***************************************************************************)
(* Updates of a build's record and of a subvolume                          *)
(***************************************************************************)

(* The effective user changes.                                                *)
LEMMA WithRoot ==
  ASSUME NEW p \in ProcRecord, NEW x \in BOOLEAN
  PROVE  Is([p EXCEPT !.root = x], p.pc, x, p.guards, p.dep, p.new, p.old, p.format)
BY Zenon DEF Is, ProcRecord

(* The new subvolume is allocated.                                            *)
LEMMA WithNew ==
  ASSUME NEW p \in ProcRecord, NEW x \in Ids
  PROVE  Is([p EXCEPT !.new = x], p.pc, p.root, p.guards, p.dep, x, p.old, p.format)
BY Zenon DEF Is, ProcRecord

(* The read-only flag changes.                                                *)
LEMMA WithRo ==
  ASSUME NEW s \in SubvolRecord, NEW b \in BOOLEAN
  PROVE  IsSubvol([s EXCEPT !.ro = b], s.of, s.data, b, s.birth, s.tmp)
BY Zenon DEF SubvolRecord, IsSubvol

(* The subvolume is moved out of its temporary directory.                     *)
LEMMA WithTmp ==
  ASSUME NEW s \in SubvolRecord, NEW b \in BOOLEAN
  PROVE  IsSubvol([s EXCEPT !.tmp = b], s.of, s.data, s.ro, s.birth, b)
BY Zenon DEF SubvolRecord, IsSubvol

(* The data of a subvolume changes.                                           *)
LEMMA WithData ==
  ASSUME NEW s \in SubvolRecord, NEW d \in {"partial", "full", "gutted"}
  PROVE  IsSubvol([s EXCEPT !.data = d], s.of, d, s.ro, s.birth, s.tmp)
BY Zenon DEF SubvolRecord, IsSubvol

(* One subvolume of the volume is replaced by one of the same target.         *)
LEMMA OneUpdated ==
  ASSUME NEW D, NEW f \in [D -> SubvolRecord], NEW id, NEW r, NEW data, NEW ro, NEW tmp,
         id \in D => r \in SubvolRecord /\ r.of = f[id].of /\ r.data = data /\ r.ro = ro /\ r.tmp = tmp
  PROVE  Updated([f EXCEPT ![id] = r], f, D, id, data, ro, tmp)
BY Zenon DEF Updated

(* set_readonly on one subvolume.                                             *)
LEMMA SetRo ==
  ASSUME NEW D, NEW f \in [D -> SubvolRecord], NEW id, NEW b \in BOOLEAN
  PROVE  Updated([f EXCEPT ![id].ro = b], f, D, id, f[id].data, b, f[id].tmp)
<1>1. PICK r : r = [f[id] EXCEPT !.ro = b]
  BY Zenon
<1>2. id \in D => r \in SubvolRecord /\ r.of = f[id].of /\ r.data = f[id].data /\ r.ro = b /\ r.tmp = f[id].tmp
  <2>1. ASSUME id \in D PROVE f[id] \in SubvolRecord
    BY <2>1, Zenon
  <2> QED BY <1>1, <2>1, WithRo, Zenon DEF IsSubvol
<1>3. [f EXCEPT ![id].ro = b] = [f EXCEPT ![id] = r]
  BY <1>1, Zenon
<1>4. Updated([f EXCEPT ![id] = r], f, D, id, f[id].data, b, f[id].tmp)
  BY <1>2, OneUpdated, Zenon
<1> QED BY <1>3, <1>4, Zenon

(* One subvolume is moved to its place.                                       *)
LEMMA SetTmp ==
  ASSUME NEW D, NEW f \in [D -> SubvolRecord], NEW id, NEW b \in BOOLEAN
  PROVE  Updated([f EXCEPT ![id].tmp = b], f, D, id, f[id].data, f[id].ro, b)
<1>1. PICK r : r = [f[id] EXCEPT !.tmp = b]
  BY Zenon
<1>2. id \in D => r \in SubvolRecord /\ r.of = f[id].of /\ r.data = f[id].data /\ r.ro = f[id].ro /\ r.tmp = b
  <2>1. ASSUME id \in D PROVE f[id] \in SubvolRecord
    BY <2>1, Zenon
  <2> QED BY <1>1, <2>1, WithTmp, Zenon DEF IsSubvol
<1>3. [f EXCEPT ![id].tmp = b] = [f EXCEPT ![id] = r]
  BY <1>1, Zenon
<1>4. Updated([f EXCEPT ![id] = r], f, D, id, f[id].data, f[id].ro, b)
  BY <1>2, OneUpdated, Zenon
<1> QED BY <1>3, <1>4, Zenon

(* The data of one subvolume changes.                                         *)
LEMMA SetData ==
  ASSUME NEW D, NEW f \in [D -> SubvolRecord], NEW id, NEW d \in {"partial", "full", "gutted"}
  PROVE  Updated([f EXCEPT ![id].data = d], f, D, id, d, f[id].ro, f[id].tmp)
<1>1. PICK r : r = [f[id] EXCEPT !.data = d]
  BY Zenon
<1>2. id \in D => r \in SubvolRecord /\ r.of = f[id].of /\ r.data = d /\ r.ro = f[id].ro /\ r.tmp = f[id].tmp
  <2>1. ASSUME id \in D PROVE f[id] \in SubvolRecord
    BY <2>1, Zenon
  <2> QED BY <1>1, <2>1, WithData, Zenon DEF IsSubvol
<1>3. [f EXCEPT ![id].data = d] = [f EXCEPT ![id] = r]
  BY <1>1, Zenon
<1>4. Updated([f EXCEPT ![id] = r], f, D, id, d, f[id].ro, f[id].tmp)
  BY <1>2, OneUpdated, Zenon
<1> QED BY <1>3, <1>4, Zenon

(* A build goes on after a change of its new subvolume.                       *)
LEMMA NewChangedIsGood ==
  ASSUME PublicationInv, NEW t \in Targets, Running(t), HasNew(t), ~Linked(t), proc[t].old = None,
         proc' \in [Targets -> ProcRecord], \A u \in Targets : u # t => proc'[u] = proc[u],
         mode' = mode, nextId' = nextId, collected' = collected, volume' = volume, output' = output,
         status' = status, faults' = faults, tmpdirs' \subseteq tmpdirs,
         NEW id, id = proc[t].new, subvols' \in [DOMAIN subvols -> SubvolRecord],
         \A i \in DOMAIN subvols : i # id => subvols'[i] = subvols[i],
         id \in DOMAIN subvols =>
           /\ subvols'[id].of = subvols[id].of
           /\ Filled(t)' => subvols'[id].data = "full"
           /\ InPlace(t)' => ~subvols'[id].tmp
           /\ Sealed(t)' => subvols'[id].ro,
         id \in tmpdirs' => Kind[t] = "send" \/ (id \in DOMAIN subvols /\ subvols'[id].tmp),
         proc'[t].pc \in 1 .. Last(t), proc'[t].new = id, proc'[t].old = None, proc'[t].format = proc[t].format,
         HasNew(t)', ~Linked(t)', PastOld(t)' => PastOld(t), Privileges(t)',
         proc'[t].dep = IF Opened(t)' /\ Dep[t] # None THEN output[Dep[t]] ELSE None
  PROVE  Good(t)
<1>1. StoreType /\ Mine(t) /\ GoodNew(t)
  BY Zenon DEF PublicationInv, Mine, NewIsGood
<1>2. DOMAIN subvols' = DOMAIN subvols
  BY Zenon
<1>3. StoreType'
  BY <1>1, <1>2, Zenon DEF StoreType
<1>4. Touches(t)
  <2>1. Exists(id) => subvols[id].of = t
    BY <1>1, Zenon DEF GoodNew, StoreType, Exists
  <2> QED BY <1>1, <1>2, <2>1, OwnTouched, Zenon DEF Exists
<1>5. OnlyOwn(t)
  BY Zenon DEF OnlyOwn
<1>6. NewIsGood(t)'
  <2>1. GoodNew(t)'
    BY <1>1, <1>2, Zenon DEF GoodNew, Exists
  <2> QED BY <2>1, Zenon DEF NewIsGood
<1>7. OldIsOwn(t)' /\ TmpIsHidden(t)'
  BY <1>1, <1>2, Zenon DEF Mine, OldIsOwn, TmpIsHidden, Exists
<1>8. Charges
  <2>1. \A i : Accounted(t, i) => Accounted(t, i)'
    BY Zenon DEF Accounted
  <2>2. nextId \notin DOMAIN subvols \cup tmpdirs
    BY <1>1 DEF StoreType
  <2> QED BY <1>2, <1>4, <1>5, <2>1, <2>2, NoCharge, Zenon
<1> QED BY <1>3, <1>4, <1>5, <1>6, <1>7, <1>8, ContinueIsGood, Zenon

-----------------------------------------------------------------------------
(***************************************************************************)
(* The new subvolume                                                       *)
(***************************************************************************)

(* The layer a build has opened is complete, unless it has been collected.    *)
LEMMA SourceIsWhole ==
  ASSUME PublicationInv, NEW t \in Targets, Running(t), proc[t].dep # None
  PROVE  /\ proc[t].dep = output[Dep[t]]
         /\ proc[t].dep \in collected \/ (Exists(proc[t].dep) /\ subvols[proc[t].dep].data = "full")
<1>1. Dep[t] # None /\ proc[t].dep = output[Dep[t]] /\ ~Running(Dep[t]) /\ status[Dep[t]] = "ok"
  BY Zenon DEF PublicationInv, Mine, DepIsBuilt
<1>2. Dep[t] \in Targets
  BY <1>1, TargetsAssumption, Zenon
<1>3. output[Dep[t]] \in collected \/ (Exists(output[Dep[t]]) /\ Whole(Dep[t], output[Dep[t]]))
  BY <1>1, <1>2, Zenon DEF PublicationInv, Mine, OutputIsOwn
<1> QED BY <1>1, <1>3, Zenon DEF Whole

(* Subvolume::create or Subvolume::snapshot to a newly allocated path.        *)
LEMMA CreateIsGood ==
  ASSUME PublicationInv, NEW t \in Targets, Create(t)
  PROVE  Good(t)
<1>1. StoreType /\ Mine(t) /\ Running(t)
  BY Zenon DEF PublicationInv, Create, At, Running
<1>2. \/ Kind[t] = "compile" /\ proc[t].pc = 3
      \/ Kind[t] = "receive" /\ proc[t].pc = 2
      \/ Kind[t] = "send" /\ proc[t].pc = 2
      \/ Kind[t] = "materialize" /\ proc[t].pc = 4
  BY <1>1, StageNumbers, Zenon DEF Create, Mine, Placed, IsAt
<1>3. /\ mode' = mode /\ collected' = collected /\ volume' = volume /\ output' = output
      /\ proc[t].new = None /\ proc[t].old = None
      /\ nextId \in Nat \ {0} /\ nextId \notin DOMAIN subvols \cup tmpdirs
      /\ None \notin Nat /\ None \notin DOMAIN subvols \cup tmpdirs
  <2>1. proc[t].new = None /\ proc[t].old = None
    BY <1>1, <1>2 DEF Mine, NewIsGood, HasNew, OldIsOwn, AtDelete
  <2>2. mode' = mode /\ collected' = collected /\ volume' = volume /\ output' = output
    BY Zenon DEF Create
  <2>3. nextId \in Nat \ {0} /\ DOMAIN subvols \cup tmpdirs \subseteq 1 .. nextId - 1 /\ None \notin Nat
    BY <1>1, TargetsAssumption, Zenon DEF StoreType
  <2> QED BY <2>1, <2>2, <2>3
<1>4. PICK source : source = proc[t].dep
  BY Zenon
<1>5. source # None => source \in collected \/ (Exists(source) /\ subvols[source].data = "full")
  BY <1>1, <1>4, SourceIsWhole, Zenon
<1>6. PICK p : p = IF Kind[t] \in {"send", "receive"} THEN Escalate(t, proc[t]) ELSE proc[t]
  BY Zenon
<1>7. PICK r : r = IF Kind[t] \in {"send", "compile"} THEN DropGuard(t, p) ELSE p
  BY Zenon
<1>8. PICK q : q = [r EXCEPT !.new = nextId]
  BY Zenon
<1>9. proc[t] \in ProcRecord /\ proc[t].root \in BOOLEAN /\ proc[t].guards \in Int /\ proc[t].pc # Last(t)
  <2>1. proc[t] \in ProcRecord
    BY <1>1, Zenon DEF StoreType
  <2> QED BY <1>2, <2>1, LastStage DEF ProcRecord
<1>10. /\ Is(p, proc[t].pc, p.root,
             IF Kind[t] \in {"send", "receive"} /\ UsesGuards(t) THEN proc[t].guards + 1 ELSE proc[t].guards,
             proc[t].dep, proc[t].new, proc[t].old, proc[t].format)
       /\ Kind[t] \notin {"send", "receive"} \/ ~UsesGuards(t) => p.root = proc[t].root
       /\ Kind[t] \in {"send", "receive"} /\ UsesGuards(t) => p.root
  <2>1. Is(Escalate(t, proc[t]), proc[t].pc, UsesGuards(t) \/ proc[t].root,
           IF UsesGuards(t) THEN proc[t].guards + 1 ELSE proc[t].guards,
           proc[t].dep, proc[t].new, proc[t].old, proc[t].format)
    BY <1>9, EscalateFields, Zenon
  <2> QED BY <1>6, <1>9, <2>1, Zenon DEF Is
<1>11. Kind[t] # "materialize" => p.root
  <2>1. /\ Kind[t] = "compile" => proc[t].root
        /\ Kind[t] = "send" => mode # "userns"
        /\ Kind[t] = "receive" /\ mode = "userns" => proc[t].root
    BY <1>1, <1>2 DEF Mine, Privileges
  <2>2. Kind[t] \in {"send", "receive"} /\ mode # "userns" => UsesGuards(t)
    BY Zenon DEF UsesGuards
  <2>3. mode = "userns" => ~UsesGuards(t)
    BY Zenon DEF UsesGuards
  <2> QED BY <1>2, <1>10, <2>1, <2>2, <2>3, Zenon
<1>12. \/ /\ mode = "user" /\ Fail(t, "escalate") /\ nextId' = nextId /\ faults' = faults
       \/ /\ source # None /\ ~Exists(source) /\ Fail(t, "parent gone") /\ nextId' = nextId /\ faults' = faults
       \/ /\ Kind[t] \in {"compile", "materialize"} \/ mode # "user"
          /\ source # None => Exists(source)
          /\ Step(t, q)
          /\ subvols' = [i \in DOMAIN subvols \cup {nextId} |->
                           IF i = nextId THEN NewSubvol(t, source) ELSE subvols[i]]
          /\ tmpdirs' = IF Kind[t] = "send" \/ proc[t].format = "sendstream" THEN tmpdirs \cup {nextId} ELSE tmpdirs
          /\ nextId' = nextId + 1 /\ status' = status /\ faults' = faults
       \/ Fault(t) /\ nextId' = nextId
  BY <1>4, <1>6, <1>7, <1>8, <1>11, Zenon DEF Create
<1>13. CASE mode = "user" /\ Fail(t, "escalate") /\ nextId' = nextId /\ faults' = faults
  <2>1. status'[t] = "escalate"
    BY <1>1, <1>13, Zenon DEF Fail, End, StoreType
  <2>2. Explained(t)
    BY <1>13, <2>1, Zenon DEF Explained
  <2> QED BY <1>1, <1>3, <1>13, <2>2, FailIsGood, Zenon DEF Statuses
<1>14. CASE source # None /\ ~Exists(source) /\ Fail(t, "parent gone") /\ nextId' = nextId /\ faults' = faults
  <2>1. status'[t] = "parent gone"
    BY <1>1, <1>14, Zenon DEF Fail, End, StoreType
  <2>2. proc[t].dep # None /\ proc[t].dep \in collected
    BY <1>4, <1>5, <1>14, Zenon
  <2>3. Explained(t)
    BY <2>1, <2>2, Zenon DEF Explained
  <2> QED BY <1>1, <1>3, <1>14, <2>3, FailIsGood, Zenon DEF Statuses
<1>15. CASE Fault(t) /\ nextId' = nextId
  BY <1>1, <1>3, <1>15, FaultIsGood, Zenon
<1>16. CASE /\ Kind[t] \in {"compile", "materialize"} \/ mode # "user"
            /\ source # None => Exists(source)
            /\ Step(t, q)
            /\ subvols' = [i \in DOMAIN subvols \cup {nextId} |->
                             IF i = nextId THEN NewSubvol(t, source) ELSE subvols[i]]
            /\ tmpdirs' = IF Kind[t] = "send" \/ proc[t].format = "sendstream" THEN tmpdirs \cup {nextId} ELSE tmpdirs
            /\ nextId' = nextId + 1 /\ status' = status /\ faults' = faults
  <2>1. /\ Is(r, proc[t].pc, r.root,
              IF UsesGuards(t) THEN IF Kind[t] = "compile" THEN proc[t].guards - 1
                                    ELSE IF Kind[t] = "receive" THEN proc[t].guards + 1 ELSE proc[t].guards
              ELSE proc[t].guards,
              proc[t].dep, proc[t].new, proc[t].old, proc[t].format)
        /\ Kind[t] = "receive" \/ ~UsesGuards(t) => r.root = p.root
    <3>1. Is(DropGuard(t, p), p.pc, IF UsesGuards(t) THEN mode # "sudo" /\ p.root ELSE p.root,
             IF UsesGuards(t) THEN p.guards - 1 ELSE p.guards, p.dep, p.new, p.old, p.format)
      BY <1>10, DropGuardFields, Zenon DEF Is
    <3>2. CASE Kind[t] = "send"
      <4>1. r = DropGuard(t, p)
        BY <1>7, <3>2, Zenon
      <4>2. p.guards - 1 = IF UsesGuards(t) THEN proc[t].guards ELSE proc[t].guards - 1
        BY <1>9, <1>10, <3>2 DEF Is
      <4> QED BY <1>9, <1>10, <3>1, <3>2, <4>1, <4>2, Zenon DEF Is
    <3>3. CASE Kind[t] = "compile"
      <4>1. r = DropGuard(t, p)
        BY <1>7, <3>3, Zenon
      <4> QED BY <1>9, <1>10, <3>1, <3>3, <4>1, Zenon DEF Is
    <3>4. CASE Kind[t] = "receive"
      BY <1>7, <1>10, <3>4, Zenon DEF Is
    <3>5. CASE Kind[t] = "materialize"
      BY <1>7, <1>10, <3>5, Zenon DEF Is, UsesGuards
    <3> QED BY <1>2, <3>2, <3>3, <3>4, <3>5, Zenon
  <2>2. Is(q, r.pc, r.root, r.guards, r.dep, nextId, r.old, r.format)
    <3>1. r \in ProcRecord /\ nextId \in Ids
      BY <1>3, <2>1, Zenon DEF Is, Ids
    <3> QED BY <1>8, <3>1, WithNew, Zenon
  <2>3. /\ proc' \in [Targets -> ProcRecord] /\ \A u \in Targets : u # t => proc'[u] = proc[u]
        /\ Is(proc'[t], q.pc + 1, q.root, q.guards, q.dep, q.new, q.old, q.format)
    <3>1. q \in ProcRecord /\ q.pc # Last(t)
      BY <1>9, <2>1, <2>2, Zenon DEF Is
    <3> QED BY <1>1, <1>16, <3>1, StepOn, Zenon
  <2>4. /\ proc'[t].pc = proc[t].pc + 1 /\ proc'[t].dep = proc[t].dep /\ proc'[t].new = nextId
        /\ proc'[t].old = None /\ proc'[t].format = proc[t].format
        /\ proc'[t].guards = IF UsesGuards(t) THEN IF Kind[t] = "compile" THEN proc[t].guards - 1
                                                   ELSE IF Kind[t] = "receive" THEN proc[t].guards + 1
                                                   ELSE proc[t].guards
                             ELSE proc[t].guards
        /\ (Kind[t] = "receive" \/ ~UsesGuards(t) => proc'[t].root = p.root)
    BY <1>3, <2>1, <2>2, <2>3, Zenon DEF Is
  <2>5. PICK s : s = NewSubvol(t, source)
    BY Zenon
  <2>6. /\ s \in SubvolRecord /\ s.of = t /\ (Kind[t] = "send" => s.data = "full")
        /\ s.tmp = (Kind[t] = "send" \/ proc[t].format = "sendstream")
    <3>1. Kind[t] = "send" => source # None
      <4>1. ASSUME Kind[t] = "send" PROVE source # None
        <5>1. Dep[t] # None /\ Dep[t] \in Targets
          BY <4>1, TargetsAssumption, Zenon
        <5>2. source = output[Dep[t]] /\ ~Running(Dep[t]) /\ status[Dep[t]] = "ok"
          BY <1>1, <1>2, <1>4, <4>1, <5>1 DEF Mine, DepIsBuilt, Opened
        <5> QED BY <5>1, <5>2, Zenon DEF PublicationInv, Mine, OutputIsOwn
      <4> QED BY <4>1, Zenon
    <3>2. source # None => source \in DOMAIN subvols /\ subvols[source].data = "full"
                           /\ subvols[source].birth \in {"recent", "old"}
      <4>1. ASSUME source # None PROVE source \in DOMAIN subvols /\ subvols[source] \in SubvolRecord
        BY <1>1, <1>16, <4>1, Zenon DEF Exists, StoreType
      <4>2. source # None => source \notin collected
        BY <1>1, <4>1, Zenon DEF StoreType
      <4> QED BY <1>5, <4>1, <4>2, Zenon DEF SubvolRecord
    <3>3. s = [of |-> t, data |-> IF Kind[t] = "send" THEN subvols[source].data ELSE "partial",
               ro |-> Kind[t] = "send", birth |-> IF source = None THEN "recent" ELSE subvols[source].birth,
               tmp |-> Kind[t] = "send" \/ proc[t].format = "sendstream"]
      BY <2>5, Zenon DEF NewSubvol
    <3> QED BY <3>1, <3>2, <3>3, Zenon DEF SubvolRecord
  <2>7. /\ DOMAIN subvols' = DOMAIN subvols \cup {nextId} /\ subvols'[nextId] = s
        /\ \A i \in DOMAIN subvols : subvols'[i] = subvols[i]
        /\ subvols' \in [DOMAIN subvols' -> SubvolRecord]
    BY <1>1, <1>3, <1>16, <2>5, <2>6, Zenon DEF StoreType
  <2>8. /\ tmpdirs \subseteq tmpdirs' /\ tmpdirs' \subseteq tmpdirs \cup {nextId}
        /\ nextId \in tmpdirs' => Kind[t] = "send" \/ s.tmp
    BY <1>3, <1>16, <2>6, Zenon
  <2>9. nextId' = nextId + 1 /\ status' = status /\ faults' = faults
    BY <1>16, Zenon
  <2>10. StoreType'
    BY <1>1, <1>3, <2>3, <2>7, <2>8, <2>9 DEF StoreType
  <2>11. Touches(t) /\ OnlyOwn(t)
    BY <1>3, <2>3, <2>6, <2>7, <2>8, <2>9, Zenon DEF Touches, OnlyOwn
  <2>12. Privileges(t)'
    <3>1. /\ proc[t].guards = IF UsesGuards(t) /\ Kind[t] = "compile" THEN 2 ELSE 0
          /\ Kind[t] = "compile" => mode # "user"
          /\ Kind[t] = "send" => mode # "userns"
      BY <1>1, <1>2 DEF Mine, Privileges
    <3>2. Kind[t] = "receive" => mode # "user" /\ proc'[t].root
      BY <1>11, <1>16, <2>4, Zenon
    <3>3. Kind[t] = "compile" /\ mode = "userns" => proc'[t].root
      <4>1. mode = "userns" => ~UsesGuards(t)
        BY Zenon DEF UsesGuards
      <4> QED BY <1>11, <2>4, <4>1, Zenon
    <3>4. proc'[t].guards = IF UsesGuards(t) /\ Kind[t] \in {"compile", "receive"} THEN 1 ELSE 0
      BY <1>2, <2>4, <3>1
    <3> QED BY <1>2, <1>3, <2>4, <3>1, <3>2, <3>3, <3>4 DEF Privileges, UsesGuards
  <2>13. output[t] \in {None} \cup 1 .. nextId - 1 /\ output[t] # nextId
    BY <1>1, <1>3 DEF StoreType
  <2>14. NewIsGood(t)'
    <3>1. HasNew(t)' /\ ~Linked(t)' /\ ~Sealed(t)' /\ (Filled(t)' => Kind[t] = "send")
      BY <1>2, <2>4 DEF HasNew, Linked, Sealed, Filled
    <3>2. InPlace(t)' => ~s.tmp
      <4>1. Kind[t] # "receive" => proc[t].format # "sendstream"
        BY <1>1, TargetsAssumption, Zenon DEF Mine, Placed
      <4>2. InPlace(t)' => Kind[t] # "send" /\ proc[t].format # "sendstream"
        BY <1>2, <2>4, <4>1 DEF InPlace
      <4> QED BY <2>6, <4>2, Zenon
    <3>3. nextId \in 1 .. nextId' - 1
      BY <1>3, <2>9
    <3>4. nextId \in DOMAIN subvols' /\ subvols'[nextId] = s
      BY <2>7, Zenon
    <3>5. GoodNew(t)'
      BY <1>3, <2>4, <2>6, <2>13, <3>1, <3>2, <3>3, <3>4, Zenon DEF GoodNew, Exists
    <3> QED BY <3>1, <3>5, Zenon DEF NewIsGood
  <2>15. OldIsOwn(t)'
    BY <2>4, Zenon DEF OldIsOwn
  <2>16. TmpIsHidden(t)'
    BY <1>1, <1>3, <2>4, <2>7, <2>8, <2>13, Zenon DEF Mine, TmpIsHidden, Exists
  <2>17. proc'[t].dep = IF Opened(t)' /\ Dep[t] # None THEN output[Dep[t]] ELSE None
    BY <1>1, <1>2, <2>4 DEF Mine, DepIsBuilt, Opened
  <2>18. Charges
    <3>1. ~PastOld(t)'
      BY <1>2, <2>4 DEF PastOld
    <3>2. \A i \in DOMAIN subvols' \cup tmpdirs' : i = nextId \/ Accounted(t, i) => Accounted(t, i)'
      BY <1>3, <2>4, <2>7, <2>8, <3>1 DEF Accounted
    <3> QED BY <2>9, <2>11, <3>2, NoCharge, Zenon
  <2>19. proc'[t].pc \in 1 .. Last(t) /\ proc'[t].format = proc[t].format
    BY <1>2, <2>4, LastStage
  <2> QED BY <1>1, <1>3, <2>9, <2>10, <2>11, <2>12, <2>14, <2>15, <2>16, <2>17, <2>18, <2>19, ContinueIsGood, Zenon
<1> QED BY <1>12, <1>13, <1>14, <1>15, <1>16, Zenon

(* The new subvolume gets its contents, or has been collected.                *)
LEMMA FillIsGood ==
  ASSUME PublicationInv, NEW t \in Targets, Fill(t)
  PROVE  Good(t)
<1>1. StoreType /\ Mine(t) /\ Running(t)
  BY Zenon DEF PublicationInv, Fill, At, Running
<1>2. IsAt(t, "compile", 4) \/ IsAt(t, "receive", 3) \/ IsAt(t, "materialize", 5)
  BY <1>1, StageNumbers, Zenon DEF Fill, Mine, Placed
<1>3. mode' = mode /\ nextId' = nextId /\ collected' = collected /\ volume' = volume /\ output' = output
  BY Zenon DEF Fill
<1>4. HasNew(t) /\ GoodNew(t) /\ proc[t].old = None /\ ~Linked(t)
  BY <1>1, <1>2 DEF Mine, NewIsGood, HasNew, OldIsOwn, AtDelete, Linked, IsAt
<1>5. proc[t] \in ProcRecord /\ proc[t].root \in BOOLEAN /\ proc[t].guards \in Int /\ proc[t].pc # Last(t)
  <2>1. proc[t] \in ProcRecord
    BY <1>1, Zenon DEF StoreType
  <2> QED BY <1>2, <2>1, LastStage DEF ProcRecord, IsAt
<1>6. PICK r : r = IF Kind[t] = "compile" THEN DropGuard(t, proc[t]) ELSE proc[t]
  BY Zenon
<1>7. PICK p : p = IF Kind[t] = "compile" THEN Escalate(t, r) ELSE r
  BY Zenon
<1>8. PICK q : q = IF Kind[t] = "compile" THEN DropGuard(t, p) ELSE p
  BY Zenon
<1>9. PICK id : id = proc[t].new
  BY Zenon
<1>10. CASE Fault(t)
  BY <1>1, <1>3, <1>10, FaultIsGood, Zenon
<1>11. CASE /\ IF ~Exists(id) THEN Fail(t, "collected")
               ELSE IF ~p.root /\ Kind[t] = "compile" THEN Fail(t, "not root")
               ELSE /\ subvols' = [subvols EXCEPT ![id].data = "full", ![id].ro = proc[t].format = "sendstream"]
                    /\ Step(t, q) /\ UNCHANGED <<status, tmpdirs>>
            /\ UNCHANGED faults
  <2>1. CASE ~Exists(id)
    <3>1. id \in collected /\ id \notin tmpdirs
      BY <1>1, <1>2, <1>4, <1>9, <2>1, Zenon DEF GoodNew, Mine, TmpIsHidden, IsAt
    <3>2. Fail(t, "collected") /\ faults' = faults
      BY <1>11, <2>1, Zenon
    <3>3. status'[t] = "collected"
      BY <1>1, <3>2, Zenon DEF Fail, End, StoreType
    <3>4. Explained(t)
      BY <1>9, <3>1, <3>3, Zenon DEF Explained
    <3>5. proc[t].new \notin DOMAIN subvols \cup tmpdirs
      BY <1>9, <2>1, <3>1, Zenon DEF Exists
    <3> QED BY <1>1, <1>3, <3>2, <3>4, <3>5, FailIsGood, Zenon DEF Statuses
  <2>2. CASE Exists(id)
    <3>1. /\ Is(q, proc[t].pc, q.root, IF Kind[t] = "compile" /\ UsesGuards(t) THEN proc[t].guards - 1 ELSE proc[t].guards,
                proc[t].dep, proc[t].new, proc[t].old, proc[t].format)
          /\ Kind[t] # "compile" \/ ~UsesGuards(t) => q.root = proc[t].root
          /\ Kind[t] = "compile" => p.root = (UsesGuards(t) \/ proc[t].root)
      <4>1. CASE Kind[t] # "compile"
        BY <1>5, <1>6, <1>7, <1>8, <4>1, Zenon DEF Is
      <4>2. CASE Kind[t] = "compile"
        <5>1. Is(r, proc[t].pc, IF UsesGuards(t) THEN mode # "sudo" /\ proc[t].root ELSE proc[t].root,
                 IF UsesGuards(t) THEN proc[t].guards - 1 ELSE proc[t].guards,
                 proc[t].dep, proc[t].new, proc[t].old, proc[t].format)
          BY <1>5, <1>6, <4>2, DropGuardFields, Zenon
        <5>2. Is(p, r.pc, UsesGuards(t) \/ r.root, IF UsesGuards(t) THEN r.guards + 1 ELSE r.guards,
                 r.dep, r.new, r.old, r.format)
          BY <1>7, <4>2, <5>1, EscalateFields, Zenon DEF Is
        <5>3. Is(q, p.pc, IF UsesGuards(t) THEN mode # "sudo" /\ p.root ELSE p.root,
                 IF UsesGuards(t) THEN p.guards - 1 ELSE p.guards, p.dep, p.new, p.old, p.format)
          BY <1>8, <4>2, <5>2, DropGuardFields, Zenon DEF Is
        <5>4. CASE UsesGuards(t)
          BY <1>5, <4>2, <5>1, <5>2, <5>3, <5>4 DEF Is
        <5>5. CASE ~UsesGuards(t)
          BY <1>5, <4>2, <5>1, <5>2, <5>3, <5>5, Zenon DEF Is
        <5> QED BY <5>4, <5>5, Zenon
      <4> QED BY <4>1, <4>2, Zenon
    <3>2. Kind[t] = "compile" => p.root
      <4>1. Kind[t] = "compile" => UsesGuards(t) \/ proc[t].root
        BY <1>1, <1>2 DEF Mine, Privileges, IsAt, UsesGuards
      <4> QED BY <3>1, <4>1, Zenon
    <3>3. /\ subvols' = [subvols EXCEPT ![id].data = "full", ![id].ro = proc[t].format = "sendstream"]
          /\ Step(t, q) /\ status' = status /\ tmpdirs' = tmpdirs /\ faults' = faults
      BY <1>11, <2>2, <3>2, Zenon
    <3>4. /\ subvols' \in [DOMAIN subvols -> SubvolRecord]
          /\ \A i \in DOMAIN subvols : i # id => subvols'[i] = subvols[i]
          /\ id \in DOMAIN subvols => /\ subvols'[id].of = subvols[id].of /\ subvols'[id].data = "full"
                                      /\ subvols'[id].tmp = subvols[id].tmp
      <4>1. subvols \in [DOMAIN subvols -> SubvolRecord]
        BY <1>1, Zenon DEF StoreType
      <4>2. PICK b \in BOOLEAN : b = (proc[t].format = "sendstream")
        BY Zenon
      <4>3. PICK g : g = [subvols EXCEPT ![id].data = "full"]
        BY Zenon
      <4>4. Updated(g, subvols, DOMAIN subvols, id, "full", subvols[id].ro, subvols[id].tmp)
        BY <4>1, <4>3, SetData, Zenon
      <4>5. Updated([g EXCEPT ![id].ro = b], g, DOMAIN subvols, id, g[id].data, b, g[id].tmp)
        <5>1. g \in [DOMAIN subvols -> SubvolRecord]
          BY <4>4, Zenon DEF Updated
        <5> QED BY <4>2, <5>1, SetRo, Zenon
      <4>6. subvols' = [g EXCEPT ![id].ro = b]
        BY <3>3, <4>2, <4>3, Zenon
      <4>7. Updated(subvols', g, DOMAIN subvols, id, g[id].data, b, g[id].tmp)
        BY <4>5, <4>6, Zenon
      <4> QED BY <4>4, <4>7, Zenon DEF Updated
    <3>5. /\ proc' \in [Targets -> ProcRecord] /\ \A u \in Targets : u # t => proc'[u] = proc[u]
          /\ Is(proc'[t], q.pc + 1, q.root, q.guards, q.dep, q.new, q.old, q.format)
      <4>1. q \in ProcRecord /\ q.pc # Last(t)
        BY <1>5, <3>1, Zenon DEF Is
      <4> QED BY <1>1, <3>3, <4>1, StepOn, Zenon
    <3>6. /\ proc'[t].pc = proc[t].pc + 1 /\ proc'[t].root = q.root
          /\ proc'[t].guards = IF Kind[t] = "compile" /\ UsesGuards(t) THEN proc[t].guards - 1 ELSE proc[t].guards
          /\ proc'[t].dep = proc[t].dep /\ proc'[t].new = id /\ proc'[t].old = None
          /\ proc'[t].format = proc[t].format
      BY <1>4, <1>9, <3>1, <3>5, Zenon DEF Is
    <3>7. Privileges(t)'
      <4>1. /\ proc[t].guards = IF UsesGuards(t) THEN 1 ELSE 0
            /\ Kind[t] \in {"compile", "receive"} => mode # "user"
            /\ Kind[t] = "receive" => proc[t].root
            /\ Kind[t] = "compile" /\ mode = "userns" => proc[t].root
            /\ Kind[t] = "materialize" => ~UsesGuards(t)
        BY <1>1, <1>2 DEF Mine, Privileges, IsAt, UsesGuards
      <4>2. \/ Kind[t] = "compile" /\ proc'[t].pc = 5 /\ proc'[t].guards = 0
            \/ Kind[t] = "receive" /\ proc'[t].pc = 4 /\ proc'[t].guards = (IF UsesGuards(t) THEN 1 ELSE 0)
            \/ Kind[t] = "materialize" /\ proc'[t].pc = 6 /\ proc'[t].guards = 0
        BY <1>2, <3>6, <4>1 DEF IsAt
      <4>3. Kind[t] = "receive" \/ (Kind[t] = "compile" /\ mode = "userns") => proc'[t].root
        BY <3>1, <3>6, <4>1, Zenon DEF UsesGuards
      <4> QED BY <1>3, <4>1, <4>2, <4>3 DEF Privileges, UsesGuards
    <3>8. /\ HasNew(t)' /\ ~Linked(t)' /\ ~Sealed(t)'
          /\ PastOld(t)' => PastOld(t)
          /\ InPlace(t)' => InPlace(t)
          /\ proc'[t].pc \in 1 .. Last(t)
      BY <1>2, <3>6, LastStage DEF HasNew, InPlace, Linked, PastOld, Sealed, IsAt
    <3>9. id \in DOMAIN subvols =>
             /\ subvols'[id].of = subvols[id].of
             /\ Filled(t)' => subvols'[id].data = "full"
             /\ InPlace(t)' => ~subvols'[id].tmp
             /\ Sealed(t)' => subvols'[id].ro
      BY <1>1, <1>4, <1>9, <3>4, <3>8, Zenon DEF GoodNew, StoreType, Exists
    <3>10. id \in tmpdirs' => Kind[t] = "send" \/ (id \in DOMAIN subvols /\ subvols'[id].tmp)
      BY <1>1, <1>9, <3>3, <3>4, Zenon DEF Mine, TmpIsHidden, Exists
    <3>11. proc'[t].dep = IF Opened(t)' /\ Dep[t] # None THEN output[Dep[t]] ELSE None
      BY <1>1, <1>2, <3>6 DEF Mine, DepIsBuilt, Opened, IsAt
    <3>12. status' = status /\ tmpdirs' = tmpdirs /\ faults' = faults
      BY <3>3, Zenon
    <3> QED BY <1>1, <1>3, <1>4, <1>9, <3>4, <3>5, <3>6, <3>7, <3>8, <3>9, <3>10, <3>11, <3>12, NewChangedIsGood, Zenon
  <2> QED BY <2>1, <2>2, Zenon
<1> QED BY <1>6, <1>7, <1>8, <1>9, <1>10, <1>11, Zenon DEF Fill

(* A subvolume made in a temporary directory is moved to its place.           *)
LEMMA MoveIsGood ==
  ASSUME PublicationInv, NEW t \in Targets, Move(t)
  PROVE  Good(t)
<1>1. StoreType /\ Mine(t) /\ Running(t)
  BY Zenon DEF PublicationInv, Move, At, Running
<1>2. IsAt(t, "receive", 4) \/ IsAt(t, "send", 5)
  BY <1>1, StageNumbers, Zenon DEF Move, Mine, Placed
<1>3. mode' = mode /\ nextId' = nextId /\ collected' = collected /\ volume' = volume /\ output' = output
  BY Zenon DEF Move
<1>4. HasNew(t) /\ GoodNew(t) /\ proc[t].old = None /\ ~Linked(t) /\ Filled(t)
  BY <1>1, <1>2 DEF Mine, NewIsGood, HasNew, OldIsOwn, AtDelete, Linked, Filled, IsAt
<1>5. PICK id : id = proc[t].new
  BY Zenon
<1>6. /\ Exists(id) => subvols[id].of = t /\ subvols[id].data = "full"
      /\ subvols \in [DOMAIN subvols -> SubvolRecord]
  BY <1>1, <1>4, <1>5, Zenon DEF GoodNew, StoreType, Exists
<1>7. PICK rw : rw = [subvols EXCEPT ![id].ro = FALSE]
  BY Zenon
<1>8. Updated(rw, subvols, DOMAIN subvols, id, subvols[id].data, FALSE, subvols[id].tmp)
  <2>1. FALSE \in BOOLEAN
    BY Zenon
  <2> QED BY <1>6, <1>7, <2>1, SetRo, Zenon
<1>9. rw \in [DOMAIN subvols -> SubvolRecord]
  BY <1>8, Zenon DEF Updated
<1>10. ASSUME Step(t, proc[t]), status' = status, faults' = faults, tmpdirs' \subseteq tmpdirs,
              subvols' \in [DOMAIN subvols -> SubvolRecord],
              \A i \in DOMAIN subvols : i # id => subvols'[i] = subvols[i],
              id \in DOMAIN subvols => /\ subvols'[id].of = t /\ subvols'[id].data = "full" /\ ~subvols'[id].tmp
                                       /\ subvols'[id].ro \/ Kind[t] = "receive",
              id \notin tmpdirs' \/ Kind[t] = "send"
       PROVE  Good(t)
  <2>1. proc[t] \in ProcRecord /\ proc[t].pc # Last(t)
    BY <1>1, <1>2, LastStage DEF StoreType, IsAt
  <2>2. /\ proc' \in [Targets -> ProcRecord] /\ \A u \in Targets : u # t => proc'[u] = proc[u]
        /\ Is(proc'[t], proc[t].pc + 1, proc[t].root, proc[t].guards, proc[t].dep, proc[t].new, proc[t].old,
              proc[t].format)
    BY <1>1, <1>10, <2>1, StepOn, Zenon
  <2>3. /\ proc'[t].pc = proc[t].pc + 1 /\ proc'[t].root = proc[t].root /\ proc'[t].guards = proc[t].guards
        /\ proc'[t].dep = proc[t].dep /\ proc'[t].new = id /\ proc'[t].old = None
        /\ proc'[t].format = proc[t].format
    BY <1>4, <1>5, <2>2, Zenon DEF Is
  <2>4. /\ HasNew(t)' /\ ~Linked(t)'
        /\ PastOld(t)' => PastOld(t)
        /\ Sealed(t)' => Kind[t] = "send"
        /\ proc'[t].pc \in 1 .. Last(t)
    BY <1>2, <2>3, LastStage DEF HasNew, Linked, PastOld, Sealed, IsAt
  <2>5. Privileges(t)'
    <3>1. \/ Kind[t] = "receive" /\ proc[t].pc = 4 /\ proc'[t].pc = 5
          \/ Kind[t] = "send" /\ proc[t].pc = 5 /\ proc'[t].pc = 6
      BY <1>2, <2>3 DEF IsAt
    <3> QED BY <1>1, <1>3, <2>3, <3>1 DEF Mine, Privileges, UsesGuards
  <2>6. id \in DOMAIN subvols =>
           /\ subvols'[id].of = subvols[id].of
           /\ Filled(t)' => subvols'[id].data = "full"
           /\ InPlace(t)' => ~subvols'[id].tmp
           /\ Sealed(t)' => subvols'[id].ro
    BY <1>6, <1>10, <2>4, Zenon DEF Exists
  <2>7. proc'[t].dep = IF Opened(t)' /\ Dep[t] # None THEN output[Dep[t]] ELSE None
    BY <1>1, <1>2, <2>3 DEF Mine, DepIsBuilt, Opened, IsAt
  <2> QED BY <1>1, <1>3, <1>4, <1>5, <1>10, <2>2, <2>3, <2>4, <2>5, <2>6, <2>7, NewChangedIsGood, Zenon
<1>11. CASE /\ proc[t].format \in {"sendstream", None}
            /\ subvols' = [rw EXCEPT ![id].tmp = FALSE, ![id].ro = SealedOnMove(t)]
            /\ tmpdirs' = IF Kind[t] # "send" THEN tmpdirs \ {id} ELSE tmpdirs
            /\ Step(t, proc[t]) /\ UNCHANGED <<status, faults>>
  <2>1. PICK b \in BOOLEAN : b = SealedOnMove(t)
    BY Zenon DEF SealedOnMove
  <2>2. Updated(subvols', rw, DOMAIN subvols, id, rw[id].data, b, FALSE)
    <3>1. PICK g : g = [rw EXCEPT ![id].tmp = FALSE]
      BY Zenon
    <3>2. Updated(g, rw, DOMAIN subvols, id, rw[id].data, rw[id].ro, FALSE)
      <4>1. FALSE \in BOOLEAN
        BY Zenon
      <4> QED BY <1>9, <3>1, <4>1, SetTmp, Zenon
    <3>3. Updated([g EXCEPT ![id].ro = b], g, DOMAIN subvols, id, g[id].data, b, g[id].tmp)
      <4>1. g \in [DOMAIN subvols -> SubvolRecord]
        BY <3>2, Zenon DEF Updated
      <4> QED BY <2>1, <4>1, SetRo, Zenon
    <3>4. subvols' = [g EXCEPT ![id].ro = b]
      BY <1>11, <2>1, <3>1, Zenon
    <3>5. Updated(subvols', g, DOMAIN subvols, id, g[id].data, b, g[id].tmp)
      BY <3>3, <3>4, Zenon
    <3> QED BY <3>2, <3>5, Zenon DEF Updated
  <2>3. /\ subvols' \in [DOMAIN subvols -> SubvolRecord]
        /\ \A i \in DOMAIN subvols : i # id => subvols'[i] = subvols[i]
        /\ id \in DOMAIN subvols => /\ subvols'[id].of = t /\ subvols'[id].data = "full" /\ subvols'[id].tmp = FALSE
                                    /\ subvols'[id].ro = b
    BY <1>6, <1>8, <2>2, Zenon DEF Updated, Exists
  <2>4. Kind[t] = "send" => b
    BY <2>1, Zenon DEF SealedOnMove
  <2>5. Kind[t] = "send" \/ Kind[t] = "receive"
    BY <1>2, Zenon DEF IsAt
  <2>6. Step(t, proc[t]) /\ status' = status /\ faults' = faults /\ tmpdirs' \subseteq tmpdirs
        /\ (id \notin tmpdirs' \/ Kind[t] = "send")
    BY <1>11, Zenon
  <2> QED BY <1>10, <2>3, <2>4, <2>5, <2>6, Zenon
<1>12. CASE /\ proc[t].format \in {"cas_dir", "tar"}
            /\ Step(t, proc[t]) /\ UNCHANGED <<status, faults, subvols, tmpdirs>>
  <2>1. Kind[t] = "receive" /\ InPlace(t)
    BY <1>1, <1>2, <1>12, TargetsAssumption, Zenon DEF InPlace, IsAt, Mine, Placed
  <2>2. id \in DOMAIN subvols => ~subvols[id].tmp
    BY <1>1, <1>4, <1>5, <2>1, Zenon DEF GoodNew, StoreType, Exists
  <2>3. id \notin tmpdirs
    BY <1>1, <1>5, <2>1, <2>2, Zenon DEF Mine, TmpIsHidden, Exists
  <2>4. Step(t, proc[t]) /\ status' = status /\ faults' = faults /\ tmpdirs' = tmpdirs /\ subvols' = subvols
    BY <1>12, Zenon
  <2> QED BY <1>6, <1>10, <2>1, <2>2, <2>3, <2>4, Zenon DEF Exists
<1>13. CASE /\ faults < MaxFaults /\ faults' = faults + 1 /\ proc[t].format \in {"sendstream", None}
            /\ End(t, "fault")
            /\ \/ /\ subvols' = IF proc[t].root THEN Without({id}) ELSE rw
                  /\ tmpdirs' = IF proc[t].root THEN tmpdirs \ {id} ELSE tmpdirs
               \/ subvols' = subvols /\ UNCHANGED tmpdirs
               \/ subvols' = [rw EXCEPT ![id].tmp = FALSE] /\ tmpdirs' = tmpdirs \ {id}
  <2>1. End(t, "fault") /\ faults' = faults + 1 /\ tmpdirs' \subseteq tmpdirs
    BY <1>13, Zenon
  <2>2. PICK moved : moved = [rw EXCEPT ![id].tmp = FALSE]
    BY Zenon
  <2>3. Updated(moved, rw, DOMAIN subvols, id, rw[id].data, rw[id].ro, FALSE)
    <3>1. FALSE \in BOOLEAN
      BY Zenon
    <3> QED BY <1>9, <2>2, <3>1, SetTmp, Zenon
  <2>4. subvols' \in {Without({id}), rw, subvols, moved}
    BY <1>13, <2>2, Zenon
  <2>5. /\ subvols' \in [DOMAIN subvols' -> SubvolRecord] /\ DOMAIN subvols' \subseteq DOMAIN subvols
        /\ \A i \in DOMAIN subvols : i # id => i \in DOMAIN subvols' /\ subvols'[i] = subvols[i]
        /\ id \in DOMAIN subvols' => subvols'[id].of = subvols[id].of
    <3>1. CASE subvols' = Without({id})
      BY <1>6, <3>1, Zenon DEF Without
    <3>2. CASE subvols' = rw
      BY <1>8, <3>2, Zenon DEF Updated
    <3>3. CASE subvols' = subvols
      BY <1>6, <3>3, Zenon
    <3>4. CASE subvols' = moved
      BY <1>8, <2>3, <3>4, Zenon DEF Updated
    <3> QED BY <2>4, <3>1, <3>2, <3>3, <3>4, Zenon
  <2>6. status'[t] = "fault"
    BY <1>1, <2>1, Zenon DEF End, StoreType
  <2>7. Explained(t)
    BY <2>6, Zenon DEF Explained
  <2> QED BY <1>1, <1>3, <1>5, <2>1, <2>5, <2>7, EndIsGood, Zenon DEF Statuses
<1> QED BY <1>5, <1>7, <1>11, <1>12, <1>13, Zenon DEF Move

(* set_readonly(true) on the new subvolume.                                   *)
LEMMA SealIsGood ==
  ASSUME PublicationInv, NEW t \in Targets, Seal(t)
  PROVE  Good(t)
<1>1. StoreType /\ Mine(t) /\ Running(t)
  BY Zenon DEF PublicationInv, Seal, At, Running
<1>2. IsAt(t, "compile", 7) \/ IsAt(t, "receive", 5)
  BY <1>1, StageNumbers, Zenon DEF Seal, Mine, Placed
<1>3. mode' = mode /\ nextId' = nextId /\ collected' = collected /\ volume' = volume /\ output' = output
  BY Zenon DEF Seal
<1>4. proc[t].root
  BY <1>1, <1>2 DEF Mine, Privileges, IsAt
<1>5. HasNew(t) /\ GoodNew(t) /\ proc[t].old = None
  BY <1>1, <1>2 DEF Mine, NewIsGood, HasNew, OldIsOwn, AtDelete, IsAt
<1>6. CASE Fault(t)
  BY <1>1, <1>3, <1>6, FaultIsGood, Zenon
<1>7. CASE ~Exists(proc[t].new) /\ Fail(t, "collected") /\ UNCHANGED faults
  <2>1. proc[t].new \in collected /\ proc[t].new \notin tmpdirs
    BY <1>1, <1>2, <1>5, <1>7, Zenon DEF GoodNew, Mine, TmpIsHidden, IsAt
  <2>2. status'[t] = "collected"
    BY <1>1, <1>7, Zenon DEF Fail, End, StoreType
  <2>3. Explained(t)
    BY <2>1, <2>2, Zenon DEF Explained
  <2>4. faults' = faults /\ proc[t].new \notin DOMAIN subvols \cup tmpdirs /\ Fail(t, "collected")
    BY <1>7, <2>1, Zenon DEF Exists
  <2> QED BY <1>1, <1>3, <2>3, <2>4, FailIsGood, Zenon DEF Statuses
<1>8. CASE /\ subvols' = IF Exists(proc[t].new) THEN [subvols EXCEPT ![proc[t].new].ro = TRUE] ELSE subvols
           /\ Step(t, IF Kind[t] = "compile" THEN DropGuard(t, proc[t]) ELSE proc[t])
           /\ UNCHANGED <<status, faults, tmpdirs>>
  <2>1. PICK id : id = proc[t].new
    BY Zenon
  <2>2. /\ subvols' \in [DOMAIN subvols -> SubvolRecord]
        /\ \A i \in DOMAIN subvols : i # id => subvols'[i] = subvols[i]
        /\ id \in DOMAIN subvols => /\ subvols'[id].of = subvols[id].of /\ subvols'[id].data = subvols[id].data
                                    /\ subvols'[id].ro = TRUE /\ subvols'[id].tmp = subvols[id].tmp
    <3>1. subvols \in [DOMAIN subvols -> SubvolRecord]
      BY <1>1, Zenon DEF StoreType
    <3>2. CASE Exists(id)
      <4>1. Updated([subvols EXCEPT ![id].ro = TRUE], subvols, DOMAIN subvols, id, subvols[id].data, TRUE, subvols[id].tmp)
        BY <3>1, SetRo, Zenon
      <4>2. subvols' = [subvols EXCEPT ![id].ro = TRUE]
        BY <1>8, <2>1, <3>2, Zenon
      <4>3. Updated(subvols', subvols, DOMAIN subvols, id, subvols[id].data, TRUE, subvols[id].tmp)
        BY <4>1, <4>2, Zenon
      <4> QED BY <4>3, Zenon DEF Updated
    <3>3. CASE ~Exists(id)
      BY <1>8, <2>1, <3>1, <3>3, Zenon DEF Exists
    <3> QED BY <3>2, <3>3, Zenon
  <2>3. status' = status /\ faults' = faults /\ tmpdirs' = tmpdirs
    BY <1>8, Zenon
  <2>4. PICK p : p = IF Kind[t] = "compile" THEN DropGuard(t, proc[t]) ELSE proc[t]
    BY Zenon
  <2>5. proc[t] \in ProcRecord /\ proc[t].root \in BOOLEAN /\ proc[t].pc # Last(t)
    <3>1. proc[t] \in ProcRecord
      BY <1>1, Zenon DEF StoreType
    <3> QED BY <1>2, <3>1, LastStage DEF ProcRecord, IsAt
  <2>6. Is(p, proc[t].pc, p.root, IF Kind[t] = "compile" /\ UsesGuards(t) THEN proc[t].guards - 1 ELSE proc[t].guards,
           proc[t].dep, proc[t].new, proc[t].old, proc[t].format)
        /\ (Kind[t] = "receive" \/ ~UsesGuards(t) => p.root = proc[t].root)
    <3>1. Is(DropGuard(t, proc[t]), proc[t].pc,
             IF UsesGuards(t) THEN mode # "sudo" /\ proc[t].root ELSE proc[t].root,
             IF UsesGuards(t) THEN proc[t].guards - 1 ELSE proc[t].guards,
             proc[t].dep, proc[t].new, proc[t].old, proc[t].format)
      BY <2>5, DropGuardFields, Zenon
    <3> QED BY <2>4, <2>5, <3>1, Zenon DEF Is
  <2>7. /\ proc' \in [Targets -> ProcRecord] /\ \A u \in Targets : u # t => proc'[u] = proc[u]
        /\ Is(proc'[t], p.pc + 1, p.root, p.guards, p.dep, p.new, p.old, p.format)
    <3>1. Step(t, p) /\ p \in ProcRecord /\ p.pc # Last(t)
      BY <1>8, <2>4, <2>5, <2>6, Zenon DEF Is
    <3> QED BY <1>1, <3>1, StepOn, Zenon
  <2>8. /\ proc'[t].pc = proc[t].pc + 1 /\ proc'[t].root = p.root
        /\ proc'[t].guards = IF Kind[t] = "compile" /\ UsesGuards(t) THEN proc[t].guards - 1 ELSE proc[t].guards
        /\ proc'[t].dep = proc[t].dep /\ proc'[t].new = id /\ proc'[t].old = None /\ proc'[t].format = proc[t].format
    BY <1>5, <2>1, <2>6, <2>7, Zenon DEF Is
  <2>9. Privileges(t)'
    <3>1. mode # "user" /\ proc[t].guards = IF UsesGuards(t) THEN 1 ELSE 0
      BY <1>1, <1>2 DEF Mine, Privileges, IsAt
    <3>2. \/ Kind[t] = "compile" /\ proc'[t].pc = 8 /\ proc'[t].guards = 0
          \/ Kind[t] = "receive" /\ proc'[t].pc = 6 /\ proc'[t].guards = (IF UsesGuards(t) THEN 1 ELSE 0)
      BY <1>2, <2>8, <3>1 DEF IsAt
    <3>3. Kind[t] = "receive" \/ mode = "userns" => proc'[t].root
      BY <1>4, <2>6, <2>8, Zenon DEF UsesGuards
    <3> QED BY <1>3, <3>1, <3>2, <3>3 DEF Privileges, UsesGuards
  <2>10. /\ HasNew(t)' /\ Filled(t) /\ InPlace(t) /\ ~Linked(t) /\ ~Linked(t)'
         /\ PastOld(t)' => PastOld(t)
         /\ proc'[t].pc \in 1 .. Last(t)
    BY <1>2, <2>8, LastStage DEF HasNew, Filled, InPlace, Linked, PastOld, IsAt
  <2>11. id \in DOMAIN subvols =>
           /\ subvols'[id].of = subvols[id].of
           /\ Filled(t)' => subvols'[id].data = "full"
           /\ InPlace(t)' => ~subvols'[id].tmp
           /\ Sealed(t)' => subvols'[id].ro
    BY <1>1, <1>5, <2>1, <2>2, <2>10, Zenon DEF GoodNew, StoreType, Exists
  <2>12. id \in tmpdirs' => Kind[t] = "send" \/ (id \in DOMAIN subvols /\ subvols'[id].tmp)
    BY <1>1, <2>1, <2>2, <2>3, Zenon DEF Mine, TmpIsHidden, Exists
  <2>13. proc'[t].dep = IF Opened(t)' /\ Dep[t] # None THEN output[Dep[t]] ELSE None
    BY <1>1, <1>2, <2>8 DEF Mine, DepIsBuilt, Opened, IsAt
  <2> QED BY <1>1, <1>3, <1>5, <2>1, <2>2, <2>3, <2>7, <2>8, <2>9, <2>10, <2>11, <2>12, <2>13, NewChangedIsGood, Zenon
<1> QED BY <1>4, <1>6, <1>7, <1>8, Zenon DEF Seal

-----------------------------------------------------------------------------
(***************************************************************************)
(* The previous subvolume                                                  *)
(***************************************************************************)

(* What is left of the previous subvolume when deleting it fails.             *)
LEMMA GuttedIsOld ==
  ASSUME StoreType, NEW id, NEW g \in Gutted(id)
  PROVE  /\ g \in [DOMAIN g -> SubvolRecord] /\ DOMAIN g \subseteq DOMAIN subvols
         /\ \A i \in DOMAIN subvols : i # id => i \in DOMAIN g /\ g[i] = subvols[i]
         /\ id \in DOMAIN g => g[id].of = subvols[id].of
<1>1. subvols \in [DOMAIN subvols -> SubvolRecord]
  BY Zenon DEF StoreType
<1>2. PICK rw : rw = [subvols EXCEPT ![id].ro = FALSE]
  BY Zenon
<1>3. Updated(rw, subvols, DOMAIN subvols, id, subvols[id].data, FALSE, subvols[id].tmp)
  <2>1. FALSE \in BOOLEAN
    BY Zenon
  <2> QED BY <1>1, <1>2, <2>1, SetRo, Zenon
<1>4. PICK e : e = [rw EXCEPT ![id].data = "gutted"]
  BY Zenon
<1>5. Updated(e, rw, DOMAIN subvols, id, "gutted", rw[id].ro, rw[id].tmp)
  <2>1. rw \in [DOMAIN subvols -> SubvolRecord] /\ "gutted" \in {"partial", "full", "gutted"}
    BY <1>3, Zenon DEF Updated
  <2> QED BY <1>4, <2>1, SetData, Zenon
<1>6. e = [subvols EXCEPT ![id].ro = FALSE, ![id].data = "gutted"]
  BY <1>2, <1>4, Zenon
<1>7. g = subvols \/ g = rw \/ g = e \/ g = Without({id})
  BY <1>2, <1>6, Zenon DEF Gutted
<1>8. CASE g = Without({id})
  BY <1>1, <1>8, Zenon DEF Without
<1>9. CASE g = rw
  BY <1>3, <1>9, Zenon DEF Updated
<1>10. CASE g = e
  BY <1>3, <1>5, <1>10, Zenon DEF Updated
<1> QED BY <1>1, <1>7, <1>8, <1>9, <1>10, Zenon

(* Subvolume::delete of the previous subvolume.                               *)
LEMMA DeleteOldIsGood ==
  ASSUME PublicationInv, NEW t \in Targets, DeleteOld(t)
  PROVE  Good(t)
<1>1. StoreType /\ Mine(t) /\ Running(t)
  BY Zenon DEF PublicationInv, DeleteOld, At, Running
<1>2. \/ Kind[t] = "compile" /\ proc[t].pc = 6
      \/ Kind[t] = "receive" /\ proc[t].pc = 7
      \/ Kind[t] = "send" /\ proc[t].pc = 7
      \/ Kind[t] = "materialize" /\ proc[t].pc = 3
  BY <1>1, StageNumbers, Zenon DEF DeleteOld, Mine, Placed, IsAt
<1>3. /\ mode' = mode /\ nextId' = nextId /\ collected' = collected /\ volume' = volume /\ output' = output
      /\ tmpdirs' = tmpdirs /\ status' = status
  BY Zenon DEF DeleteOld
<1>4. PICK id : id = proc[t].old
  BY Zenon
<1>5. /\ id # None => id \in 1 .. nextId - 1 /\ id # proc[t].new
      /\ Exists(id) => subvols[id].of = t
      /\ None \notin DOMAIN subvols \cup tmpdirs
  BY <1>1, <1>4, TargetsAssumption DEF Mine, OldIsOwn, StoreType, Exists
<1>6. proc[t] \in ProcRecord /\ proc[t].root \in BOOLEAN /\ proc[t].guards \in Int /\ proc[t].pc # Last(t)
  <2>1. proc[t] \in ProcRecord
    BY <1>1, Zenon DEF StoreType
  <2> QED BY <1>2, <2>1, LastStage DEF ProcRecord
<1>7. PICK p : p = IF Kind[t] = "send" THEN Escalate(t, proc[t]) ELSE proc[t]
  BY Zenon
<1>8. PICK done : done = CASE Kind[t] = "send" -> DropGuard(t, p)
                           [] Kind[t] = "receive" -> DropGuard(t, p)
                           [] OTHER -> p
  BY Zenon
<1>9. PICK entered : entered = IF Kind[t] = "materialize" THEN [done EXCEPT !.root = TRUE] ELSE done
  BY Zenon
<1>10. PICK q : q = [entered EXCEPT !.old = None]
  BY Zenon
<1>11. Step(t, q)
  BY <1>7, <1>8, <1>9, <1>10, Zenon DEF DeleteOld
<1>12. Is(p, proc[t].pc, p.root, IF Kind[t] = "send" /\ UsesGuards(t) THEN proc[t].guards + 1 ELSE proc[t].guards,
          proc[t].dep, proc[t].new, proc[t].old, proc[t].format)
       /\ (Kind[t] # "send" => p.root = proc[t].root)
  <2>1. Is(Escalate(t, proc[t]), proc[t].pc, UsesGuards(t) \/ proc[t].root,
           IF UsesGuards(t) THEN proc[t].guards + 1 ELSE proc[t].guards,
           proc[t].dep, proc[t].new, proc[t].old, proc[t].format)
    BY <1>6, EscalateFields, Zenon
  <2> QED BY <1>6, <1>7, <2>1, Zenon DEF Is
<1>13. Is(done, proc[t].pc, done.root,
          IF Kind[t] = "receive" /\ UsesGuards(t) THEN proc[t].guards - 1 ELSE proc[t].guards,
          proc[t].dep, proc[t].new, proc[t].old, proc[t].format)
       /\ (Kind[t] = "compile" \/ (Kind[t] = "receive" /\ ~UsesGuards(t)) => done.root = proc[t].root)
  <2>1. Is(DropGuard(t, p), p.pc, IF UsesGuards(t) THEN mode # "sudo" /\ p.root ELSE p.root,
           IF UsesGuards(t) THEN p.guards - 1 ELSE p.guards, p.dep, p.new, p.old, p.format)
    BY <1>12, DropGuardFields, Zenon DEF Is
  <2>2. CASE Kind[t] = "send"
    <3>1. done = DropGuard(t, p)
      BY <1>8, <2>2, Zenon
    <3>2. p.guards - 1 = IF UsesGuards(t) THEN proc[t].guards ELSE proc[t].guards - 1
      BY <1>6, <1>12, <2>2 DEF Is
    <3> QED BY <1>6, <1>12, <2>1, <2>2, <3>1, <3>2, Zenon DEF Is
  <2>3. CASE Kind[t] = "receive"
    <3>1. done = DropGuard(t, p)
      BY <1>8, <2>3, Zenon
    <3> QED BY <1>6, <1>12, <2>1, <2>3, <3>1, Zenon DEF Is
  <2>4. CASE Kind[t] \in {"compile", "materialize"}
    <3>1. done = p
      BY <1>8, <2>4, Zenon
    <3> QED BY <1>12, <2>4, <3>1, Zenon DEF Is
  <2> QED BY <1>2, <2>2, <2>3, <2>4, Zenon
<1>14. Is(entered, proc[t].pc, entered.root,
          IF Kind[t] = "receive" /\ UsesGuards(t) THEN proc[t].guards - 1 ELSE proc[t].guards,
          proc[t].dep, proc[t].new, proc[t].old, proc[t].format)
       /\ (Kind[t] = "compile" \/ (Kind[t] = "receive" /\ ~UsesGuards(t)) => entered.root = proc[t].root)
  <2>1. Is([done EXCEPT !.root = TRUE], done.pc, TRUE, done.guards, done.dep, done.new, done.old, done.format)
    <3>1. done \in ProcRecord /\ TRUE \in BOOLEAN
      BY <1>13, Zenon DEF Is
    <3> QED BY <3>1, WithRoot, Zenon
  <2>2. CASE Kind[t] = "materialize"
    <3>1. entered = [done EXCEPT !.root = TRUE]
      BY <1>9, <2>2, Zenon
    <3>2. Is(entered, done.pc, TRUE, done.guards, done.dep, done.new, done.old, done.format)
      BY <2>1, <3>1, Zenon
    <3> QED BY <1>13, <2>2, <3>2, Zenon DEF Is
  <2>3. CASE Kind[t] # "materialize"
    <3>1. entered = done
      BY <1>9, <2>3, Zenon
    <3> QED BY <1>13, <3>1, Zenon DEF Is
  <2> QED BY <2>2, <2>3, Zenon
<1>15. Is(q, entered.pc, entered.root, entered.guards, entered.dep, entered.new, None, entered.format)
  <2>1. entered \in ProcRecord /\ None \in Ids
    BY <1>14, Zenon DEF Is, Ids
  <2> QED BY <1>10, <2>1, WithOld, Zenon
<1>16. /\ proc' \in [Targets -> ProcRecord] /\ \A u \in Targets : u # t => proc'[u] = proc[u]
       /\ Is(proc'[t], q.pc + 1, q.root, q.guards, q.dep, q.new, q.old, q.format)
  <2>1. q \in ProcRecord /\ q.pc # Last(t)
    BY <1>6, <1>14, <1>15, Zenon DEF Is
  <2> QED BY <1>1, <1>11, <2>1, StepOn, Zenon
<1>17. /\ proc'[t].pc = proc[t].pc + 1 /\ proc'[t].dep = proc[t].dep /\ proc'[t].new = proc[t].new
       /\ proc'[t].old = None /\ proc'[t].format = proc[t].format
       /\ proc'[t].guards = IF Kind[t] = "receive" /\ UsesGuards(t) THEN proc[t].guards - 1 ELSE proc[t].guards
       /\ (Kind[t] = "compile" \/ (Kind[t] = "receive" /\ ~UsesGuards(t)) => proc'[t].root = proc[t].root)
  BY <1>14, <1>15, <1>16, Zenon DEF Is
<1>18. /\ subvols' \in [DOMAIN subvols' -> SubvolRecord] /\ DOMAIN subvols' \subseteq DOMAIN subvols
       /\ \A i \in DOMAIN subvols : i # id => i \in DOMAIN subvols' /\ subvols'[i] = subvols[i]
       /\ id \in DOMAIN subvols' => subvols'[id].of = subvols[id].of
       /\ \/ faults' = faults /\ id \notin DOMAIN subvols'
          \/ faults' = faults + 1
  <2>1. \/ id = None /\ subvols' = subvols /\ faults' = faults
        \/ subvols' = Without({id}) /\ faults' = faults
        \/ faults' = faults + 1 /\ (subvols' = subvols \/ subvols' \in Gutted(id))
    BY <1>4, Zenon DEF DeleteOld
  <2>2. subvols \in Gutted(id) /\ Without({id}) \in Gutted(id)
    BY Zenon DEF Gutted
  <2>3. subvols' \in Gutted(id)
    BY <2>1, <2>2, Zenon
  <2>4. id \notin DOMAIN Without({id})
    BY Zenon DEF Without
  <2>5. \/ faults' = faults /\ id \notin DOMAIN subvols'
        \/ faults' = faults + 1
    BY <1>5, <2>1, <2>4, Zenon
  <2> QED BY <1>1, <2>3, <2>5, GuttedIsOld, Zenon
<1>19. StoreType'
  BY <1>1, <1>3, <1>16, <1>18 DEF StoreType
<1>20. Touches(t)
  BY <1>1, <1>3, <1>5, <1>18, OwnTouched, Zenon DEF Exists
<1>21. OnlyOwn(t)
  BY <1>3, <1>16, Zenon DEF OnlyOwn
<1>22. Privileges(t)'
  <2>1. /\ proc[t].guards = IF UsesGuards(t) /\ Kind[t] \in {"compile", "receive"} THEN 1 ELSE 0
        /\ Kind[t] \in {"compile", "receive"} => proc[t].root /\ mode # "user"
        /\ Kind[t] = "send" => mode # "userns"
    BY <1>1, <1>2 DEF Mine, Privileges
  <2>2. proc'[t].guards = IF UsesGuards(t) /\ Kind[t] = "compile" THEN 1 ELSE 0
    BY <1>2, <1>17, <2>1
  <2>3. /\ Kind[t] = "compile" => proc'[t].root
        /\ Kind[t] = "receive" /\ mode = "userns" => proc'[t].root
    <3>1. mode = "userns" => ~UsesGuards(t)
      BY Zenon DEF UsesGuards
    <3> QED BY <1>17, <2>1, <3>1, Zenon
  <2> QED BY <1>2, <1>3, <1>17, <2>1, <2>2, <2>3 DEF Privileges, UsesGuards
<1>23. NewIsGood(t)'
  <2>1. CASE Kind[t] = "materialize"
    BY <1>1, <1>2, <1>17, <2>1 DEF Mine, NewIsGood, HasNew
  <2>2. CASE Kind[t] # "materialize"
    <3>1. HasNew(t) /\ GoodNew(t) /\ HasNew(t)'
      BY <1>1, <1>2, <1>17, <2>2 DEF Mine, NewIsGood, HasNew
    <3>2. Filled(t) /\ InPlace(t) /\ (Sealed(t)' => Sealed(t)) /\ ~Linked(t) /\ ~Linked(t)'
      BY <1>2, <1>17, <2>2 DEF Filled, InPlace, Sealed, Linked
    <3>3. proc[t].new # id
      BY <1>5, <3>1, TargetsAssumption DEF GoodNew
    <3>4. GoodNew(t)'
      BY <1>3, <1>17, <1>18, <3>1, <3>2, <3>3, Zenon DEF GoodNew, Exists
    <3> QED BY <3>1, <3>4, Zenon DEF NewIsGood
  <2> QED BY <2>1, <2>2, Zenon
<1>24. OldIsOwn(t)'
  BY <1>17, Zenon DEF OldIsOwn
<1>25. TmpIsHidden(t)'
  <2>1. proc[t].new \in tmpdirs => proc[t].new # id
    BY <1>5, Zenon
  <2> QED BY <1>1, <1>3, <1>17, <1>18, <2>1, Zenon DEF Mine, TmpIsHidden, Exists
<1>26. proc'[t].dep = IF Opened(t)' /\ Dep[t] # None THEN output[Dep[t]] ELSE None
  BY <1>1, <1>2, <1>17 DEF Mine, DepIsBuilt, Opened
<1>27. Charges
  <2>1. \A i : Accounted(t, i) => Accounted(t, i)' \/ (i = output[t] /\ i = id)
    BY <1>2, <1>3, <1>4, <1>17 DEF Accounted, PastOld
  <2>2. nextId \notin DOMAIN subvols \cup tmpdirs
    BY <1>1 DEF StoreType
  <2>3. output[t] \notin tmpdirs
    BY <1>1, Zenon DEF Mine, TmpIsHidden
  <2>4. CASE faults' = faults /\ id \notin DOMAIN subvols'
    BY <1>3, <1>18, <1>20, <1>21, <2>1, <2>2, <2>3, <2>4, NoCharge, Zenon
  <2>5. CASE faults' = faults + 1
    <3>1. \A i \in (DOMAIN subvols' \cup tmpdirs') \ {id} :
             IF i = nextId THEN Accounted(t, i)' ELSE Accounted(t, i) => Accounted(t, i)'
      BY <1>3, <1>18, <2>1, <2>2, Zenon
    <3>2. Charged' \subseteq Charged \cup {id}
      BY <1>1, <1>20, <1>21, <3>1, StepCharges, Zenon
    <3> QED BY <2>5, <3>2, Zenon DEF Charges
  <2> QED BY <1>18, <2>4, <2>5, Zenon
<1>28. proc'[t].pc \in 1 .. Last(t) /\ proc'[t].format = proc[t].format
  BY <1>2, <1>17, LastStage
<1> QED BY <1>1, <1>3, <1>19, <1>20, <1>21, <1>22, <1>23, <1>24, <1>25, <1>26, <1>27, <1>28, ContinueIsGood, Zenon
=============================================================================
