------------------------ MODULE UpgradePipelineProofs ------------------------
(***************************************************************************)
(* Coordinator::run forgets no failure, whatever the workers do that do    *)
(* not touch its state; and the workers of the pipeline leave it alone and *)
(* never move again once they have ended, for every stream, any number of  *)
(* workers and of crashes.                                                 *)
(***************************************************************************)
EXTENDS UpgradePipeline, SequenceTheorems, TLAPS

(***************************************************************************)
(* What the vector of active workers holds.                                *)
(***************************************************************************)

\* Vec::remove takes one element out and keeps the others.
LEMMA RemoveKeepsOthers ==
  ASSUME NEW S, NEW s \in Seq(S), NEW i \in 1 .. Len(s)
  PROVE  /\ RemoveAt(s, i) \in Seq(S)
         /\ \A k \in 1 .. Len(s) :
              k # i => \E j \in DOMAIN RemoveAt(s, i) : RemoveAt(s, i)[j] = s[k]
<1> DEFINE a == SubSeq(s, 1, i - 1)
           b == SubSeq(s, i + 1, Len(s))
<1>1. RemoveAt(s, i) = a \o b
  BY DEF RemoveAt
<1>2. a \in Seq(S) /\ Len(a) = i - 1 /\ \A j \in 1 .. i - 1 : a[j] = s[j]
  OBVIOUS
<1>3. b \in Seq(S) /\ Len(b) = Len(s) - i /\ \A j \in 1 .. Len(s) - i : b[j] = s[i + j]
  OBVIOUS
<1>4. Len(s) \in Nat /\ i \in Nat /\ 1 <= i /\ i <= Len(s)
  OBVIOUS
<1> HIDE DEF a, b
<1>5. /\ a \o b \in Seq(S) /\ Len(a \o b) = Len(s) - 1
      /\ DOMAIN (a \o b) = 1 .. Len(s) - 1
      /\ \A j \in 1 .. Len(s) - 1 :
           (a \o b)[j] = IF j <= i - 1 THEN a[j] ELSE b[j - (i - 1)]
  <2>1. /\ a \o b \in Seq(S)
        /\ Len(a \o b) = Len(a) + Len(b)
        /\ \A j \in 1 .. Len(a) + Len(b) :
             (a \o b)[j] = IF j <= Len(a) THEN a[j] ELSE b[j - Len(a)]
    BY <1>2, <1>3, ConcatProperties
  <2>2. Len(a) + Len(b) = Len(s) - 1
    BY <1>2, <1>3, <1>4
  <2>3. DOMAIN (a \o b) = 1 .. Len(a \o b)
    BY <2>1
  <2> QED BY <2>1, <2>2, <2>3, <1>2
<1>6. ASSUME NEW k \in 1 .. Len(s), k # i
      PROVE  \E j \in DOMAIN (a \o b) : (a \o b)[j] = s[k]
  <2>1. CASE k < i
    <3>1. k \in 1 .. i - 1 /\ k \in 1 .. Len(s) - 1 /\ k <= i - 1
      BY <1>4, <2>1
    <3>2. (a \o b)[k] = s[k]
      BY <1>2, <1>5, <3>1
    <3> QED BY <1>5, <3>1, <3>2
  <2>2. CASE k > i
    <3>1. /\ k - 1 \in 1 .. Len(s) - 1 /\ ~(k - 1 <= i - 1)
          /\ (k - 1) - (i - 1) \in 1 .. Len(s) - i
          /\ i + ((k - 1) - (i - 1)) = k
      BY <1>4, <2>2
    <3>2. (a \o b)[k - 1] = b[(k - 1) - (i - 1)]
      BY <1>5, <3>1
    <3>3. b[(k - 1) - (i - 1)] = s[k]
      BY <1>3, <3>1
    <3> QED BY <1>5, <3>1, <3>2, <3>3
  <2> QED BY <1>4, <1>6, <2>1, <2>2
<1> QED BY <1>1, <1>5, <1>6

\* What is an element of one of two vectors is one of both together (Vec::push
\* in the order in which run starts the workers).
Lists(s, x) == \E k \in DOMAIN s : s[k] = x

LEMMA ConcatLists ==
  ASSUME NEW S, NEW s \in Seq(S), NEW t \in Seq(S), NEW x, Lists(s, x) \/ Lists(t, x)
  PROVE  Lists(s \o t, x)
<1>1. /\ s \o t \in Seq(S) /\ Len(s \o t) = Len(s) + Len(t)
      /\ \A j \in 1 .. Len(s) + Len(t) :
           (s \o t)[j] = IF j <= Len(s) THEN s[j] ELSE t[j - Len(s)]
  BY ConcatProperties
<1>2. DOMAIN (s \o t) = 1 .. Len(s) + Len(t) /\ Len(s) \in Nat /\ Len(t) \in Nat
  BY <1>1
<1>3. CASE Lists(s, x)
  <2>1. PICK k \in 1 .. Len(s) : s[k] = x
    BY <1>3 DEF Lists
  <2>2. k \in 1 .. Len(s) + Len(t) /\ k <= Len(s)
    BY <1>2
  <2>3. (s \o t)[k] = x
    BY <1>1, <2>1, <2>2
  <2> QED BY <1>2, <2>2, <2>3 DEF Lists
<1>4. CASE Lists(t, x)
  <2>1. PICK k \in 1 .. Len(t) : t[k] = x
    BY <1>4 DEF Lists
  <2>2. /\ Len(s) + k \in 1 .. Len(s) + Len(t) /\ ~(Len(s) + k <= Len(s))
        /\ (Len(s) + k) - Len(s) = k
    BY <1>2
  <2>3. (s \o t)[Len(s) + k] = x
    BY <1>1, <2>1, <2>2
  <2> QED BY <1>2, <2>2, <2>3 DEF Lists
<1> QED BY <1>3, <1>4

-----------------------------------------------------------------------------
(***************************************************************************)
(* The coordinator.                                                        *)
(***************************************************************************)
Over == {"finished", "failed"}
Steps == {"get", "put", "header", "enqueue", "dequeue", "read", "dispatch", "settle",
          "compress", "persist"} \union Over

\* A worker that is not watched any more has ended, and if it failed the
\* coordinator knows that something did.
Accounted(w) ==
  \/ \E k \in DOMAIN coordinator.active : coordinator.active[k] = w
  \/ pc[w] = "finished"
  \/ pc[w] = "failed" /\ coordinator.crashed

\* Only real failures are recorded.
CrashesAreReal == coordinator.crashed => \E w \in Workers : pc[w] = "failed"

\* What run returns is what it recorded, with no worker left to watch.
ReturnsRecord ==
  coordinator.pc = "returned" =>
    /\ coordinator.active = <<>>
    /\ coordinator.result = IF coordinator.crashed THEN "error" ELSE "ok"

Stages == {"poll", "halt", "teardown", "returned"}
Results == {"running", "ok", "error"}
Watching == [pc : Stages, i : Nat, active : Seq(Workers),
             all_done : BOOLEAN, crashed : BOOLEAN, result : Results]
CoordinatorOK ==
  /\ pc \in [Workers -> Steps]
  /\ coordinator \in Watching
  /\ coordinator.i >= 1

CInv ==
  /\ CoordinatorOK
  /\ \A w \in Workers : Accounted(w)
  /\ CrashesAreReal
  /\ ReturnsRecord

\* A step of one worker: the coordinator is left alone, and the only worker
\* that moves is one that has not ended.
MovesOnly(w) ==
  /\ coordinator' = coordinator /\ upgrade' = upgrade
  /\ pc' \in [Workers -> Steps]
  /\ \A v \in Workers : pc'[v] = pc[v] \/ (v = w /\ pc[v] \notin Over)

\* The coordinator's part of the invariant is kept when a worker moves: only
\* workers that have not ended do, and those are watched.
LEMMA WorkerKeepsInv ==
  ASSUME CInv, NEW w \in Workers, MovesOnly(w)
  PROVE  CInv'
<1>1. Workers' = Workers
  BY DEF MovesOnly, Workers, Constructors, Compressors
<1>2. CoordinatorOK'
  BY <1>1 DEF CInv, CoordinatorOK, Watching, MovesOnly
<1>3. ASSUME NEW v \in Workers PROVE Accounted(v)'
  BY <1>3 DEF CInv, Accounted, MovesOnly, Over
<1>4. CrashesAreReal'
  BY <1>1 DEF CInv, CrashesAreReal, MovesOnly, Over
<1>5. ReturnsRecord'
  BY DEF CInv, ReturnsRecord, MovesOnly
<1> QED BY <1>1, <1>2, <1>3, <1>4, <1>5 DEF CInv

\* What poll and teardown do with the worker at the index: nothing but counting
\* on while it works; take it off the list, with its failure recorded, if it has ended.
LEMMA WatchingKeepsInv ==
  ASSUME CInv, UNCHANGED <<pc, upgrade>>,
         coordinator.pc # "returned",
         coordinator.i \in DOMAIN coordinator.active,
         NEW done \in BOOLEAN,
         coordinator' =
           IF ~Ended(coordinator.i) THEN [coordinator EXCEPT !.i = coordinator.i + 1]
           ELSE [coordinator EXCEPT
                   !.i = coordinator.i + 1, !.active = RemoveWorker(coordinator.i),
                   !.crashed = @ \/ pc[coordinator.active[coordinator.i]] = "failed",
                   !.all_done = done]
  PROVE  CInv'
<1> DEFINE i == coordinator.i
           active == coordinator.active
           left == RemoveAt(active, i)
<1>1. Workers' = Workers
  BY DEF Workers, Constructors, Compressors
<1>2. /\ active \in Seq(Workers) /\ i \in 1 .. Len(active) /\ i \in Nat
      /\ active[i] \in Workers
  BY DEF CInv, CoordinatorOK, Watching
<1>3. left \in Seq(Workers)
  BY <1>2, RemoveKeepsOthers
<1>4. CASE ~Ended(i)
  BY <1>1, <1>2, <1>4
     DEF CInv, CoordinatorOK, Watching, Accounted, CrashesAreReal, ReturnsRecord
<1>5. CASE Ended(i)
  <2>1. /\ coordinator'.pc = coordinator.pc /\ coordinator'.i = i + 1
        /\ coordinator'.active = left /\ coordinator'.result = coordinator.result
        /\ coordinator'.crashed = (coordinator.crashed \/ pc[active[i]] = "failed")
    BY <1>5 DEF CInv, CoordinatorOK, Watching, RemoveWorker
  <2>2. CoordinatorOK'
    <3> DEFINE c == coordinator.crashed \/ pc[active[i]] = "failed"
    <3>1. c \in BOOLEAN
      BY Zenon
    <3>2. coordinator' = [coordinator EXCEPT !.i = i + 1, !.active = left,
                                             !.crashed = c, !.all_done = done]
      BY <1>5 DEF RemoveWorker, CInv, CoordinatorOK, Watching
    <3> HIDE DEF c
    <3>3. i + 1 \in Nat /\ i + 1 >= 1
      BY <1>2
    <3>4. coordinator' \in Watching
      BY <1>3, <3>1, <3>2, <3>3, Zenon DEF CInv, CoordinatorOK, Watching
    <3> QED BY <1>1, <2>1, <3>3, <3>4 DEF CInv, CoordinatorOK, Watching
  <2>3. ASSUME NEW v \in Workers PROVE Accounted(v)'
    <3>1. CASE v = active[i]
      BY <1>5, <2>1, <3>1, Zenon DEF Accounted, Ended
    <3>2. CASE v # active[i] /\ \E k \in DOMAIN active : active[k] = v
      <4>1. PICK k \in 1 .. Len(active) : active[k] = v
        BY <1>2, <3>2
      <4>2. k # i
        BY <3>2, <4>1
      <4>3. \E j \in DOMAIN left : left[j] = active[k]
        BY <1>2, <4>2, RemoveKeepsOthers, Zenon
      <4> QED BY <2>1, <4>1, <4>3 DEF Accounted
    <3>3. CASE ~ \E k \in DOMAIN active : active[k] = v
      BY <2>1, <3>3, Zenon DEF CInv, Accounted
    <3> QED BY <3>1, <3>2, <3>3
  <2>4. CrashesAreReal'
    BY <1>1, <1>2, <2>1, Zenon DEF CInv, CrashesAreReal
  <2>5. ReturnsRecord'
    BY <2>1 DEF ReturnsRecord
  <2> QED BY <1>1, <2>2, <2>3, <2>4, <2>5 DEF CInv
<1> QED BY <1>4, <1>5

\* The vector run fills holds every worker.
LEMMA AllAreListed ==
  ASSUME upgrade.num_command_constructors \in Nat, upgrade.num_compressors \in Nat
  PROVE  WorkerList \in Seq(Workers) /\ \A w \in Workers : Lists(WorkerList, w)
<1> DEFINE m == upgrade.num_command_constructors
           n == upgrade.num_compressors
           first == <<Prefetcher, Reader, Batcher>>
           constructors == [i \in 1 .. m |-> <<"construct", i>>]
           compressors == [i \in 1 .. n |-> <<"compress", i>>]
           last == <<Writer>>
<1>1. m \in Nat /\ n \in Nat
  OBVIOUS
<1>2. first \in Seq(Workers) /\ last \in Seq(Workers)
  BY DEF Workers
<1>3. constructors \in Seq(Workers) /\ DOMAIN constructors = 1 .. m
  BY <1>1 DEF Workers, Constructors
<1>4. compressors \in Seq(Workers) /\ DOMAIN compressors = 1 .. n
  BY <1>1 DEF Workers, Compressors
<1>5. /\ Lists(first, Prefetcher) /\ Lists(first, Reader) /\ Lists(first, Batcher)
      /\ Lists(last, Writer)
  BY DEF Lists
<1>6. \A w \in Constructors : Lists(constructors, w)
  BY <1>1 DEF Lists, Constructors
<1>7. \A w \in Compressors : Lists(compressors, w)
  BY <1>1 DEF Lists, Compressors
<1>8. WorkerList = first \o constructors \o compressors \o last
  BY DEF WorkerList
<1> HIDE DEF first, constructors, compressors, last
<1>9. /\ first \o constructors \in Seq(Workers)
      /\ first \o constructors \o compressors \in Seq(Workers)
      /\ first \o constructors \o compressors \o last \in Seq(Workers)
  BY <1>2, <1>3, <1>4, ConcatProperties
<1>10. ASSUME NEW w \in Workers PROVE Lists(WorkerList, w)
  <2>1. \/ Lists(first, w) \/ Lists(constructors, w) \/ Lists(compressors, w) \/ Lists(last, w)
    BY <1>5, <1>6, <1>7 DEF Workers
  <2>2. Lists(first, w) \/ Lists(constructors, w) => Lists(first \o constructors, w)
    BY <1>2, <1>3, ConcatLists
  <2>3. Lists(first \o constructors, w) \/ Lists(compressors, w)
          => Lists(first \o constructors \o compressors, w)
    BY <1>4, <1>9, ConcatLists, Zenon
  <2>4. Lists(first \o constructors \o compressors, w) \/ Lists(last, w)
          => Lists(first \o constructors \o compressors \o last, w)
    BY <1>2, <1>9, ConcatLists, Zenon
  <2> QED BY <1>8, <2>1, <2>2, <2>3, <2>4
<1> QED BY <1>8, <1>9, <1>10

\* The invariant holds when run has started its workers.
LEMMA RunStartsWithInv ==
  ASSUME upgrade.num_command_constructors \in Nat, upgrade.num_compressors \in Nat,
         RunInit, pc \in [Workers -> Steps]
  PROVE  CInv
<1>1. WorkerList \in Seq(Workers) /\ \A w \in Workers : Lists(WorkerList, w)
  BY AllAreListed
<1>2. CoordinatorOK
  <2>1. coordinator \in Watching
    BY <1>1 DEF RunInit, Watching, Stages, Results
  <2>2. coordinator.i >= 1
    BY DEF RunInit
  <2> QED BY <2>1, <2>2 DEF CoordinatorOK
<1>3. \A w \in Workers : Accounted(w)
  BY <1>1 DEF RunInit, Accounted, Lists
<1>4. CrashesAreReal /\ ReturnsRecord
  BY DEF RunInit, CrashesAreReal, ReturnsRecord
<1> QED BY <1>2, <1>3, <1>4 DEF CInv

\* Each step of run keeps the invariant.
LEMMA RunKeepsInv ==
  ASSUME CInv, Run, UNCHANGED upgrade
  PROVE  CInv'
<1>1. CASE PollWorker
  <2> DEFINE done == \/ coordinator.all_done \/ pc[coordinator.active[coordinator.i]] = "failed"
                     \/ coordinator.i = Len(coordinator.active)
  <2>1. done \in BOOLEAN
    BY Zenon
  <2>2. coordinator.i \in DOMAIN coordinator.active
    BY <1>1 DEF PollWorker, PassOver, CInv, CoordinatorOK, Watching
  <2>3. coordinator' =
          IF ~Ended(coordinator.i) THEN [coordinator EXCEPT !.i = coordinator.i + 1]
          ELSE [coordinator EXCEPT
                  !.i = coordinator.i + 1, !.active = RemoveWorker(coordinator.i),
                  !.crashed = @ \/ pc[coordinator.active[coordinator.i]] = "failed",
                  !.all_done = done]
    BY <1>1, Zenon DEF PollWorker
  <2>4. UNCHANGED <<pc, upgrade>> /\ coordinator.pc # "returned"
    BY <1>1 DEF PollWorker, Watches
  <2> HIDE DEF done
  <2> QED BY <2>1, <2>2, <2>3, <2>4, WatchingKeepsInv, Zenon
<1>2. CASE TearDownWorker
  <2> DEFINE done == coordinator.all_done
  <2>1. done \in BOOLEAN
    BY DEF CInv, CoordinatorOK, Watching
  <2>2. coordinator.i \in DOMAIN coordinator.active
    BY <1>2 DEF TearDownWorker, PassOver, CInv, CoordinatorOK, Watching
  <2>3. coordinator' =
          IF ~Ended(coordinator.i) THEN [coordinator EXCEPT !.i = coordinator.i + 1]
          ELSE [coordinator EXCEPT
                  !.i = coordinator.i + 1, !.active = RemoveWorker(coordinator.i),
                  !.crashed = @ \/ pc[coordinator.active[coordinator.i]] = "failed",
                  !.all_done = done]
    BY <1>2, Zenon DEF TearDownWorker, CInv, CoordinatorOK, Watching
  <2>4. UNCHANGED <<pc, upgrade>> /\ coordinator.pc # "returned"
    BY <1>2 DEF TearDownWorker, Watches
  <2> HIDE DEF done
  <2> QED BY <2>1, <2>2, <2>3, <2>4, WatchingKeepsInv, Zenon
<1>3. CASE (EndPass \/ HaltPrimitive)
  <2>1. /\ coordinator'.active = coordinator.active
        /\ coordinator'.crashed = coordinator.crashed
        /\ coordinator'.pc # "returned"
        /\ pc' = pc /\ upgrade' = upgrade
    BY <1>3, Zenon DEF EndPass, HaltPrimitive, Watches, CInv, CoordinatorOK, Watching
  <2>2. Workers' = Workers
    BY <2>1 DEF Workers, Constructors, Compressors
  <2>3. /\ coordinator' \in Watching
        /\ coordinator'.i >= 1
    <3>1. CASE EndPass
      <4> DEFINE step == IF coordinator.all_done THEN "halt" ELSE "poll"
      <4>1. step \in Stages
        BY DEF Stages
      <4>2. coordinator' = [coordinator EXCEPT !.i = 1, !.pc = step]
        BY <3>1 DEF EndPass
      <4> HIDE DEF step
      <4>3. coordinator \in Watching
        BY DEF CInv, CoordinatorOK
      <4>4. coordinator' \in Watching
        BY <4>1, <4>2, <4>3, Zenon DEF Watching
      <4>5. coordinator'.i = 1
        BY <4>2, <4>3 DEF Watching
      <4> QED BY <4>4, <4>5
    <3>2. CASE HaltPrimitive
      <4>1. \/ coordinator' = [coordinator EXCEPT !.pc = "teardown", !.i = 1]
            \/ coordinator' = [coordinator EXCEPT !.i = @ + 1]
        BY <3>2 DEF HaltPrimitive
      <4>2. CASE coordinator' = [coordinator EXCEPT !.pc = "teardown", !.i = 1]
        <5>1. coordinator \in Watching /\ "teardown" \in Stages
          BY DEF CInv, CoordinatorOK, Stages
        <5>2. coordinator' \in Watching
          BY <4>2, <5>1, Zenon DEF Watching
        <5>3. coordinator'.i = 1
          BY <4>2, <5>1 DEF Watching
        <5> QED BY <5>2, <5>3
      <4>3. CASE coordinator' = [coordinator EXCEPT !.i = @ + 1]
        BY <4>3 DEF CInv, CoordinatorOK, Watching
      <4> QED BY <4>1, <4>2, <4>3
    <3> QED BY <1>3, <3>1, <3>2
  <2>4. CoordinatorOK'
    BY <2>1, <2>2, <2>3 DEF CInv, CoordinatorOK, Watching
  <2> QED BY <2>1, <2>2, <2>4 DEF CInv, Accounted, CrashesAreReal, ReturnsRecord
<1>4. CASE EndTearDownPass
  <2>1. /\ coordinator'.active = coordinator.active
        /\ coordinator'.crashed = coordinator.crashed
        /\ pc' = pc /\ upgrade' = upgrade
    BY <1>4 DEF EndTearDownPass, Watches, CInv, CoordinatorOK, Watching
  <2>2. Workers' = Workers
    BY <2>1 DEF Workers, Constructors, Compressors
  <2>3. CoordinatorOK'
    <3>1. /\ coordinator' \in Watching
          /\ coordinator'.i >= 1
      <4>1. CASE coordinator.active # <<>>
        BY <1>4, <4>1 DEF EndTearDownPass, CInv, CoordinatorOK, Watching
      <4>2. CASE coordinator.active = <<>>
        <5> DEFINE result == IF coordinator.crashed THEN "error" ELSE "ok"
        <5>1. result \in Results
          BY DEF Results
        <5>2. coordinator' = [coordinator EXCEPT !.pc = "returned", !.result = result]
          BY <1>4, <4>2 DEF EndTearDownPass
        <5> HIDE DEF result
        <5>3. coordinator \in Watching /\ coordinator.i >= 1 /\ "returned" \in Stages
          BY DEF CInv, CoordinatorOK, Stages
        <5>4. coordinator' \in Watching
          BY <5>1, <5>2, <5>3, Zenon DEF Watching
        <5>5. coordinator'.i = coordinator.i
          BY <5>2, <5>3 DEF Watching
        <5> QED BY <5>3, <5>4, <5>5
      <4> QED BY <4>1, <4>2
    <3> QED BY <2>1, <2>2, <3>1 DEF CInv, CoordinatorOK, Watching
  <2>4. ReturnsRecord'
    BY <1>4, <2>1 DEF EndTearDownPass, Watches, ReturnsRecord, CInv, CoordinatorOK, Watching
  <2> QED BY <2>1, <2>2, <2>3, <2>4 DEF CInv, Accounted, CrashesAreReal
<1> QED BY <1>1, <1>2, <1>3, <1>4 DEF Run

\* What the invariant is for.
LEMMA NothingForgotten == CInv => NoFailureForgotten
  BY DEF CInv, CoordinatorOK, Watching, Accounted, CrashesAreReal, ReturnsRecord, NoFailureForgotten

(***************************************************************************)
(* The workers of the pipeline.                                            *)
(***************************************************************************)

\* Every step of a worker, also one that fails or is a crash, is of that kind.
LEMMA WorkerMovesItself ==
  ASSUME NEW w \in Workers, pc \in [Workers -> Steps],
         Step(w) \/ Crash(w), UNCHANGED given
  PROVE  MovesOnly(w)
<1> USE DEF MovesOnly, Over, Steps, Goes, Ends, Halted, Breaks, given
<1>1. CASE Crash(w)
  BY <1>1 DEF Crash
<1>2. CASE w = Prefetcher /\ (GetBuffer \/ PutBuffer)
  BY <1>2 DEF GetBuffer, PutBuffer
<1>3. CASE w = Reader /\ (ReadHeader \/ EnqueueCommandInfo)
  BY <1>3 DEF ReadHeader, EnqueueCommandInfo
<1>4. CASE DequeueCommandInfo(w) \/ ReadPayload(w) \/ EnqueueCommand(w)
  BY <1>4 DEF DequeueCommandInfo, ReadPayload, EnqueueCommand
<1>5. CASE w = Batcher /\ DequeueCommand
  BY <1>5 DEF DequeueCommand
<1>6. CASE w = Batcher /\ DispatchBatch
  BY <1>6 DEF DispatchBatch
<1>7. CASE w = Batcher /\ SettleCommand
  BY <1>7 DEF SettleCommand, Persist, AfterSettling
<1>8. CASE DequeueBatch(w) \/ CompressBatch(w)
  BY <1>8 DEF DequeueBatch, CompressBatch, Persist
<1>9. CASE w = Writer /\ (DequeueReady \/ PersistCommand)
  BY <1>9 DEF DequeueReady, PersistCommand, AfterSettling
<1> HIDE DEF MovesOnly, Over, Steps, Goes, Ends, Halted, Breaks, given
<1> QED BY <1>1, <1>2, <1>3, <1>4, <1>5, <1>6, <1>7, <1>8, <1>9, Zenon DEF Step

\* The workers start at a step of theirs.
LEMMA CInvInit == Init => CInv
<1> SUFFICES ASSUME Init PROVE CInv
  OBVIOUS
<1>1. upgrade.num_command_constructors \in Nat /\ upgrade.num_compressors \in Nat
  BY ConstantsAssumption DEF Init
<1>2. pc \in [Workers -> Steps]
  BY DEF Init, Steps
<1>3. RunInit
  BY DEF Init
<1> QED BY <1>1, <1>2, <1>3, RunStartsWithInv

\* Each step of the coordinator and of the workers keeps the invariant.
LEMMA CInvNext == CInv /\ [Next]_vars => CInv'
<1> SUFFICES ASSUME CInv, [Next]_vars PROVE CInv'
  OBVIOUS
<1>1. CASE UNCHANGED vars
  BY <1>1 DEF vars, given, CInv, CoordinatorOK, Watching, Accounted, CrashesAreReal, ReturnsRecord,
              Workers, Constructors, Compressors
<1>2. ASSUME NEW w \in Workers, Step(w) \/ Crash(w), UNCHANGED given PROVE CInv'
  <2>1. MovesOnly(w)
    BY <1>2, WorkerMovesItself DEF CInv, CoordinatorOK, Watching
  <2> QED BY <2>1, WorkerKeepsInv
<1>3. CASE Coordinate /\ UNCHANGED given
  <2>1. Run /\ UNCHANGED upgrade
    BY <1>3 DEF Coordinate, given
  <2> QED BY <2>1, RunKeepsInv
<1> QED BY <1>1, <1>2, <1>3 DEF Next

\* Coordinator::run returns only when every worker thread has ended, and returns
\* Ok exactly if none failed: for every stream and any number of workers and
\* crashes, removing while counting on and failing after the halt hide nothing.
THEOREM FailuresRemembered == Spec => []NoFailureForgotten
<1> QED BY NothingForgotten, CInvInit, CInvNext, PTL DEF Spec
=============================================================================
