---------------------------- MODULE Coordinator ----------------------------
(***************************************************************************)
(* Coordinator::run, which starts the workers of an upgrade, looks whether *)
(* they have ended, halts the primitives between them and tears them down. *)
(* Each pass looks at the workers one by one; one that has ended is        *)
(* removed, and the index moves on all the same.                           *)
(***************************************************************************)
EXTENDS Integers, Sequences, SequencesExt, BlockingSyncPrimitive

VARIABLES
  upgrade,           \* what is upgraded, with num_command_constructors, num_compressors
  primitive_state,   \* per primitive, its PrimitiveState
  pc,                \* per worker, its next step; "finished" and "failed" are its end
  coordinator        \* [pc, i, active, crashed, all_done, result]

\* The primitives of the SyncContainer, in the order halt_all halts them.
Primitives == <<"cache", "construction", "batcher", "compression", "persistence">>

Prefetcher == <<"prefetch", 1>>
Reader == <<"read", 1>>
Batcher == <<"batch", 1>>
Writer == <<"write", 1>>
Constructors == {<<"construct", i>> : i \in 1 .. upgrade.num_command_constructors}
Compressors == {<<"compress", i>> : i \in 1 .. upgrade.num_compressors}
Workers == {Prefetcher, Reader, Batcher, Writer} \union Constructors \union Compressors

\* active_workers, as Coordinator::run fills it
WorkerList ==
  <<Prefetcher, Reader, Batcher>>
    \o [i \in 1 .. upgrade.num_command_constructors |-> <<"construct", i>>]
    \o [i \in 1 .. upgrade.num_compressors |-> <<"compress", i>>]
    \o <<Writer>>

RunInit ==
  /\ primitive_state = [p \in Range(Primitives) |-> "Running"]
  /\ coordinator = [pc |-> "poll", i |-> 1, active |-> WorkerList,
                    all_done |-> FALSE, crashed |-> FALSE, result |-> "running"]

RemoveWorker(i) == RemoveAt(coordinator.active, i)
Ended(i) == pc[coordinator.active[i]] \in {"finished", "failed"}
PassOver == coordinator.i > Len(coordinator.active)

Watches(step) ==
  /\ coordinator.pc = step
  /\ UNCHANGED <<primitive_state, pc>>

\* Faulty variant of PollWorker: the end of any worker ends the upgrade.
PollWorkerEager ==
  /\ Watches("poll") /\ ~PassOver
  /\ LET i == coordinator.i
         failed == pc[coordinator.active[i]] = "failed"
     IN  coordinator' =
           IF ~Ended(i) THEN [coordinator EXCEPT !.i = i + 1]
           ELSE [coordinator EXCEPT
                   !.i = i + 1, !.active = RemoveWorker(i),
                   !.crashed = @ \/ failed, !.all_done = TRUE]

PollWorker ==
  /\ Watches("poll") /\ ~PassOver
  /\ LET i == coordinator.i
         failed == pc[coordinator.active[i]] = "failed"
     IN  coordinator' =
           IF ~Ended(i) THEN [coordinator EXCEPT !.i = i + 1]
           ELSE [coordinator EXCEPT
                   !.i = i + 1, !.active = RemoveWorker(i),
                   !.crashed = @ \/ failed,
                   !.all_done = @ \/ failed \/ i = Len(coordinator.active)]

EndPass ==
  /\ Watches("poll") /\ PassOver
  /\ coordinator' = [coordinator EXCEPT
                       !.i = 1, !.pc = IF coordinator.all_done THEN "halt" ELSE "poll"]

\* halt_all, primitive by primitive.
HaltPrimitive ==
  LET p == Primitives[coordinator.i]
  IN  /\ coordinator.pc = "halt"
      /\ MayHalt(primitive_state[p], coordinator.crashed)
      /\ primitive_state' =
           [primitive_state EXCEPT ![p] = HaltedState(coordinator.crashed)]
      /\ coordinator' = IF coordinator.i = Len(Primitives)
                        THEN [coordinator EXCEPT !.pc = "teardown", !.i = 1]
                        ELSE [coordinator EXCEPT !.i = @ + 1]
      /\ UNCHANGED pc

\* Faulty variant of TearDownWorker: failures do not count any more.
TearDownWorkerBlind ==
  /\ Watches("teardown") /\ ~PassOver
  /\ LET i == coordinator.i
     IN  coordinator' =
           IF ~Ended(i) THEN [coordinator EXCEPT !.i = i + 1]
           ELSE [coordinator EXCEPT !.i = i + 1, !.active = RemoveWorker(i)]

TearDownWorker ==
  /\ Watches("teardown") /\ ~PassOver
  /\ LET i == coordinator.i
     IN  coordinator' =
           IF ~Ended(i) THEN [coordinator EXCEPT !.i = i + 1]
           ELSE [coordinator EXCEPT
                   !.i = i + 1, !.active = RemoveWorker(i),
                   !.crashed = @ \/ pc[coordinator.active[i]] = "failed"]

EndTearDownPass ==
  /\ Watches("teardown") /\ PassOver
  /\ coordinator' =
       IF coordinator.active # <<>> THEN [coordinator EXCEPT !.i = 1]
       ELSE [coordinator EXCEPT
               !.pc = "returned",
               !.result = IF coordinator.crashed THEN "error" ELSE "ok"]

Run == PollWorker \/ EndPass \/ HaltPrimitive \/ TearDownWorker \/ EndTearDownPass

\* Coordinator::run returns only after every worker has ended, and returns Ok
\* exactly if none of them failed: the index that moves on after a removal, and
\* failures seen after a planned halt, make it forget none.
NoFailureForgotten ==
  coordinator.pc = "returned" =>
    /\ \A w \in Workers : pc[w] \in {"finished", "failed"}
    /\ coordinator.result = "ok" <=> \A w \in Workers : pc[w] = "finished"
=============================================================================
