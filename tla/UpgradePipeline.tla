-------------------------- MODULE UpgradePipeline --------------------------
(***************************************************************************)
(* The upgrade with several threads.  The prefetcher fills the buffer      *)
(* cache, the read worker finds the commands, construction workers read    *)
(* and upgrade them, the batcher puts writes together, compression workers *)
(* build the batches, the write worker persists them in order, and the     *)
(* coordinator watches the workers and halts the primitives between them.  *)
(*                                                                         *)
(* A queue is modelled by what BlockingQueue promises: a dequeue waits for *)
(* its item and returns it in one step.  The cache is reduced to how many  *)
(* buffers have been put in it.  A worker may crash at any of its steps,   *)
(* which stands for an I/O error, a bad command or a panic.                *)
(***************************************************************************)
EXTENDS Integers, Sequences, SequencesExt, FiniteSets, Coordinator

CONSTANTS
  Upgrades,      \* what may be upgraded and by whom: [stream, buffer_of,
                 \* num_command_constructors, num_compressors, crashes], where buffer_of
                 \* says per command how many buffers its bytes reach into and crashes
                 \* bounds how many workers crash by themselves
  Buffers,       \* the number of buffers a stream fills
  maximum_batched_extent_size

VARIABLES
  source, written,   \* what the stream and the output say, for the properties
  prefetched,        \* buffers put into the cache
  sc_command_construction_queue,   \* CommandInfos
  sc_batcher_queue, batcher_first_id,          \* a set of batches, the next id
  sc_compression_queue,                        \* batches
  sc_persistence_queue, persistence_first_id,  \* a set of batches, the next id
  hand,    \* per worker, the CommandInfos or batches it works on
  previous_batch_info_option,   \* of the batcher: <<>> or <<batch>>
  output,                       \* the commands persisted: [pieces]
  crashes, broken    \* crashes so far; workers one of whose checks failed
queues == <<sc_command_construction_queue, sc_batcher_queue, batcher_first_id,
            sc_compression_queue, sc_persistence_queue, persistence_first_id>>
given == <<upgrade, source>>
vars == <<given, primitive_state, prefetched, queues, pc, hand, previous_batch_info_option,
          output, written, crashes, broken, coordinator>>

INSTANCE CommandBatchInfo WITH Commands <- upgrade.stream
Commands == upgrade.stream

ASSUME ConstantsAssumption ==
  /\ \A u \in Upgrades :
       /\ IsStream(u.stream)
       /\ u.buffer_of \in [DOMAIN u.stream -> 1 .. Buffers]
       /\ u.num_command_constructors \in Nat \ {0} /\ u.num_compressors \in Nat \ {0}
       /\ u.crashes \in Nat
  /\ Buffers \in Nat /\ maximum_batched_extent_size \in Nat

Running(p) == primitive_state[p] = "Running"
Goes(w, step, items) ==
  /\ pc' = [pc EXCEPT ![w] = step]
  /\ hand' = [hand EXCEPT ![w] = items]
Ends(w, how) == Goes(w, how, <<>>)

Init ==
  /\ upgrade \in Upgrades
  /\ source = SourceStream
  /\ prefetched = 0
  /\ sc_command_construction_queue = <<>>
  /\ sc_batcher_queue = {} /\ batcher_first_id = 1
  /\ sc_compression_queue = <<>>
  /\ sc_persistence_queue = {} /\ persistence_first_id = 1
  /\ pc = [w \in Workers |-> CASE w = Prefetcher -> "get"
                               [] w = Reader -> "header"
                               [] OTHER -> "dequeue"]
  /\ hand = [w \in Workers |-> IF w = Reader THEN <<[id |-> 1]>> ELSE <<>>]
  /\ previous_batch_info_option = <<>>
  /\ output = <<>> /\ written = <<>>
  /\ crashes = 0 /\ broken = {}
  /\ RunInit

\* A worker that uses a primitive which is not running any more: every
\* enqueue fails, and so does a dequeue unless the primitive is Done and the
\* worker takes that for its end.
Halted(w, p, when_done) ==
  /\ ~Running(p)
  /\ Ends(w, IF primitive_state[p] = "Done" THEN when_done ELSE "failed")
  /\ UNCHANGED <<primitive_state, prefetched, queues, previous_batch_info_option,
                 output, written, crashes, broken, coordinator>>

\* One of the checks in a worker fails.
Breaks(w) ==
  /\ Ends(w, "failed")
  /\ broken' = broken \union {w}
  /\ UNCHANGED <<primitive_state, prefetched, queues, previous_batch_info_option,
                 output, written, crashes, coordinator>>

Crash(w) ==
  /\ pc[w] \notin {"finished", "failed"}
  /\ crashes < upgrade.crashes
  /\ crashes' = crashes + 1
  /\ Ends(w, "failed")
  /\ UNCHANGED <<primitive_state, prefetched, queues, previous_batch_info_option,
                 output, written, broken, coordinator>>

-----------------------------------------------------------------------------
\* prefetcher_loop.  The buffer after the last one is empty: the end of the
\* stream, where put_buffer makes the cache Done.
GetBuffer ==
  /\ pc[Prefetcher] = "get"
  /\ \/ Halted(Prefetcher, "cache", "finished")
     \/ /\ Running("cache")
        /\ Goes(Prefetcher, "put", <<>>)
        /\ UNCHANGED <<primitive_state, prefetched, queues, previous_batch_info_option,
                       output, written, crashes, broken, coordinator>>

PutBuffer ==
  /\ pc[Prefetcher] = "put"
  /\ \/ Halted(Prefetcher, "cache", "failed")
     \/ /\ Running("cache")
        /\ IF prefetched < Buffers
           THEN prefetched' = prefetched + 1 /\ UNCHANGED primitive_state
           ELSE /\ primitive_state' = [primitive_state EXCEPT !["cache"] = "Done"]
                /\ UNCHANGED prefetched
        /\ Goes(Prefetcher, "get", <<>>)
        /\ UNCHANGED <<queues, previous_batch_info_option, output, written, crashes, broken,
                       coordinator>>

\* A read of bytes of command id returns: they are there, or the cache was
\* halted, which the reader learns by an error.
ReadReturns(id) == Running("cache") => upgrade.buffer_of[id] <= prefetched
ReadSucceeds(id) == primitive_state["cache"] # "Aborted" /\ upgrade.buffer_of[id] <= prefetched

ReadHeader ==
  /\ pc[Reader] = "header"
  /\ ReadReturns(hand[Reader][1].id)
  /\ IF ReadSucceeds(hand[Reader][1].id)
     THEN Goes(Reader, "enqueue", hand[Reader]) ELSE Ends(Reader, "failed")
  /\ UNCHANGED <<primitive_state, prefetched, queues, previous_batch_info_option,
                 output, written, crashes, broken, coordinator>>

EnqueueCommandInfo ==
  /\ pc[Reader] = "enqueue"
  /\ \/ Halted(Reader, "construction", "failed")
     \/ /\ Running("construction")
        /\ sc_command_construction_queue' = sc_command_construction_queue \o hand[Reader]
        /\ IF Commands[hand[Reader][1].id].type = "END" THEN Ends(Reader, "finished")
           ELSE Goes(Reader, "header", <<[id |-> hand[Reader][1].id + 1]>>)
        /\ UNCHANGED <<primitive_state, prefetched, sc_batcher_queue, batcher_first_id,
                       sc_compression_queue, sc_persistence_queue,
                       persistence_first_id, previous_batch_info_option, output, written,
                       crashes, broken, coordinator>>

-----------------------------------------------------------------------------
\* CommandConstructionWorker: dequeue, read and upgrade the command, enqueue.
DequeueCommandInfo(w) ==
  /\ pc[w] = "dequeue"
  /\ \/ Halted(w, "construction", "finished")
     \/ /\ Running("construction") /\ sc_command_construction_queue # <<>>
        /\ sc_command_construction_queue' = Tail(sc_command_construction_queue)
        /\ Goes(w, "read", <<Head(sc_command_construction_queue)>>)
        /\ UNCHANGED <<primitive_state, prefetched, sc_batcher_queue, batcher_first_id,
                       sc_compression_queue, sc_persistence_queue,
                       persistence_first_id, previous_batch_info_option, output, written,
                       crashes, broken, coordinator>>

ReadPayload(w) ==
  /\ pc[w] = "read"
  /\ ReadReturns(hand[w][1].id)
  /\ IF ReadSucceeds(hand[w][1].id)
     THEN Goes(w, "enqueue", <<New(hand[w][1].id)>>) ELSE Ends(w, "failed")
  /\ UNCHANGED <<primitive_state, prefetched, queues, previous_batch_info_option,
                 output, written, crashes, broken, coordinator>>

\* Inserting into an ordered queue fails if its first id is taken.
HasId(queue, id) == \E batch \in queue : batch.first_id = id

EnqueueCommand(w) ==
  /\ pc[w] = "enqueue"
  /\ \/ Halted(w, "batcher", "failed")
     \/ /\ Running("batcher")
        /\ IF HasId(sc_batcher_queue, hand[w][1].first_id) THEN Breaks(w)
           ELSE /\ sc_batcher_queue' = sc_batcher_queue \union {hand[w][1]}
                /\ Goes(w, "dequeue", <<>>)
                /\ UNCHANGED <<primitive_state, prefetched,
                               sc_command_construction_queue, batcher_first_id,
                               sc_compression_queue, sc_persistence_queue,
                               persistence_first_id, previous_batch_info_option,
                               output, written, crashes, broken, coordinator>>

-----------------------------------------------------------------------------
\* BatcherWorker: take the next command, try to append it to the previous
\* batch, dispatch a batch that cannot grow, pass other commands on.  A batch
\* to dispatch and the one to go on with are in the batcher's hand.
DequeueCommand ==
  /\ pc[Batcher] = "dequeue"
  /\ \/ Halted(Batcher, "batcher", "failed")
     \/ \E current \in sc_batcher_queue :
          /\ Running("batcher") /\ current.first_id = batcher_first_id
          /\ sc_batcher_queue' = sc_batcher_queue \ {current}
          /\ batcher_first_id' = NextId(current)
          /\ IF previous_batch_info_option = <<>>
             THEN /\ Goes(Batcher, "settle", <<current>>)
                  /\ UNCHANGED <<previous_batch_info_option, broken>>
             ELSE LET previous == previous_batch_info_option[1]
                      appended == TryAppend(previous, current)
                  IN  IF ~CanAppendChecks(previous, current)
                      THEN /\ Ends(Batcher, "failed")
                           /\ broken' = broken \union {Batcher}
                           /\ previous_batch_info_option' = <<>>
                      ELSE IF Len(appended) = 1
                      THEN /\ previous_batch_info_option' = appended
                           /\ UNCHANGED <<pc, hand, broken>>
                      ELSE /\ Goes(Batcher, "dispatch", appended)
                           /\ previous_batch_info_option' = <<>>
                           /\ UNCHANGED broken
          /\ UNCHANGED <<primitive_state, prefetched, sc_command_construction_queue,
                         sc_compression_queue, sc_persistence_queue,
                         persistence_first_id, output, written, crashes, coordinator>>

DispatchBatch ==
  /\ pc[Batcher] = "dispatch"
  /\ \/ Halted(Batcher, "compression", "failed")
     \/ /\ Running("compression")
        /\ sc_compression_queue' = sc_compression_queue \o <<hand[Batcher][1]>>
        /\ Goes(Batcher, "settle", Tail(hand[Batcher]))
        /\ UNCHANGED <<primitive_state, prefetched, sc_command_construction_queue,
                       sc_batcher_queue, batcher_first_id, sc_persistence_queue,
                       persistence_first_id, previous_batch_info_option, output, written,
                       crashes, broken, coordinator>>

\* Enqueue a batch that is ready to be written.
Persist(w, batch, step) ==
  /\ Running("persistence")
  /\ IF HasId(sc_persistence_queue, batch.first_id) THEN Breaks(w)
     ELSE /\ sc_persistence_queue' = sc_persistence_queue \union {batch}
          /\ Goes(w, step, <<>>)
          /\ UNCHANGED <<primitive_state, prefetched, sc_command_construction_queue,
                         sc_batcher_queue, batcher_first_id, sc_compression_queue,
                         persistence_first_id, previous_batch_info_option, output, written,
                         crashes, broken, coordinator>>

AfterSettling(pieces) == IF IsEnd(pieces) THEN "finished" ELSE "dequeue"

SettleCommand ==
  LET current == hand[Batcher][1]
  IN  /\ pc[Batcher] = "settle"
      /\ \/ /\ IsAppendable(current.command_queue)
            /\ previous_batch_info_option' = <<current>>
            /\ Goes(Batcher, "dequeue", <<>>)
            /\ UNCHANGED <<primitive_state, prefetched, queues, output, written, crashes,
                           broken, coordinator>>
         \/ /\ ~IsAppendable(current.command_queue)
            /\ Halted(Batcher, "persistence", "failed")
         \/ /\ ~IsAppendable(current.command_queue)
            /\ Persist(Batcher, current, AfterSettling(current.command_queue))

-----------------------------------------------------------------------------
\* CompressionWorker: take a batch, remove its commands one by one, append
\* them to the first, compress the result, hand it to the write worker.
DequeueBatch(w) ==
  /\ pc[w] = "dequeue"
  /\ \/ Halted(w, "compression", "finished")
     \/ /\ Running("compression") /\ sc_compression_queue # <<>>
        /\ sc_compression_queue' = Tail(sc_compression_queue)
        /\ Goes(w, "compress", <<Head(sc_compression_queue)>>)
        /\ UNCHANGED <<primitive_state, prefetched, sc_command_construction_queue,
                       sc_batcher_queue, batcher_first_id, sc_persistence_queue,
                       persistence_first_id, previous_batch_info_option, output, written,
                       crashes, broken, coordinator>>

\* The batches whose pointers refer to the commands as they were constructed.
HeldBatches ==
  sc_batcher_queue \union Range(sc_compression_queue)
    \union Range(previous_batch_info_option) \union Range(hand[Batcher])
    \union UNION {Range(hand[w]) : w \in {k \in Compressors : pc[k] = "compress"}}
    \union UNION {Range(hand[w]) : w \in {k \in Constructors : pc[k] = "enqueue"}}

\* Arc::try_unwrap, for a whole command: nobody else refers to it.
SoleOwner(batch, piece) ==
  \A other \in HeldBatches \ {batch} :
    \A q \in Range(other.command_queue) : q.id # piece.id

\* remove_first and append succeed for all commands of the batch, and the
\* number of bytes they have is what the batch says.
BuildChecks(batch) ==
  /\ \A piece \in Range(batch.command_queue) : IsWhole(piece) => SoleOwner(batch, piece)
  /\ \A n \in 2 .. Len(batch.command_queue) :
       CanAppend(SubSeq(batch.command_queue, 1, n - 1), <<batch.command_queue[n]>>)
  /\ PayloadSize(batch.command_queue) = batch.data_payload_size
  /\ Len(batch.command_queue) > 1 =>
       batch.data_payload_size <= maximum_batched_extent_size

CompressBatch(w) ==
  /\ pc[w] = "compress"
  /\ IF ~BuildChecks(hand[w][1]) THEN Breaks(w)
     ELSE \/ Halted(w, "persistence", "failed")
          \/ Persist(w, hand[w][1], "dequeue")

-----------------------------------------------------------------------------
\* WriteWorker
DequeueReady ==
  /\ pc[Writer] = "dequeue"
  /\ \/ Halted(Writer, "persistence", "failed")
     \/ \E batch \in sc_persistence_queue :
          /\ Running("persistence") /\ batch.first_id = persistence_first_id
          /\ sc_persistence_queue' = sc_persistence_queue \ {batch}
          /\ persistence_first_id' = NextId(batch)
          /\ Goes(Writer, "persist", <<batch>>)
          /\ UNCHANGED <<primitive_state, prefetched, sc_command_construction_queue,
                         sc_batcher_queue, batcher_first_id, sc_compression_queue,
                         previous_batch_info_option, output, written, crashes, broken,
                         coordinator>>

PersistCommand ==
  /\ pc[Writer] = "persist"
  /\ output' = output \o <<[pieces |-> hand[Writer][1].command_queue]>>
  /\ written' = StreamOf(output')
  /\ Goes(Writer, AfterSettling(hand[Writer][1].command_queue), <<>>)
  /\ UNCHANGED <<primitive_state, prefetched, queues, previous_batch_info_option,
                 crashes, broken, coordinator>>

-----------------------------------------------------------------------------
\* A step of the coordinator, which leaves what the workers work on alone.
Coordinate ==
  /\ Run
  /\ UNCHANGED <<prefetched, queues, hand, previous_batch_info_option,
                 output, written, crashes, broken>>

Step(w) ==
  \/ w = Prefetcher /\ (GetBuffer \/ PutBuffer)
  \/ w = Reader /\ (ReadHeader \/ EnqueueCommandInfo)
  \/ w \in Constructors /\ (DequeueCommandInfo(w) \/ ReadPayload(w) \/ EnqueueCommand(w))
  \/ w = Batcher /\ (DequeueCommand \/ DispatchBatch \/ SettleCommand)
  \/ w \in Compressors /\ (DequeueBatch(w) \/ CompressBatch(w))
  \/ w = Writer /\ (DequeueReady \/ PersistCommand)

Next ==
  /\ Coordinate \/ \E w \in Workers : Step(w) \/ Crash(w)
  /\ UNCHANGED given
Spec == Init /\ [][Next]_vars

\* The coordinator's sleeps end and its loops go on; and while some worker can
\* go on, one of them does (the scheduler runs it, the source and the
\* destination answer).  No worker takes steps for ever, so this is as much as
\* fairness to each of them.
Fairness ==
  /\ WF_vars(Coordinate /\ UNCHANGED given)
  /\ WF_vars((\E w \in Workers : Step(w)) /\ UNCHANGED given)
FairSpec == Spec /\ Fairness

-----------------------------------------------------------------------------
TypeOK ==
  /\ upgrade \in Upgrades
  /\ primitive_state \in [Range(Primitives) -> PrimitiveState]
  /\ prefetched \in 0 .. Buffers
  /\ sc_command_construction_queue \in Seq([id : CommandIds])
  /\ \A batch \in HeldBatches \union sc_persistence_queue : batch \in Batches
  /\ batcher_first_id \in 1 .. Len(Commands) + 1
  /\ persistence_first_id \in 1 .. Len(Commands) + 1
  /\ pc \in [Workers -> {"get", "put", "header", "enqueue", "dequeue", "read",
                         "dispatch", "settle", "compress", "persist",
                         "finished", "failed"}]
  /\ crashes \in 0 .. upgrade.crashes /\ broken \subseteq Workers
  /\ coordinator.active \in Seq(Workers)
  /\ coordinator.i \in 1 .. Len(WorkerList) + 1
  /\ coordinator.result \in {"running", "ok", "error"}

\* No check in a worker fails, whatever the interleaving: no id is delivered
\* twice to an ordered queue (enqueue), a fragment is alone in its batch
\* (can_append), whoever needs a command whole is its only owner
\* (remove_first), and the bytes of a batch are those it counts
\* (CompressionWorker).  The one check that a stream can make fail is that a
\* batch is not above the maximum (can_append): only a write that is larger
\* than the maximum does, which one thread takes as a batch of its own.
NoCheckFails ==
  broken \subseteq {w \in {Batcher} : \E i \in CommandIds :
                                       Commands[i].size > maximum_batched_extent_size}

\* The state that the workers share has its type at every step, also while
\* halt_all stops some of them, and none of them meets a state it rejects.
PipelineIsSound == TypeOK /\ NoCheckFails

\* "0 will disable batching": the documentation of maximum_batched_extent_size
\* (send_stream_upgrade_options.rs).  can_append takes every write for a batch
\* above the limit then, and the batcher fails.
ZeroDisablesBatching == maximum_batched_extent_size = 0 => Batcher \notin broken

\* A planned halt finds nothing on its way: once a queue is Done, everything has
\* been written, so the items that dequeue leaves behind in a Done queue and the
\* workers that take None for their end lose nothing.
DoneOnlyWhenComplete ==
  (\E p \in Range(Primitives) \ {"cache"} : primitive_state[p] = "Done") =>
    /\ written = source
    /\ sc_command_construction_queue = <<>> /\ sc_compression_queue = <<>>
    /\ sc_batcher_queue = {} /\ sc_persistence_queue = {}
    /\ previous_batch_info_option = <<>>
    /\ \A w \in Workers : hand[w] = <<>>

\* The commands the write worker persists begin where the options say they do,
\* as they do with one thread (try_append fills a batch before it splits).
BatchesAreMaximal == BatchedAsPromised(output)

\* The pipeline keeps the promise of SendStream::upgrade: the commands are
\* written in order and once, Ok means all of them, and run returns, whichever
\* worker crashes when.
Promise == INSTANCE InOrderUpgrade
             WITH stream <- source, written <- written,
                  result <- coordinator.result
ImplementsInOrderUpgrade == Promise!FairSpec
=============================================================================
