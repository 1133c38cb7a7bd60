------------------------ MODULE ReadOnceBufferCache ------------------------
(***************************************************************************)
(* The cache between the prefetcher, which reads the stream sequentially,  *)
(* and the threads that parse it.  Every byte is read once; the reads that *)
(* exhaust a buffer remove it and let the prefetcher fetch another one.    *)
(*                                                                         *)
(* Two locks are never held together: the mutex of the metadata (bytes     *)
(* remaining, next key, state) and the reader-writer lock of the buffers.  *)
(* One action is one critical section of one of them.  Buffer contents are *)
(* not modelled: the buffer with key k holds the bytes of the stream whose *)
(* address divided by the buffer size is k.                                *)
(*                                                                         *)
(* Who reads what is taken from the upgrade: the read worker reads the     *)
(* header of one command after the other, the construction workers take    *)
(* the payloads in stream order once their header has been read.           *)
(***************************************************************************)
EXTENDS Integers, Sequences, FiniteSets, BlockingSyncPrimitive

CONSTANTS
  StreamSize,                     \* address of the end of the stream
  robc_buffer_size,
  robc_cache_start_address,       \* bytes consumed before the cache exists
  BufferLimits,                   \* what the cache may be limited to
  Requests,       \* the reads, in stream order: [header, first, end]
  ReadWorker,     \* the thread that reads the headers
  Constructors    \* the threads that read the payloads

Readers == {ReadWorker} \union Constructors
RequestIds == DOMAIN Requests

ASSUME SizesAssumption ==
  /\ robc_buffer_size \in Nat \ {0}
  /\ robc_cache_start_address \in Nat
  /\ BufferLimits \subseteq Nat
  /\ StreamSize \in Nat /\ robc_cache_start_address <= StreamSize
ASSUME RequestsAssumption ==
  /\ Requests \in Seq([header : BOOLEAN, first : Nat, end : Nat])
  /\ \A i \in RequestIds :
       /\ robc_cache_start_address <= Requests[i].first
       /\ Requests[i].first < Requests[i].end
       /\ Requests[i].end <= StreamSize
  /\ \A i, j \in RequestIds : i < j => Requests[i].end <= Requests[j].first
ASSUME ReadersAssumption == IsFiniteSet(Constructors) /\ ReadWorker \notin Constructors

Key(address) == address \div robc_buffer_size
FirstKey == Key(robc_cache_start_address)

\* The addresses the buffer with this key is filled with.  The first buffer
\* starts where the cache does; the last ones are short or empty.
Bytes(key) ==
  {a \in robc_cache_start_address .. StreamSize - 1 : Key(a) = key}

VARIABLES
  robc_maximum_buffers_to_cache,   \* chosen by new()
  robci_buffers,            \* keys of the buffers present
  robcm_bytes_remaining,    \* key -> bytes nobody has read yet
  robcm_next_key_to_fetch,
  robcm_state,
  robc_reader_wait_cv,
  robc_prefetcher_wait_cv,
  prefetcher,   \* [pc, key]: where the prefetcher is, the buffer it fills
  reader,       \* [pc, req, pos, n]: where a reader is, its request, the next
                \* address it reads, the bytes it has just copied
  taken,        \* requests some reader has started
  finished      \* requests that read_exact() has served

settings == <<robc_maximum_buffers_to_cache>>
metadata == <<robcm_bytes_remaining, robcm_next_key_to_fetch, robcm_state>>
cacheVars == <<settings, robci_buffers, metadata, robc_reader_wait_cv,
          robc_prefetcher_wait_cv, prefetcher, reader, taken, finished>>

Idle == [pc |-> "idle", req |-> 0, pos |-> 0, n |-> 0]

CacheInit ==
  /\ robc_maximum_buffers_to_cache \in BufferLimits
  /\ robci_buffers = {}
  /\ robcm_bytes_remaining = [k \in {} |-> 0]
  /\ robcm_next_key_to_fetch = FirstKey
  /\ robcm_state = "Running"
  /\ robc_reader_wait_cv = {}
  /\ robc_prefetcher_wait_cv = FALSE
  /\ prefetcher = [pc |-> "get", key |-> FirstKey]
  /\ reader = [r \in Readers |-> Idle]
  /\ taken = {}
  /\ finished = {}

Without(f, key) == [k \in DOMAIN f \ {key} |-> f[k]]
With(f, key, value) ==
  [k \in DOMAIN f \union {key} |-> IF k = key THEN value ELSE f[k]]

(***************************************************************************)
(* prefetcher_loop(): get_buffer_to_fill, fill_read_buffer, put_buffer.    *)
(***************************************************************************)
Full == Cardinality(DOMAIN robcm_bytes_remaining) = robc_maximum_buffers_to_cache

PrefetcherAt(pc) == prefetcher.pc = pc /\ ~robc_prefetcher_wait_cv
PrefetcherGoes(pc) == prefetcher' = [prefetcher EXCEPT !.pc = pc]

GetBufferWait ==
  /\ PrefetcherAt("get")
  /\ Full /\ robcm_state = "Running"
  /\ robc_prefetcher_wait_cv' = TRUE
  /\ UNCHANGED <<settings, robci_buffers, metadata, robc_reader_wait_cv, prefetcher,
                 reader, taken, finished>>

GetBufferToFill ==
  /\ PrefetcherAt("get")
  /\ ~Full /\ robcm_state = "Running"
  /\ prefetcher' = [pc |-> "fill", key |-> robcm_next_key_to_fetch]
  /\ robcm_next_key_to_fetch' = robcm_next_key_to_fetch + 1
  /\ UNCHANGED <<settings, robci_buffers, robcm_bytes_remaining, robcm_state,
                 robc_reader_wait_cv, robc_prefetcher_wait_cv, reader, taken,
                 finished>>

GetBufferHalted ==
  /\ PrefetcherAt("get")
  /\ robcm_state # "Running"
  /\ PrefetcherGoes(IF robcm_state = "Aborted" THEN "error" ELSE "returned")
  /\ UNCHANGED <<settings, robci_buffers, metadata, robc_reader_wait_cv,
                 robc_prefetcher_wait_cv, reader, taken, finished>>

\* The check of prefetcher_loop on the end of a buffer; end_buffer_key is the
\* quotient of a remainder, so it is always 0.
WellSized(key) ==
  LET size == Cardinality(Bytes(key))
      start == IF key = FirstKey THEN robc_cache_start_address
               ELSE key * robc_buffer_size
      end_offset == (start + size) % robc_buffer_size
  IN  \/ FirstKey = end_offset \div robc_buffer_size
      \/ start % robc_buffer_size = 0
      \/ end_offset = 0
      \/ size = 0

\* The read of the source returns a full buffer or what is left before the
\* end of the stream; it may also fail.
FillReadBuffer ==
  /\ PrefetcherAt("fill")
  /\ \/ PrefetcherGoes(IF WellSized(prefetcher.key) THEN "insert" ELSE "error")
     \/ PrefetcherGoes("error")
  /\ UNCHANGED <<settings, robci_buffers, metadata, robc_reader_wait_cv,
                 robc_prefetcher_wait_cv, reader, taken, finished>>

\* put_buffer(), under the write lock.
InsertBuffer ==
  /\ PrefetcherAt("insert")
  /\ IF Bytes(prefetcher.key) = {}
     THEN PrefetcherGoes("put") /\ UNCHANGED robci_buffers
     ELSE /\ PrefetcherGoes(IF prefetcher.key \in robci_buffers THEN "error" ELSE "put")
          /\ robci_buffers' = robci_buffers \union {prefetcher.key}
  /\ UNCHANGED <<settings, metadata, robc_reader_wait_cv, robc_prefetcher_wait_cv,
                 reader, taken, finished>>

\* Faulty variant of PutBuffer: a short buffer is counted as a full one.
PutBufferFullSize ==
  /\ PrefetcherAt("put")
  /\ robcm_state = "Running"
  /\ IF Bytes(prefetcher.key) = {}
     THEN robcm_state' = "Done" /\ UNCHANGED robcm_bytes_remaining
     ELSE /\ robcm_bytes_remaining' =
               With(robcm_bytes_remaining, prefetcher.key, robc_buffer_size)
          /\ UNCHANGED robcm_state
  /\ PrefetcherGoes("get")
  /\ robc_reader_wait_cv' = NotifyAll
  /\ UNCHANGED <<settings, robci_buffers, robcm_next_key_to_fetch,
                 robc_prefetcher_wait_cv, reader, taken, finished>>

\* put_buffer(), under the mutex; an empty buffer is the end of the stream.
PutBuffer ==
  /\ PrefetcherAt("put")
  /\ robcm_state = "Running"
  /\ IF Bytes(prefetcher.key) = {}
     THEN /\ robcm_bytes_remaining' = Without(robcm_bytes_remaining, prefetcher.key)
          /\ robcm_state' = "Done"
     ELSE /\ robcm_bytes_remaining' = With(robcm_bytes_remaining, prefetcher.key,
                                           Cardinality(Bytes(prefetcher.key)))
          /\ UNCHANGED robcm_state
  /\ PrefetcherGoes("get")
  /\ robc_reader_wait_cv' = NotifyAll
  /\ UNCHANGED <<settings, robci_buffers, robcm_next_key_to_fetch,
                 robc_prefetcher_wait_cv, reader, taken, finished>>

\* The cache was halted while the buffer was on its way.
PutBufferHalted ==
  /\ PrefetcherAt("put")
  /\ robcm_state # "Running"
  /\ PrefetcherGoes(IF robcm_state = "Aborted" THEN "error" ELSE "put_while_done")
  /\ UNCHANGED <<settings, robci_buffers, metadata, robc_reader_wait_cv,
                 robc_prefetcher_wait_cv, reader, taken, finished>>

Prefetch ==
  \/ GetBufferWait \/ GetBufferToFill \/ GetBufferHalted \/ FillReadBuffer
  \/ InsertBuffer \/ PutBuffer \/ PutBufferHalted

(***************************************************************************)
(* read_exact(), one buffer after the other: read_buffer_from_cache under  *)
(* the mutex and then under the read lock, update_bytes_read under the     *)
(* mutex and then, if the buffer is exhausted, under the write lock.       *)
(***************************************************************************)
ReaderAt(r, pc) == reader[r].pc = pc /\ r \notin robc_reader_wait_cv
ReaderGoes(r, pc) == reader' = [reader EXCEPT ![r].pc = pc]
ReaderKey(r) == Key(reader[r].pos)

\* The read worker reads header after header; a construction worker takes the
\* first payload that is left once all headers up to it have been read.
StartRead(r, i) ==
  /\ ReaderAt(r, "idle")
  /\ i \notin taken
  /\ Requests[i].header <=> r = ReadWorker
  /\ \A j \in 1 .. i - 1 :
       /\ Requests[j].header = Requests[i].header => j \in taken
       /\ Requests[j].header => j \in finished
  /\ taken' = taken \union {i}
  /\ reader' = [reader EXCEPT ![r] = [pc |-> "wait", req |-> i,
                                      pos |-> Requests[i].first, n |-> 0]]
  /\ UNCHANGED <<settings, robci_buffers, metadata, robc_reader_wait_cv,
                 robc_prefetcher_wait_cv, prefetcher, finished>>

Fetched(key) ==
  key \in DOMAIN robcm_bytes_remaining /\ robcm_bytes_remaining[key] # 0

ReadBufferWait(r) ==
  /\ ReaderAt(r, "wait")
  /\ robcm_state = "Running" /\ ~Fetched(ReaderKey(r))
  /\ robc_reader_wait_cv' = robc_reader_wait_cv \union {r}
  /\ UNCHANGED <<settings, robci_buffers, metadata, robc_prefetcher_wait_cv, prefetcher,
                 reader, taken, finished>>

\* Faulty variant of ReadBufferEnter: a buffer nobody has put is not waited for.
ReadBufferEager(r) ==
  /\ ReaderAt(r, "wait")
  /\ ReaderGoes(r, IF robcm_state = "Aborted" THEN "aborted" ELSE "copy")
  /\ UNCHANGED <<settings, robci_buffers, metadata, robc_reader_wait_cv,
                 robc_prefetcher_wait_cv, prefetcher, taken, finished>>

\* Past the wait the mutex is dropped: nothing but the bytes this reader has
\* still to read keeps the buffer in the cache.
ReadBufferEnter(r) ==
  /\ ReaderAt(r, "wait")
  /\ robcm_state = "Running" => Fetched(ReaderKey(r))
  /\ ReaderGoes(r, IF robcm_state = "Aborted" THEN "aborted" ELSE "copy")
  /\ UNCHANGED <<settings, robci_buffers, metadata, robc_reader_wait_cv,
                 robc_prefetcher_wait_cv, prefetcher, taken, finished>>

\* ReadBuffer::read stops at the end of the buffer or of the slice.
BytesToCopy(r) ==
  Cardinality({a \in Bytes(ReaderKey(r)) :
                 reader[r].pos <= a /\ a < Requests[reader[r].req].end})

CopyFromBuffer(r) ==
  /\ ReaderAt(r, "copy")
  /\ IF ReaderKey(r) \in robci_buffers /\ BytesToCopy(r) # 0
     THEN reader' = [reader EXCEPT ![r].pc = "update", ![r].n = BytesToCopy(r)]
     ELSE ReaderGoes(r, "failed")
  /\ UNCHANGED <<settings, robci_buffers, metadata, robc_reader_wait_cv,
                 robc_prefetcher_wait_cv, prefetcher, taken, finished>>

\* The end of one turn of the loop of read_exact(): the rest of the slice is
\* in the next buffer, or there is no rest.
Advance(r, pos) ==
  IF pos < Requests[reader[r].req].end
  THEN /\ reader' = [reader EXCEPT ![r].pc = "wait", ![r].pos = pos]
       /\ UNCHANGED finished
  ELSE /\ reader' = [reader EXCEPT ![r] = Idle]
       /\ finished' = finished \union {reader[r].req}

UpdateBytesFails(r) ==
  /\ ReaderAt(r, "update")
  /\ robcm_state # "Aborted" /\ ReaderKey(r) \in DOMAIN robcm_bytes_remaining
       => robcm_bytes_remaining[ReaderKey(r)] < reader[r].n
  /\ ReaderGoes(r, IF robcm_state = "Aborted" THEN "aborted" ELSE "failed")
  /\ UNCHANGED <<settings, robci_buffers, metadata, robc_reader_wait_cv,
                 robc_prefetcher_wait_cv, prefetcher, taken, finished>>

UpdateBytesLeft(r) ==
  LET key == ReaderKey(r)  left == robcm_bytes_remaining[key] - reader[r].n IN
  /\ ReaderAt(r, "update")
  /\ robcm_state # "Aborted"
  /\ key \in DOMAIN robcm_bytes_remaining /\ left > 0
  /\ robcm_bytes_remaining' = [robcm_bytes_remaining EXCEPT ![key] = left]
  /\ Advance(r, reader[r].pos + reader[r].n)
  /\ UNCHANGED <<settings, robci_buffers, robcm_next_key_to_fetch, robcm_state,
                 robc_reader_wait_cv, robc_prefetcher_wait_cv, prefetcher, taken>>

\* Faulty variant of UpdateBytesExhausted: the prefetcher is not woken.
UpdateBytesSilently(r) ==
  LET key == ReaderKey(r) IN
  /\ ReaderAt(r, "update")
  /\ robcm_state # "Aborted"
  /\ key \in DOMAIN robcm_bytes_remaining
  /\ robcm_bytes_remaining[key] = reader[r].n
  /\ robcm_bytes_remaining' = Without(robcm_bytes_remaining, key)
  /\ ReaderGoes(r, "collect")
  /\ UNCHANGED <<settings, robci_buffers, robcm_next_key_to_fetch, robcm_state,
                 robc_reader_wait_cv, robc_prefetcher_wait_cv, prefetcher, taken, finished>>

UpdateBytesExhausted(r) ==
  LET key == ReaderKey(r) IN
  /\ ReaderAt(r, "update")
  /\ robcm_state # "Aborted"
  /\ key \in DOMAIN robcm_bytes_remaining
  /\ robcm_bytes_remaining[key] = reader[r].n
  /\ robcm_bytes_remaining' = Without(robcm_bytes_remaining, key)
  /\ ReaderGoes(r, "collect")
  /\ robc_prefetcher_wait_cv' = FALSE
  /\ UNCHANGED <<settings, robci_buffers, robcm_next_key_to_fetch, robcm_state,
                 robc_reader_wait_cv, prefetcher, taken, finished>>

CollectBuffer(r) ==
  /\ ReaderAt(r, "collect")
  /\ robci_buffers' = robci_buffers \ {ReaderKey(r)}
  /\ Advance(r, reader[r].pos + reader[r].n)
  /\ UNCHANGED <<settings, metadata, robc_reader_wait_cv, robc_prefetcher_wait_cv,
                 prefetcher, taken>>

ReadExact(r) ==
  \/ ReadBufferWait(r) \/ ReadBufferEnter(r) \/ CopyFromBuffer(r)
  \/ UpdateBytesFails(r) \/ UpdateBytesLeft(r) \/ UpdateBytesExhausted(r)
  \/ CollectBuffer(r)

(***************************************************************************)
(* halt(): the coordinator calls it for a planned end when the writer has  *)
(* returned, so everything has been read, or after a failure at any time.  *)
(***************************************************************************)
\* Faulty variant of Halt: only the readers are woken.
HaltForgetsPrefetcher(unplanned) ==
  /\ unplanned \/ finished = RequestIds
  /\ MayHalt(robcm_state, unplanned)
  /\ robcm_state' = HaltedState(unplanned)
  /\ robc_reader_wait_cv' = NotifyAll
  /\ UNCHANGED <<settings, robci_buffers, robcm_bytes_remaining, robcm_next_key_to_fetch,
                 robc_prefetcher_wait_cv, prefetcher, reader, taken, finished>>

Halt(unplanned) ==
  /\ unplanned \/ finished = RequestIds
  /\ MayHalt(robcm_state, unplanned)
  /\ robcm_state' = HaltedState(unplanned)
  /\ robc_reader_wait_cv' = NotifyAll
  /\ robc_prefetcher_wait_cv' = FALSE
  /\ UNCHANGED <<settings, robci_buffers, robcm_bytes_remaining, robcm_next_key_to_fetch,
                 prefetcher, reader, taken, finished>>

\* std::sync::Condvar may wake a waiter without a notification.
SpuriousWakeup ==
  /\ \/ \E r \in robc_reader_wait_cv :
          /\ robc_reader_wait_cv' = robc_reader_wait_cv \ {r}
          /\ UNCHANGED robc_prefetcher_wait_cv
     \/ /\ robc_prefetcher_wait_cv
        /\ robc_prefetcher_wait_cv' = FALSE
        /\ UNCHANGED robc_reader_wait_cv
  /\ UNCHANGED <<settings, robci_buffers, metadata, prefetcher, reader, taken, finished>>

CacheNext ==
  \/ Prefetch
  \/ \E r \in Readers : ReadExact(r) \/ \E i \in RequestIds : StartRead(r, i)
  \/ \E unplanned \in BOOLEAN : Halt(unplanned)
  \/ SpuriousWakeup

CacheSpec == CacheInit /\ [][CacheNext]_cacheVars

\* Every thread that can run does, and the source answers every read; nobody
\* has to halt the cache.
CacheFairness ==
  /\ WF_cacheVars(Prefetch)
  /\ \A r \in Readers :
       WF_cacheVars(ReadExact(r)) /\ WF_cacheVars(\E i \in RequestIds : StartRead(r, i))

-----------------------------------------------------------------------------
(***************************************************************************)
(* Properties                                                              *)
(***************************************************************************)
TypeOK ==
  /\ robc_maximum_buffers_to_cache \in Nat
  /\ robci_buffers \subseteq Nat
  /\ DOMAIN robcm_bytes_remaining \subseteq Nat
  /\ \A k \in DOMAIN robcm_bytes_remaining : robcm_bytes_remaining[k] \in Nat
  /\ robcm_next_key_to_fetch \in Nat
  /\ robcm_state \in PrimitiveState
  /\ robc_reader_wait_cv \subseteq Readers
  /\ robc_prefetcher_wait_cv \in BOOLEAN
  /\ prefetcher \in [pc : {"get", "fill", "insert", "put", "returned", "error",
                           "put_while_done"},
                     key : Nat]
  /\ reader \in [Readers ->
                   [pc : {"idle", "wait", "copy", "update", "collect",
                          "aborted", "failed"},
                    req : Nat, pos : Nat, n : Nat]]
  /\ taken \subseteq RequestIds
  /\ finished \subseteq taken

\* The errors that the code calls impossible are: no reader that has passed
\* the wait finds its buffer gone, its counter missing or too small, whatever
\* the other readers and the prefetcher do between its two locks.
NeverFails == \A r \in Readers : reader[r].pc # "failed"

\* The counter of a buffer is the number of its bytes that no reader has
\* accounted for yet.
Accounted(a) ==
  \E i \in taken :
    /\ Requests[i].first <= a /\ a < Requests[i].end
    /\ \/ i \in finished
       \/ \E r \in Readers :
            /\ reader[r].req = i
            /\ a < reader[r].pos + (IF reader[r].pc = "collect" THEN reader[r].n ELSE 0)
Unaccounted(key) == {a \in Bytes(key) : ~Accounted(a)}
CountersAreExact ==
  \A k \in DOMAIN robcm_bytes_remaining :
    /\ robcm_bytes_remaining[k] = Cardinality(Unaccounted(k))
    /\ robcm_bytes_remaining[k] # 0

\* Memory: the cache holds the buffers that have a counter, plus those whose
\* last reader has not collected them yet, plus the one being put; a buffer
\* with a counter is always there.
BuffersMatchCounters ==
  LET collecting == {ReaderKey(r) : r \in {q \in Readers : reader[q].pc = "collect"}}
      arriving == IF prefetcher.pc \in {"put", "put_while_done", "error"}
                  THEN {prefetcher.key} ELSE {}
  IN  /\ DOMAIN robcm_bytes_remaining \subseteq robci_buffers
      /\ robci_buffers \subseteq DOMAIN robcm_bytes_remaining \union collecting \union arriving
      /\ Cardinality(DOMAIN robcm_bytes_remaining) <= robc_maximum_buffers_to_cache

\* What put_buffer and update_bytes_read keep true between them, although each
\* changes the buffers and the counters under different locks.
CacheIsSound == TypeOK /\ CountersAreExact /\ BuffersMatchCounters

\* For the requests of an upgrade, which its threads take in the order of their
\* bytes, every read is served unless the source fails or the upgrade is
\* aborted, also in a cache with room for one buffer.  The documentation of the cache
\* asks for more: too small a capacity "can end up deadlocking", and it is to be
\* "sufficently larger than the maximum size of a copy request"
\* (read_once_buffer_cache.rs:116).  read_exact() goes through the buffers of a
\* request one by one and gives each back before it waits for the next, so a
\* request may be larger than the cache; what could wait for ever is a request
\* that nobody reads while it holds bytes of the only buffer, and the threads of
\* an upgrade leave none behind.
EverythingIsRead ==
  <>(finished = RequestIds \/ robcm_state = "Aborted" \/ prefetcher.pc = "error")

\* An abort ends the prefetcher and every reader that is inside read_exact();
\* a planned halt comes when nothing is left to read.
HaltEndsThreads ==
  robcm_state = "Aborted" ~>
    /\ prefetcher.pc \in {"returned", "error", "put_while_done"}
    /\ \A r \in Readers : reader[r].pc \in {"idle", "aborted"}

\* The comment on the state check of put_buffer(): the cache is never done
\* while the prefetcher has a buffer on its way.
NeverPutWhileDone == prefetcher.pc # "put_while_done"
=============================================================================
