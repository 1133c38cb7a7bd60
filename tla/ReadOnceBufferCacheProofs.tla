--------------------- MODULE ReadOnceBufferCacheProofs ---------------------
(* ReadOnceBufferCache: no read of the cache fails and its counters stay    *)
(* exact, for every stream, every division into reads, every size and number *)
(* of buffers and every number of readers.                                  *)
(*                                                                          *)
(* The inductive invariant names the key f of the first buffer that has not *)
(* been put.  Everything below f has a counter exactly as long as somebody  *)
(* still has to read from it (Counting), the prefetcher works on f and counts *)
(* it in only when it has room (PrefetcherInOrder), and a reader that got past *)
(* its wait is at a buffer below f (ReadersBehind).  That each byte belongs to *)
(* one request, and each request to one reader (ReadersInOrder), is what keeps *)
(* two readers from counting a byte twice.                                  *)
EXTENDS ReadOnceBufferCache, FiniteSetTheorems, TLAPS

(* The addresses that are read through the cache.                           *)
Stream == robc_cache_start_address .. StreamSize - 1

(* Multiplication by the size of a buffer keeps the order.                  *)
LEMMA TimesIsMonotonic ==
  ASSUME NEW x \in Int, NEW y \in Int, x <= y, NEW b \in Nat
  PROVE  x * b <= y * b
OBVIOUS

(* An address lies in the buffer of its key.                                *)
LEMMA KeyBounds ==
  ASSUME NEW a \in Nat
  PROVE  /\ Key(a) \in Nat
         /\ Key(a) * robc_buffer_size <= a
         /\ a < Key(a) * robc_buffer_size + robc_buffer_size
BY SizesAssumption DEF Key

(* It lies in no other buffer.                                              *)
LEMMA KeyIsUnique ==
  ASSUME NEW a \in Nat, NEW k \in Nat,
         k * robc_buffer_size <= a, a < k * robc_buffer_size + robc_buffer_size
  PROVE  Key(a) = k
<1> DEFINE b == robc_buffer_size
<1>0. b \in Nat \ {0}
  BY SizesAssumption
<1>1. Key(a) \in Nat /\ Key(a) * b <= a /\ a < Key(a) * b + b
  BY KeyBounds
<1>2. ASSUME Key(a) < k PROVE FALSE
  <2>1. (Key(a) + 1) * b <= k * b
    BY <1>0, <1>1, <1>2, TimesIsMonotonic
  <2> QED BY <2>1, <1>0, <1>1
<1>3. ASSUME k < Key(a) PROVE FALSE
  <2>1. (k + 1) * b <= Key(a) * b
    BY <1>0, <1>1, <1>3, TimesIsMonotonic
  <2> QED BY <2>1, <1>0, <1>1
<1> QED BY <1>1, <1>2, <1>3

(* A buffer holds finitely many bytes.                                      *)
LEMMA BytesAreFinite ==
  ASSUME NEW k
  PROVE  /\ Bytes(k) \subseteq Stream
         /\ IsFiniteSet(Bytes(k))
         /\ \A T \in SUBSET Bytes(k) :
              /\ IsFiniteSet(T) /\ Cardinality(T) \in Nat
              /\ Cardinality(T) = 0 <=> T = {}
<1>1. IsFiniteSet(Stream)
  BY FS_Interval, SizesAssumption DEF Stream
<1>2. Bytes(k) \subseteq Stream
  BY DEF Bytes, Stream
<1>3. IsFiniteSet(Bytes(k))
  BY <1>1, <1>2, FS_Subset
<1>4. ASSUME NEW T \in SUBSET Bytes(k)
      PROVE  /\ IsFiniteSet(T) /\ Cardinality(T) \in Nat
             /\ Cardinality(T) = 0 <=> T = {}
  BY <1>3, FS_Subset, FS_CardinalityType, FS_EmptySet
<1> QED BY <1>2, <1>3, <1>4

(* What one turn of the loop of read_exact copies is the bytes from where   *)
(* the reader is: at least one, and none beyond the end of the slice.       *)
LEMMA CopiesAnInterval ==
  ASSUME NEW pos \in Stream, NEW end \in Nat, pos < end, end <= StreamSize
  PROVE  LET C == {a \in Bytes(Key(pos)) : pos <= a /\ a < end}
             n == Cardinality(C)
         IN  /\ n \in Nat /\ 0 < n /\ pos + n <= end
             /\ C = pos .. pos + n - 1
<1> DEFINE b == robc_buffer_size
           k == Key(pos)
           C == {a \in Bytes(k) : pos <= a /\ a < end}
           last == IF end <= k * b + b THEN end - 1 ELSE k * b + b - 1
<1>0. /\ b \in Nat /\ StreamSize \in Nat /\ robc_cache_start_address \in Nat
      /\ pos \in Nat /\ robc_cache_start_address <= pos
  BY SizesAssumption DEF Stream
<1>1. k \in Nat /\ k * b <= pos /\ pos < k * b + b
  BY <1>0, KeyBounds
<1>2. k * b \in Nat /\ last \in Nat /\ pos <= last /\ last < end
  BY <1>0, <1>1
<1>3. ASSUME NEW a \in C PROVE a \in pos .. last
  <2>1. a \in Nat /\ Key(a) = k /\ pos <= a /\ a < end
    BY <1>0 DEF Bytes
  <2>2. a < k * b + b
    BY <2>1, KeyBounds
  <2> HIDE DEF k, C
  <2> QED BY <2>1, <2>2, <1>0, <1>1, <1>2
<1>4. ASSUME NEW a \in pos .. last PROVE a \in C
  <2>1. a \in Nat /\ pos <= a /\ a < end /\ a < k * b + b /\ k * b <= a
    <3> HIDE DEF k
    <3> QED BY <1>0, <1>1, <1>2
  <2>2. Key(a) = k
    BY <2>1, <1>1, KeyIsUnique
  <2>3. a \in robc_cache_start_address .. StreamSize - 1
    <3> HIDE DEF k, last, C
    <3> QED BY <2>1, <1>0
  <2> QED BY <2>1, <2>2, <2>3 DEF Bytes
<1>5. C = pos .. last
  <2> HIDE DEF C, last
  <2> QED BY <1>3, <1>4, Zenon
<1>6. Cardinality(C) = last - pos + 1
  <2> HIDE DEF C, last
  <2> QED BY <1>5, <1>2, <1>0, FS_Interval
<1> HIDE DEF C, last, k
<1>7. /\ Cardinality(C) \in Nat /\ 0 < Cardinality(C) /\ pos + Cardinality(C) <= end
      /\ C = pos .. pos + Cardinality(C) - 1
  BY <1>0, <1>2, <1>5, <1>6
<1> QED BY <1>7 DEF C, k

(* Buffers are put in the order of their keys, so an empty one is the end   *)
(* of the stream.                                                           *)
LEMMA NothingAfterAnEmptyBuffer ==
  ASSUME NEW k \in Nat, FirstKey <= k, Bytes(k) = {}
  PROVE  \A a \in Stream : Key(a) < k
<1> DEFINE b == robc_buffer_size
           s == robc_cache_start_address
<1>0. b \in Nat \ {0} /\ s \in Nat /\ StreamSize \in Nat
  BY SizesAssumption
<1> SUFFICES ASSUME NEW a \in Stream, ~(Key(a) < k) PROVE FALSE
  OBVIOUS
<1>1. a \in Nat /\ s <= a /\ a < StreamSize
  BY <1>0 DEF Stream
<1>2. Key(a) \in Nat /\ Key(a) * b <= a /\ FirstKey \in Nat /\ s < FirstKey * b + b
  BY <1>0, <1>1, KeyBounds DEF FirstKey
<1>3. k * b <= a
  BY <1>0, <1>1, <1>2, TimesIsMonotonic
<1>4. CASE k = FirstKey
  <2>1. s \in Bytes(k)
    BY <1>0, <1>1, <1>4 DEF Bytes, FirstKey
  <2> QED BY <2>1
<1>5. CASE FirstKey < k
  <2>1. (FirstKey + 1) * b <= k * b
    BY <1>0, <1>2, <1>5, TimesIsMonotonic
  <2>2. k * b \in Nat /\ s <= k * b /\ k * b < StreamSize
    BY <2>1, <1>0, <1>1, <1>2, <1>3
  <2>3. Key(k * b) = k
    BY <2>2, <1>0, KeyIsUnique
  <2>4. k * b \in Bytes(k)
    BY <2>2, <2>3, <1>0 DEF Bytes
  <2> QED BY <2>4
<1> QED BY <1>2, <1>4, <1>5

-----------------------------------------------------------------------------
(***************************************************************************)
(* The inductive invariant                                                 *)
(***************************************************************************)

(* A reader inside read_exact works on a request of its own, which is not   *)
(* served yet; what it copied last are the bytes of the buffer that it is   *)
(* at.                                                                      *)
ReadersInOrder ==
  \A r \in Readers :
    /\ reader[r].pc = "idle" => reader[r].req = 0
    /\ reader[r].pc # "idle" =>
         /\ reader[r].req \in taken \ finished
         /\ Requests[reader[r].req].first <= reader[r].pos
         /\ reader[r].pos < Requests[reader[r].req].end
         /\ \A q \in Readers : reader[q].req = reader[r].req => q = r
    /\ reader[r].pc \in {"update", "collect"} => reader[r].n = BytesToCopy(r)

(* f is the key of the first buffer that has not been put.  A buffer has a  *)
(* counter if and only if it was put and somebody has still to read from it.*)
Counting(f) ==
  /\ DOMAIN robcm_bytes_remaining = {k \in 0 .. f - 1 : Unaccounted(k) # {}}
  /\ \A k \in DOMAIN robcm_bytes_remaining :
       robcm_bytes_remaining[k] = Cardinality(Unaccounted(k))
  /\ \A a \in Stream : Accounted(a) => Key(a) < f

(* The prefetcher is at the first buffer that has not been put, and has been *)
(* given it only when there was room for one more.                          *)
PrefetcherInOrder(f) ==
  /\ f \in Nat /\ FirstKey <= f
  /\ prefetcher.pc \in {"get", "returned"} => f = robcm_next_key_to_fetch
  /\ prefetcher.pc \in {"fill", "insert", "put"} =>
       /\ f = prefetcher.key /\ robcm_next_key_to_fetch = f + 1
       /\ Cardinality(DOMAIN robcm_bytes_remaining) < robc_maximum_buffers_to_cache
  /\ prefetcher.pc = "put" =>
       (prefetcher.key \in robci_buffers <=> Bytes(prefetcher.key) # {})

(* A reader past the wait is at a buffer that has been put, also when the   *)
(* wait ended because the cache was done.                                   *)
ReadersBehind(f) ==
  /\ \A r \in Readers :
       reader[r].pc \in {"copy", "update", "collect"} => ReaderKey(r) < f
  /\ \A r \in Readers :
       reader[r].pc = "collect" => ReaderKey(r) \notin DOMAIN robcm_bytes_remaining
  /\ robcm_state = "Done" => finished = RequestIds \/ \A a \in Stream : Key(a) < f

(* The whole invariant.                                                     *)
CacheInv(f) ==
  /\ TypeOK /\ NeverFails /\ BuffersMatchCounters
  /\ ReadersInOrder /\ Counting(f) /\ PrefetcherInOrder(f) /\ ReadersBehind(f)

-----------------------------------------------------------------------------
(* The address up to which a reader has accounted for the bytes it reads.   *)
Reach(r) == reader[r].pos + (IF reader[r].pc = "collect" THEN reader[r].n ELSE 0)

(* A byte belongs to one request at most.                                   *)
LEMMA RequestsAreDisjoint ==
  /\ 0 \notin RequestIds
  /\ \A i \in RequestIds :
       /\ Requests[i].first \in Nat /\ Requests[i].end \in Nat
       /\ robc_cache_start_address <= Requests[i].first
       /\ Requests[i].first < Requests[i].end
       /\ Requests[i].end <= StreamSize
  /\ \A i, j \in RequestIds : \A a \in Nat :
       /\ Requests[i].first <= a /\ a < Requests[i].end
       /\ Requests[j].first <= a /\ a < Requests[j].end
       => i = j
<1> DEFINE Read == [header : BOOLEAN, first : Nat, end : Nat]
<1>1. RequestIds = 1 .. Len(Requests) /\ Len(Requests) \in Nat
  <2>1. Requests \in Seq(Read)
    BY RequestsAssumption
  <2> HIDE DEF Read
  <2> QED BY <2>1 DEF RequestIds
<1>2. ASSUME NEW i \in RequestIds
      PROVE  Requests[i].first \in Nat /\ Requests[i].end \in Nat
  <2>1. Requests \in Seq(Read)
    BY RequestsAssumption
  <2>2. Requests[i] \in Read
    <3> HIDE DEF Read
    <3> QED BY <2>1, <1>1
  <2> QED BY <2>2
<1>3. ASSUME NEW i \in RequestIds, NEW j \in RequestIds, NEW a \in Nat,
             Requests[i].first <= a, a < Requests[i].end,
             Requests[j].first <= a, a < Requests[j].end
      PROVE  ~(i < j)
  BY <1>2, <1>3, RequestsAssumption, SMTT(40)
<1>4. \A i, j \in RequestIds : i < j \/ j < i \/ i = j
  BY <1>1
<1>5. 0 \notin RequestIds
  BY <1>1
<1> HIDE DEF Read
<1> QED BY <1>2, <1>3, <1>4, <1>5, RequestsAssumption

(* Nobody but the reader of a request accounts for its bytes.               *)
LEMMA NotYetAccounted ==
  ASSUME TypeOK, ReadersInOrder, NEW r \in Readers, reader[r].pc # "idle",
         NEW a \in Nat, Reach(r) <= a, a < Requests[reader[r].req].end
  PROVE  ~Accounted(a)
<1> DEFINE i == reader[r].req
<1>1. /\ i \in taken /\ i \notin finished /\ taken \subseteq RequestIds
      /\ Requests[i].first <= reader[r].pos
      /\ \A q \in Readers : reader[q].req = i => q = r
      /\ reader[r].pos \in Nat /\ reader[r].n \in Nat
  BY DEF ReadersInOrder, TypeOK
<1>2. Requests[i].first <= a
  BY <1>1, RequestsAreDisjoint DEF Reach
<1>3. ASSUME NEW j \in taken, Requests[j].first <= a, a < Requests[j].end PROVE j = i
  BY <1>1, <1>2, <1>3, RequestsAreDisjoint
<1>4. ~(a < Reach(r))
  BY <1>1 DEF Reach
<1> HIDE DEF i
<1> QED BY <1>1, <1>3, <1>4 DEF Accounted, Reach, i

(* A reader moves on to m inside its request, or is done with it.           *)
MovesTo(r, m) ==
  /\ taken' = taken
  /\ \A q \in Readers \ {r} : reader'[q] = reader[q]
  /\ \/ /\ finished' = finished
        /\ reader'[r].req = reader[r].req
        /\ Reach(r)' = m
     \/ /\ finished' = finished \union {reader[r].req}
        /\ reader'[r].req = 0
        /\ Requests[reader[r].req].end = m

(* It then accounts for the bytes up to m, and nothing else changes.        *)
LEMMA MovingAccounts ==
  ASSUME TypeOK, ReadersInOrder, NEW r \in Readers, reader[r].pc # "idle",
         NEW m \in Nat, Reach(r) <= m, m <= Requests[reader[r].req].end, MovesTo(r, m)
  PROVE  \A a \in Nat : Accounted(a)' <=> Accounted(a) \/ (Reach(r) <= a /\ a < m)
<1> SUFFICES ASSUME NEW a \in Nat
             PROVE  Accounted(a)' <=> Accounted(a) \/ (Reach(r) <= a /\ a < m)
  OBVIOUS
<1> DEFINE i == reader[r].req
           In(j) == Requests[j].first <= a /\ a < Requests[j].end
           Done(j) == j \in finished \/ \E q \in Readers : reader[q].req = j /\ a < Reach(q)
           DoneNext(j) == j \in finished' \/ \E q \in Readers : reader'[q].req = j /\ a < Reach(q)'
<1>1. /\ i \in taken /\ i \notin finished /\ taken \subseteq RequestIds
      /\ Requests[i].first <= reader[r].pos
      /\ \A q \in Readers : reader[q].req = i => q = r
      /\ reader[r].pos \in Nat /\ reader[r].n \in Nat
      /\ taken' = taken
  BY DEF ReadersInOrder, TypeOK, MovesTo
<1>2. Accounted(a) <=> \E j \in taken : In(j) /\ Done(j)
  BY DEF Accounted, Reach
<1>3. Accounted(a)' <=> \E j \in taken : In(j) /\ DoneNext(j)
  BY <1>1 DEF Accounted, Reach
<1>4. ASSUME NEW q \in Readers \ {r} PROVE reader'[q].req = reader[q].req /\ Reach(q)' = Reach(q)
  BY DEF MovesTo, Reach
<1>5. ASSUME NEW j \in taken, j # i PROVE DoneNext(j) <=> Done(j)
  <2>1. j # 0 /\ (j \in finished' <=> j \in finished)
    BY <1>1, <1>5, RequestsAreDisjoint, SMTT(40) DEF MovesTo
  <2>2. reader'[r].req # j /\ reader[r].req # j
    BY <2>1, <1>5 DEF MovesTo
  <2> QED BY <2>1, <2>2, <1>4, SMTT(40)
<1>6. Done(i) <=> a < Reach(r)
  BY <1>1, Zenon
<1>7. In(i) => (DoneNext(i) <=> a < m)
  <2>1. CASE finished' = finished /\ reader'[r].req = i /\ Reach(r)' = m
    BY <2>1, <1>1, <1>4
  <2>2. CASE finished' = finished \union {i} /\ Requests[i].end = m
    BY <2>2
  <2> QED BY <2>1, <2>2, SMTT(40) DEF MovesTo
<1>8. Reach(r) <= a /\ a < m => In(i)
  BY <1>1, RequestsAreDisjoint, SMTT(40) DEF Reach
<1>9. Reach(r) \in Nat
  BY <1>1 DEF Reach
<1>10. CASE \E j \in taken : j # i /\ In(j) /\ Done(j)
  <2>1. Accounted(a) /\ Accounted(a)'
    BY <1>10, <1>2, <1>3, <1>5, SMTT(40)
  <2> QED BY <2>1
<1>11. CASE ~\E j \in taken : j # i /\ In(j) /\ Done(j)
  <2>1. Accounted(a) <=> In(i) /\ a < Reach(r)
    <3> HIDE DEF In, Done, i
    <3> QED BY <1>11, <1>1, <1>2, <1>6, SMTT(40)
  <2>2. Accounted(a)' <=> In(i) /\ a < m
    <3> HIDE DEF In, Done, DoneNext, i
    <3> QED BY <1>11, <1>1, <1>3, <1>5, <1>7
  <2> HIDE DEF In, i
  <2> QED BY <2>1, <2>2, <1>8, <1>9, SMTT(40)
<1> QED BY <1>10, <1>11

(* The bytes without an account change with the accounts.                   *)
LEMMA AccountsOfBuffers ==
  ASSUME NEW C, \A a \in Stream : Accounted(a)' <=> Accounted(a) \/ a \in C
  PROVE  \A k : Unaccounted(k)' = Unaccounted(k) \ C
<1> TAKE k
<1>1. Bytes(k) \subseteq Stream
  BY BytesAreFinite
<1>2. Unaccounted(k)' = {a \in Bytes(k) : ~Accounted(a)'}
  BY DEF Unaccounted, Bytes, Key
<1> QED BY <1>1, <1>2 DEF Unaccounted

(* A step that accounts for nothing and leaves the counters keeps them.     *)
LEMMA NothingCounted ==
  ASSUME NEW f, Counting(f), UNCHANGED robcm_bytes_remaining,
         \A a \in Stream : Accounted(a)' <=> Accounted(a)
  PROVE  Counting(f)'
<1>1. \A a \in Stream : Accounted(a)' <=> Accounted(a) \/ a \in {}
  OBVIOUS
<1>2. \A k : Unaccounted(k)' = Unaccounted(k) \ {}
  BY <1>1, AccountsOfBuffers, Zenon
<1>3. Stream' = Stream /\ \A a : Key(a)' = Key(a)
  BY DEF Stream, Key
<1> QED BY <1>2, <1>3 DEF Counting

-----------------------------------------------------------------------------
(***************************************************************************)
(* The steps of the prefetcher                                             *)
(***************************************************************************)

(* What readers do not change about themselves stays in order.              *)
LEMMA ReadersUnchanged ==
  ASSUME NEW f, ReadersInOrder, NeverFails, UNCHANGED <<reader, taken, finished>>
  PROVE  /\ ReadersInOrder' /\ NeverFails'
         /\ \A a : Accounted(a)' <=> Accounted(a)
         /\ \A r : ReaderKey(r)' = ReaderKey(r)
         /\ UNCHANGED robcm_bytes_remaining /\ Counting(f) => Counting(f)'
<1>1. \A r : ReaderKey(r)' = ReaderKey(r) /\ BytesToCopy(r)' = BytesToCopy(r)
  BY DEF ReaderKey, Key, BytesToCopy, Bytes
<1>2. ReadersInOrder' /\ NeverFails'
  BY <1>1 DEF ReadersInOrder, NeverFails
<1>3. \A a : Accounted(a)' <=> Accounted(a)
  BY DEF Accounted
<1>4. UNCHANGED robcm_bytes_remaining /\ Counting(f) => Counting(f)'
  BY <1>3, NothingCounted
<1> QED BY <1>1, <1>2, <1>3, <1>4

(* A thread that blocks or wakes up changes a wait set only.                *)
LEMMA WaitingKeepsInv ==
  ASSUME NEW f, CacheInv(f),
         robc_reader_wait_cv' \subseteq Readers, robc_prefetcher_wait_cv' \in BOOLEAN,
         UNCHANGED <<settings, robci_buffers, metadata, prefetcher, reader, taken, finished>>
  PROVE  CacheInv(f)'
<1> USE DEF settings, metadata
<1>1. ReadersInOrder' /\ NeverFails' /\ Counting(f)' /\ \A r : ReaderKey(r)' = ReaderKey(r)
  BY ReadersUnchanged DEF CacheInv
<1>2. TypeOK'
  BY DEF CacheInv, TypeOK
<1>3. BuffersMatchCounters'
  BY <1>1 DEF CacheInv, BuffersMatchCounters
<1>4. PrefetcherInOrder(f)'
  BY DEF CacheInv, PrefetcherInOrder, FirstKey, Key, Bytes
<1>5. ReadersBehind(f)'
  BY <1>1 DEF CacheInv, ReadersBehind, Stream, Key
<1> QED BY <1>1, <1>2, <1>3, <1>4, <1>5, SMTT(40) DEF CacheInv

(* The prefetcher goes on with the buffer that it has.                      *)
LEMMA PrefetcherMoves ==
  ASSUME TypeOK, NEW pc \in {"get", "fill", "insert", "put", "returned", "error",
                             "put_while_done"},
         PrefetcherGoes(pc)
  PROVE  /\ prefetcher'.pc = pc /\ prefetcher'.key = prefetcher.key
         /\ prefetcher' \in [pc : {"get", "fill", "insert", "put", "returned", "error",
                                   "put_while_done"},
                             key : Nat]
BY Zenon DEF TypeOK, PrefetcherGoes

(* It leaves the loop, or goes on to insert what it has read.               *)
LEMMA PrefetcherLeaves ==
  ASSUME NEW f, CacheInv(f), NEW pc \in {"insert", "returned", "error", "put_while_done"},
         PrefetcherGoes(pc),
         pc = "insert" => prefetcher.pc = "fill",
         pc = "returned" => prefetcher.pc = "get",
         pc = "put_while_done" => prefetcher.pc = "put",
         UNCHANGED <<settings, robci_buffers, metadata, robc_reader_wait_cv,
                     robc_prefetcher_wait_cv, reader, taken, finished>>
  PROVE  CacheInv(f)'
<1> USE DEF settings, metadata
<1>1. ReadersInOrder' /\ NeverFails' /\ Counting(f)' /\ \A r : ReaderKey(r)' = ReaderKey(r)
  BY ReadersUnchanged DEF CacheInv
<1>2. /\ prefetcher'.pc = pc /\ prefetcher'.key = prefetcher.key
      /\ prefetcher' \in [pc : {"get", "fill", "insert", "put", "returned", "error",
                                "put_while_done"},
                          key : Nat]
  BY PrefetcherMoves, SMTT(40) DEF CacheInv
<1>3. TypeOK'
  BY <1>2 DEF CacheInv, TypeOK
<1>4. prefetcher.pc \in {"put", "put_while_done", "error"} => 
        prefetcher'.pc \in {"put", "put_while_done", "error"}
  BY <1>2, SMTT(40)
<1>5. BuffersMatchCounters'
  BY <1>1, <1>2, <1>4 DEF CacheInv, BuffersMatchCounters
<1>6. PrefetcherInOrder(f)'
  BY <1>2 DEF CacheInv, PrefetcherInOrder, FirstKey, Key, Bytes
<1>7. ReadersBehind(f)'
  BY <1>1 DEF CacheInv, ReadersBehind, Stream, Key
<1> QED BY <1>1, <1>3, <1>5, <1>6, <1>7 DEF CacheInv

(* There are finitely many counters.                                        *)
LEMMA CountersAreFinite ==
  ASSUME NEW f \in Nat, Counting(f)
  PROVE  /\ IsFiniteSet(DOMAIN robcm_bytes_remaining)
         /\ Cardinality(DOMAIN robcm_bytes_remaining) \in Nat
         /\ f \notin DOMAIN robcm_bytes_remaining
<1>1. DOMAIN robcm_bytes_remaining \subseteq 0 .. f - 1
  BY DEF Counting
<1>2. IsFiniteSet(0 .. f - 1)
  BY FS_Interval
<1>3. IsFiniteSet(DOMAIN robcm_bytes_remaining)
  BY <1>1, <1>2, FS_Subset, SMTT(40)
<1> QED BY <1>1, <1>3, FS_CardinalityType

(* get_buffer_to_fill hands out the next key, when there is room for it.    *)
LEMMA GetBufferToFillKeepsInv ==
  ASSUME NEW f \in Nat, CacheInv(f), GetBufferToFill
  PROVE  CacheInv(f)'
<1> USE DEF settings, metadata, GetBufferToFill, PrefetcherAt
<1>1. ReadersInOrder' /\ NeverFails' /\ Counting(f)' /\ \A r : ReaderKey(r)' = ReaderKey(r)
  BY ReadersUnchanged DEF CacheInv
<1>2. /\ prefetcher.pc = "get" /\ f = robcm_next_key_to_fetch
      /\ prefetcher'.pc = "fill" /\ prefetcher'.key = f
      /\ robcm_next_key_to_fetch' = f + 1
  BY DEF CacheInv, PrefetcherInOrder
<1>3. TypeOK'
  BY <1>2 DEF CacheInv, TypeOK
<1>4. Cardinality(DOMAIN robcm_bytes_remaining) < robc_maximum_buffers_to_cache
  BY CountersAreFinite, SMTT(40) DEF CacheInv, BuffersMatchCounters, TypeOK, Full
<1>5. BuffersMatchCounters'
  BY <1>1, <1>2 DEF CacheInv, BuffersMatchCounters
<1>6. PrefetcherInOrder(f)'
  BY <1>2, <1>4, Zenon DEF CacheInv, PrefetcherInOrder, FirstKey, Key
<1>7. ReadersBehind(f)'
  BY <1>1 DEF CacheInv, ReadersBehind, Stream, Key
<1> QED BY <1>1, <1>3, <1>5, <1>6, <1>7 DEF CacheInv

(* The buffer is not in the cache yet: all that are were put before it.     *)
LEMMA InsertBufferKeepsInv ==
  ASSUME NEW f \in Nat, CacheInv(f), InsertBuffer
  PROVE  CacheInv(f)'
<1> USE DEF settings, metadata
<1>0. UNCHANGED <<settings, metadata, robc_reader_wait_cv, robc_prefetcher_wait_cv, reader, taken, finished>>
  BY DEF InsertBuffer
<1>1. ReadersInOrder' /\ NeverFails' /\ Counting(f)' /\ \A r : ReaderKey(r)' = ReaderKey(r)
  BY <1>0, ReadersUnchanged DEF CacheInv
<1>2. /\ prefetcher.pc = "insert" /\ f = prefetcher.key
      /\ robcm_next_key_to_fetch = f + 1
      /\ Cardinality(DOMAIN robcm_bytes_remaining) < robc_maximum_buffers_to_cache
  BY SMTT(40) DEF CacheInv, PrefetcherInOrder, InsertBuffer, PrefetcherAt
<1>3. f \notin robci_buffers
  <2>1. f \notin DOMAIN robcm_bytes_remaining
    BY CountersAreFinite, SMTT(40) DEF CacheInv
  <2>2. \A r \in Readers : reader[r].pc = "collect" => ReaderKey(r) # f
    <3>1. ASSUME NEW r \in Readers, reader[r].pc = "collect", ReaderKey(r) = f PROVE FALSE
      BY <3>1 DEF CacheInv, ReadersBehind
    <3> QED BY <3>1, SMTT(40)
  <2> QED BY <2>1, <2>2, <1>2, SMTT(40) DEF CacheInv, BuffersMatchCounters
<1>4. /\ PrefetcherGoes("put")
      /\ robci_buffers' = IF Bytes(f) = {} THEN robci_buffers ELSE robci_buffers \union {f}
  BY <1>2, <1>3, SMTT(40) DEF InsertBuffer
<1>5. /\ prefetcher'.pc = "put" /\ prefetcher'.key = f
      /\ prefetcher' \in [pc : {"get", "fill", "insert", "put", "returned", "error",
                                "put_while_done"},
                          key : Nat]
  BY <1>2, <1>4, PrefetcherMoves, SMTT(40) DEF CacheInv
<1>6. TypeOK'
  BY <1>0, <1>4, <1>5, Zenon DEF CacheInv, TypeOK
<1>7. BuffersMatchCounters'
  BY <1>0, <1>1, <1>2, <1>4, <1>5, SMTT(40) DEF CacheInv, BuffersMatchCounters
<1>8. Bytes(f)' = Bytes(f) /\ (f \in robci_buffers' <=> Bytes(f) # {})
  BY <1>3, <1>4, SMTT(40) DEF Bytes, Key
<1>9. PrefetcherInOrder(f)'
  BY <1>0, <1>2, <1>5, <1>8, SMTT(40) DEF CacheInv, PrefetcherInOrder, FirstKey, Key
<1>10. ReadersBehind(f)'
  BY <1>0, <1>1 DEF CacheInv, ReadersBehind, Stream, Key
<1> QED BY <1>1, <1>6, <1>7, <1>9, <1>10, SMTT(40) DEF CacheInv

(* The new counter is the size of the buffer: nobody has read from it.      *)
LEMMA PutBufferKeepsInv ==
  ASSUME NEW f \in Nat, CacheInv(f), PutBuffer
  PROVE  CacheInv(f + 1)'
<1> USE DEF settings, metadata
<1>0. /\ UNCHANGED <<settings, robci_buffers, robcm_next_key_to_fetch,
                    robc_prefetcher_wait_cv, reader, taken, finished>>
      /\ robc_reader_wait_cv' = {} /\ robcm_state = "Running" /\ PrefetcherGoes("get")
  BY DEF PutBuffer, NotifyAll
<1>1. /\ ReadersInOrder' /\ NeverFails' /\ \A r : ReaderKey(r)' = ReaderKey(r)
      /\ \A a : Accounted(a)' <=> Accounted(a)
  BY <1>0, ReadersUnchanged, SMTT(40) DEF CacheInv
<1>2. /\ prefetcher.pc = "put" /\ f = prefetcher.key
      /\ robcm_next_key_to_fetch = f + 1
      /\ Cardinality(DOMAIN robcm_bytes_remaining) < robc_maximum_buffers_to_cache
      /\ f \in robci_buffers <=> Bytes(f) # {}
      /\ FirstKey <= f
  BY DEF CacheInv, PrefetcherInOrder, PutBuffer, PrefetcherAt
<1>3. /\ prefetcher'.pc = "get"
      /\ prefetcher' \in [pc : {"get", "fill", "insert", "put", "returned", "error",
                                "put_while_done"},
                          key : Nat]
  BY <1>0, PrefetcherMoves DEF CacheInv
<1>4. \A k : Unaccounted(k)' = Unaccounted(k)
  BY <1>1 DEF Unaccounted, Bytes, Key
<1>5. Unaccounted(f) = Bytes(f)
  <2>1. ASSUME NEW a \in Bytes(f), Accounted(a) PROVE FALSE
    <3>1. a \in Stream /\ Key(a) = f
      BY DEF Bytes, Stream
    <3>2. Key(a) < f
      BY <3>1, <2>1 DEF CacheInv, Counting
    <3> QED BY <3>1, <3>2
  <2> QED BY <2>1 DEF Unaccounted
<1>6. f \notin DOMAIN robcm_bytes_remaining /\ IsFiniteSet(DOMAIN robcm_bytes_remaining)
      /\ Cardinality(DOMAIN robcm_bytes_remaining) \in Nat
  BY CountersAreFinite, Zenon DEF CacheInv
<1>7. \A r \in Readers : reader[r].pc \in {"copy", "update", "collect"} =>
        ReaderKey(r) < f + 1 /\ ReaderKey(r) # f
  <2>1. \A r \in Readers : ReaderKey(r) \in Nat
    BY KeyBounds, SMTT(40) DEF CacheInv, TypeOK, ReaderKey
  <2> QED BY <2>1 DEF CacheInv, ReadersBehind
<1>8. CASE Bytes(f) = {}
  <2>1. robcm_bytes_remaining' = Without(robcm_bytes_remaining, f) /\ robcm_state' = "Done"
    BY <1>2, <1>8 DEF PutBuffer
  <2>2. /\ DOMAIN robcm_bytes_remaining' = DOMAIN robcm_bytes_remaining
        /\ \A k \in DOMAIN robcm_bytes_remaining :
             robcm_bytes_remaining'[k] = robcm_bytes_remaining[k]
    BY <2>1, <1>6 DEF Without
  <2>3. TypeOK'
    BY <1>0, <1>3, <2>1, <2>2, Zenon DEF CacheInv, TypeOK, PrimitiveState
  <2>4. BuffersMatchCounters'
    BY <1>0, <1>1, <1>2, <1>3, <1>8, <2>2, SMTT(40) DEF CacheInv, BuffersMatchCounters
  <2>5. \A a \in Stream : Key(a) < f /\ Key(a) < f + 1
    BY <1>2, <1>8, NothingAfterAnEmptyBuffer, KeyBounds, SizesAssumption, SMTT(40) DEF Stream
  <2>6. DOMAIN robcm_bytes_remaining = {k \in 0 .. f : Unaccounted(k) # {}}
    BY <1>5, <1>8 DEF CacheInv, Counting
  <2>7. Counting(f + 1)'
    BY <1>1, <1>4, <2>2, <2>5, <2>6 DEF CacheInv, Counting, Stream, Key
  <2>8. PrefetcherInOrder(f + 1)'
    BY <1>0, <1>2, <1>3, KeyBounds, SizesAssumption, SMTT(40) DEF PrefetcherInOrder, FirstKey, Key
  <2>9. ReadersBehind(f + 1)'
    BY <1>0, <1>1, <1>7, <2>2, <2>5, Zenon DEF CacheInv, ReadersBehind, Stream, Key
  <2> QED BY <1>1, <2>3, <2>4, <2>7, <2>8, <2>9, Zenon DEF CacheInv
<1>9. CASE Bytes(f) # {}
  <2>1. /\ robcm_bytes_remaining' = With(robcm_bytes_remaining, f, Cardinality(Bytes(f)))
        /\ robcm_state' = robcm_state
    BY <1>2, <1>9 DEF PutBuffer
  <2>2. /\ DOMAIN robcm_bytes_remaining' = DOMAIN robcm_bytes_remaining \union {f}
        /\ \A k \in DOMAIN robcm_bytes_remaining :
             robcm_bytes_remaining'[k] = robcm_bytes_remaining[k]
        /\ robcm_bytes_remaining'[f] = Cardinality(Unaccounted(f))
    BY <2>1, <1>5, <1>6 DEF With
  <2>3. Cardinality(Unaccounted(f)) \in Nat
    BY <1>5, BytesAreFinite
  <2>4. TypeOK'
    BY <1>0, <1>3, <2>1, <2>2, <2>3, Zenon DEF CacheInv, TypeOK, PrimitiveState
  <2>5. Cardinality(DOMAIN robcm_bytes_remaining') <= robc_maximum_buffers_to_cache
    <3>1. robc_maximum_buffers_to_cache \in Nat
      BY SMTT(40) DEF CacheInv, TypeOK
    <3> QED BY <3>1, <1>2, <1>6, <2>2, FS_AddElement
  <2>6. BuffersMatchCounters'
    BY <1>0, <1>1, <1>2, <1>3, <1>9, <2>2, <2>5, Zenon DEF CacheInv, BuffersMatchCounters
  <2>7. Counting(f + 1)'
    <3>1. DOMAIN robcm_bytes_remaining' = {k \in 0 .. f : Unaccounted(k) # {}}
      BY <1>5, <1>9, <2>2, SMTT(40) DEF CacheInv, Counting
    <3>2. \A k \in DOMAIN robcm_bytes_remaining' :
            robcm_bytes_remaining'[k] = Cardinality(Unaccounted(k))
      BY <2>2 DEF CacheInv, Counting
    <3>3. \A a \in Stream : Accounted(a) => Key(a) < f + 1
      BY KeyBounds, SizesAssumption, SMTT(40) DEF CacheInv, Counting, Stream
    <3> QED BY <1>1, <1>4, <3>1, <3>2, <3>3, SMTT(40) DEF Counting, Stream, Key
  <2>8. PrefetcherInOrder(f + 1)'
    BY <1>0, <1>2, <1>3, KeyBounds, SizesAssumption DEF PrefetcherInOrder, FirstKey, Key
  <2>9. ReadersBehind(f + 1)'
    BY <1>0, <1>1, <1>7, <2>1, <2>2 DEF ReadersBehind, CacheInv, Stream, Key
  <2> QED BY <1>1, <2>4, <2>6, <2>7, <2>8, <2>9 DEF CacheInv
<1> QED BY <1>8, <1>9

(* Every step of prefetcher_loop keeps the invariant.                       *)
LEMMA PrefetchKeepsInv ==
  ASSUME NEW f \in Nat, CacheInv(f), Prefetch
  PROVE  \E g \in Nat : CacheInv(g)'
<1>1. CASE GetBufferWait
  <2>1. robc_reader_wait_cv \subseteq Readers
    BY DEF CacheInv, TypeOK
  <2> QED BY <1>1, <2>1, WaitingKeepsInv DEF GetBufferWait
<1>2. CASE GetBufferToFill
  BY <1>2, GetBufferToFillKeepsInv
<1>3. CASE GetBufferHalted
  <2> DEFINE pc == IF robcm_state = "Aborted" THEN "error" ELSE "returned"
  <2>1. pc \in {"error", "returned"} /\ PrefetcherGoes(pc) /\ prefetcher.pc = "get"
    BY <1>3 DEF GetBufferHalted, PrefetcherAt
  <2>2. UNCHANGED <<settings, robci_buffers, metadata, robc_reader_wait_cv,
                    robc_prefetcher_wait_cv, reader, taken, finished>>
    BY <1>3 DEF GetBufferHalted
  <2> HIDE DEF pc
  <2> QED BY <2>1, <2>2, PrefetcherLeaves
<1>4. CASE FillReadBuffer
  <2>1. prefetcher.pc = "fill" /\ (PrefetcherGoes("insert") \/ PrefetcherGoes("error"))
    BY <1>4 DEF FillReadBuffer, PrefetcherAt
  <2>2. UNCHANGED <<settings, robci_buffers, metadata, robc_reader_wait_cv,
                    robc_prefetcher_wait_cv, reader, taken, finished>>
    BY <1>4 DEF FillReadBuffer
  <2> QED BY <2>1, <2>2, PrefetcherLeaves
<1>5. CASE InsertBuffer
  BY <1>5, InsertBufferKeepsInv
<1>6. CASE PutBuffer
  BY <1>6, PutBufferKeepsInv
<1>7. CASE PutBufferHalted
  <2> DEFINE pc == IF robcm_state = "Aborted" THEN "error" ELSE "put_while_done"
  <2>1. pc \in {"error", "put_while_done"} /\ PrefetcherGoes(pc) /\ prefetcher.pc = "put"
    BY <1>7 DEF PutBufferHalted, PrefetcherAt
  <2>2. UNCHANGED <<settings, robci_buffers, metadata, robc_reader_wait_cv,
                    robc_prefetcher_wait_cv, reader, taken, finished>>
    BY <1>7 DEF PutBufferHalted
  <2> HIDE DEF pc
  <2> QED BY <2>1, <2>2, PrefetcherLeaves
<1> QED BY <1>1, <1>2, <1>3, <1>4, <1>5, <1>6, <1>7 DEF Prefetch

(* halt() finds every request served, or makes the readers give up.         *)
LEMMA HaltKeepsInv ==
  ASSUME NEW f \in Nat, CacheInv(f), NEW unplanned \in BOOLEAN, Halt(unplanned)
  PROVE  CacheInv(f)'
<1> USE DEF settings, metadata
<1>0. /\ UNCHANGED <<robc_maximum_buffers_to_cache, robci_buffers, robcm_bytes_remaining,
                     robcm_next_key_to_fetch, prefetcher, reader, taken, finished>>
      /\ robcm_state' \in PrimitiveState
      /\ robcm_state' = "Done" => finished = RequestIds
      /\ robc_reader_wait_cv' = {} /\ robc_prefetcher_wait_cv' = FALSE
  BY DEF Halt, HaltedState, PrimitiveState, NotifyAll
<1>1. ReadersInOrder' /\ NeverFails' /\ Counting(f)' /\ \A r : ReaderKey(r)' = ReaderKey(r)
  BY <1>0, ReadersUnchanged, SMTT(40) DEF CacheInv
<1>2. TypeOK'
  BY <1>0, ZenonT(40) DEF CacheInv, TypeOK
<1>3. BuffersMatchCounters'
  BY <1>0, <1>1 DEF CacheInv, BuffersMatchCounters
<1>4. PrefetcherInOrder(f)'
  BY <1>0 DEF CacheInv, PrefetcherInOrder, FirstKey, Key, Bytes
<1>5. ReadersBehind(f)'
  BY <1>0, <1>1, Zenon DEF CacheInv, ReadersBehind
<1> QED BY <1>1, <1>2, <1>3, <1>4, <1>5, SMTT(40) DEF CacheInv

-----------------------------------------------------------------------------
(***************************************************************************)
(* The steps of the readers                                                *)
(***************************************************************************)

(* A reader is at a byte of the stream, and what it copies next are bytes   *)
(* of its request that the buffer has.                                      *)
LEMMA ReaderIsInTheStream ==
  ASSUME TypeOK, ReadersInOrder, NEW r \in Readers, reader[r].pc # "idle"
  PROVE  /\ reader[r].req \in RequestIds
         /\ reader[r].pos \in Stream
         /\ reader[r].pos \in Nat
         /\ ReaderKey(r) \in Nat
         /\ reader[r].pos \in Bytes(ReaderKey(r))
         /\ Requests[reader[r].req].end \in Nat
         /\ BytesToCopy(r) \in Nat /\ 0 < BytesToCopy(r)
         /\ reader[r].pos + BytesToCopy(r) <= Requests[reader[r].req].end
         /\ reader[r].pos .. reader[r].pos + BytesToCopy(r) - 1 \subseteq Bytes(ReaderKey(r))
<1> DEFINE i == reader[r].req
           pos == reader[r].pos
           end == Requests[i].end
<1>1. /\ i \in RequestIds /\ pos \in Nat /\ Requests[i].first <= pos /\ pos < end
  BY Zenon DEF TypeOK, ReadersInOrder
<1>2. /\ end \in Nat /\ end <= StreamSize /\ robc_cache_start_address <= pos
      /\ StreamSize \in Nat /\ robc_cache_start_address \in Nat
  BY <1>1, RequestsAreDisjoint, SizesAssumption
<1>3. pos \in Stream
  <2> HIDE DEF end, pos, i
  <2> QED BY <1>1, <1>2 DEF Stream
<1>4. ReaderKey(r) \in Nat /\ ReaderKey(r) = Key(pos)
  BY <1>1, KeyBounds, SMTT(40) DEF ReaderKey
<1>5. /\ BytesToCopy(r) \in Nat /\ 0 < BytesToCopy(r) /\ pos + BytesToCopy(r) <= end
      /\ {a \in Bytes(Key(pos)) : pos <= a /\ a < end} = pos .. pos + BytesToCopy(r) - 1
  BY <1>1, <1>2, <1>3, CopiesAnInterval, Zenon DEF BytesToCopy, ReaderKey
<1>6. pos \in Bytes(ReaderKey(r))
  BY <1>3, <1>4, Zenon DEF Bytes, Stream
<1>7. pos .. pos + BytesToCopy(r) - 1 \subseteq Bytes(ReaderKey(r))
  BY <1>4, <1>5, Zenon
<1> QED BY <1>1, <1>2, <1>3, <1>4, <1>5, <1>6, <1>7, Zenon

(* A buffer that was put and that a reader has still to read from is there, *)
(* with a counter.                                                          *)
LEMMA BufferIsThere ==
  ASSUME NEW f \in Nat, CacheInv(f), NEW r \in Readers,
         reader[r].pc \notin {"idle", "collect"}, ReaderKey(r) < f
  PROVE  ReaderKey(r) \in DOMAIN robcm_bytes_remaining /\ ReaderKey(r) \in robci_buffers
<1>1. TypeOK /\ ReadersInOrder
  BY DEF CacheInv
<1>2. reader[r].pos \in Nat /\ reader[r].pos \in Bytes(ReaderKey(r)) /\ ReaderKey(r) \in Nat
  BY <1>1, ReaderIsInTheStream, Zenon
<1>3. ~Accounted(reader[r].pos)
  <2>1. Reach(r) = reader[r].pos /\ reader[r].pos < Requests[reader[r].req].end
    BY <1>1, <1>2 DEF Reach, ReadersInOrder
  <2> QED BY <2>1, <1>1, <1>2, NotYetAccounted, SMTT(40)
<1>4. Unaccounted(ReaderKey(r)) # {}
  BY <1>2, <1>3 DEF Unaccounted
<1> QED BY <1>2, <1>4 DEF CacheInv, Counting, BuffersMatchCounters

(* What a reader is, at every point of read_exact.                          *)
ReaderRecord ==
  [pc : {"idle", "wait", "copy", "update", "collect", "aborted", "failed"},
   req : Nat, pos : Nat, n : Nat]

(* A reader goes to another lock.                                           *)
LEMMA ReaderChanges ==
  ASSUME reader \in [Readers -> ReaderRecord], NEW r \in Readers,
         NEW pc \in {"idle", "wait", "copy", "update", "collect", "aborted", "failed"},
         reader' = [reader EXCEPT ![r].pc = pc]
  PROVE  /\ reader' \in [Readers -> ReaderRecord]
         /\ \A q \in Readers \ {r} : reader'[q] = reader[q]
         /\ reader'[r].pc = pc /\ reader'[r].req = reader[r].req
         /\ reader'[r].pos = reader[r].pos /\ reader'[r].n = reader[r].n
BY Zenon DEF ReaderRecord

(* A reader notes what it has copied.                                       *)
LEMMA ReaderCopies ==
  ASSUME reader \in [Readers -> ReaderRecord], NEW r \in Readers,
         NEW pc \in {"idle", "wait", "copy", "update", "collect", "aborted", "failed"},
         NEW m \in Nat, reader' = [reader EXCEPT ![r].pc = pc, ![r].n = m]
  PROVE  /\ reader' \in [Readers -> ReaderRecord]
         /\ \A q \in Readers \ {r} : reader'[q] = reader[q]
         /\ reader'[r].pc = pc /\ reader'[r].req = reader[r].req
         /\ reader'[r].pos = reader[r].pos /\ reader'[r].n = m
BY Zenon DEF ReaderRecord

(* A reader goes on to another byte.                                        *)
LEMMA ReaderAdvances ==
  ASSUME reader \in [Readers -> ReaderRecord], NEW r \in Readers,
         NEW pc \in {"idle", "wait", "copy", "update", "collect", "aborted", "failed"},
         NEW m \in Nat, reader' = [reader EXCEPT ![r].pc = pc, ![r].pos = m]
  PROVE  /\ reader' \in [Readers -> ReaderRecord]
         /\ \A q \in Readers \ {r} : reader'[q] = reader[q]
         /\ reader'[r].pc = pc /\ reader'[r].req = reader[r].req
         /\ reader'[r].pos = m
BY Zenon DEF ReaderRecord

(* A reader starts on a request, or is done with one.                       *)
LEMMA ReaderReplaced ==
  ASSUME reader \in [Readers -> ReaderRecord], NEW r \in Readers,
         NEW new \in ReaderRecord, reader' = [reader EXCEPT ![r] = new]
  PROVE  /\ reader' \in [Readers -> ReaderRecord] /\ reader'[r] = new
         /\ \A q \in Readers \ {r} : reader'[q] = reader[q]
BY Zenon

(* A reader inside read_exact has still to read from its request.           *)
LEMMA ReaderReadsOn ==
  ASSUME TypeOK, ReadersInOrder, NEW r \in Readers, reader[r].pc # "idle"
  PROVE  /\ reader[r].req # 0 /\ reader[r].pos \in Nat /\ reader[r].n \in Nat
         /\ Requests[reader[r].req].end \in Nat
         /\ reader[r].pos < Requests[reader[r].req].end
         /\ reader[r].pos <= reader[r].pos /\ reader[r].pos <= Requests[reader[r].req].end
<1>1. reader[r].req \in RequestIds /\ reader[r].pos \in Nat /\ Requests[reader[r].req].end \in Nat
  BY ReaderIsInTheStream, Zenon
<1>2. reader[r].req # 0
  BY <1>1, RequestsAreDisjoint, Zenon
<1>3. reader[r].pos < Requests[reader[r].req].end
  BY Zenon DEF ReadersInOrder
<1>4. reader[r].n \in Nat
  BY Zenon DEF TypeOK
<1> QED BY <1>1, <1>2, <1>3, <1>4

(* Unless a buffer is to be collected, a reader has accounted for what is   *)
(* before the byte it is at.                                                *)
LEMMA ReachWithoutCollecting ==
  ASSUME NEW r
  PROVE  /\ reader[r].pc # "collect" /\ reader[r].pos \in Nat => Reach(r) = reader[r].pos
         /\ reader'[r].pc # "collect" /\ reader'[r].pos \in Nat => Reach(r)' = reader'[r].pos
<1>1. \A n \in Nat : n + 0 = n
  OBVIOUS
<1> QED BY <1>1, Zenon DEF Reach

(* A reader that has not moved has not accounted for anything.              *)
LEMMA MovingNowhere ==
  ASSUME NEW m \in Nat, \A a \in Nat : Accounted(a)' <=> Accounted(a) \/ (m <= a /\ a < m)
  PROVE  \A a \in Stream : Accounted(a)' <=> Accounted(a)
<1>1. \A a \in Nat : ~(m <= a /\ a < m)
  OBVIOUS
<1>2. \A a \in Stream : a \in Nat
  BY SizesAssumption DEF Stream
<1> QED BY <1>1, <1>2, Zenon

(* A reader that moves inside its request, or leaves it, disturbs nobody.   *)
LEMMA MovingKeepsOrder ==
  ASSUME TypeOK, ReadersInOrder, NEW r \in Readers, reader[r].pc # "idle", NEW m,
         MovesTo(r, m), reader'[r].pos \in Nat,
         reader'[r].req = 0 => reader'[r].pc = "idle",
         reader'[r].req # 0 =>
           /\ reader'[r].pc # "idle" /\ finished' = finished
           /\ reader[r].pos <= reader'[r].pos
           /\ reader'[r].pos < Requests[reader[r].req].end
           /\ reader'[r].pc \in {"update", "collect"} => reader'[r].n = BytesToCopy(r)'
  PROVE  ReadersInOrder'
<1> DEFINE i == reader[r].req
<1>1. /\ i \in taken \ finished /\ i \in RequestIds /\ i # 0
      /\ Requests[i].first <= reader[r].pos /\ reader[r].pos \in Nat
      /\ Requests[i].first \in Nat
      /\ \A q \in Readers : reader[q].req = i => q = r
  BY RequestsAreDisjoint, SMTT(40) DEF ReadersInOrder, TypeOK
<1>2. \A q \in Readers \ {r} : reader'[q] = reader[q] /\ BytesToCopy(q)' = BytesToCopy(q)
  BY ZenonT(40) DEF MovesTo, BytesToCopy, Bytes, Key, ReaderKey
<1>3. taken' = taken /\ (finished' = finished \/ finished' = finished \union {i})
  BY Zenon DEF MovesTo
<1>4. reader'[r].req \in {0, i}
  BY Zenon DEF MovesTo
<1>5. ASSUME NEW q \in Readers \ {r}
      PROVE  /\ reader'[q].pc = "idle" => reader'[q].req = 0
             /\ reader'[q].pc # "idle" =>
                  /\ reader'[q].req \in taken' \ finished'
                  /\ Requests[reader'[q].req].first <= reader'[q].pos
                  /\ reader'[q].pos < Requests[reader'[q].req].end
                  /\ \A p \in Readers : reader'[p].req = reader'[q].req => p = q
             /\ reader'[q].pc \in {"update", "collect"} => reader'[q].n = BytesToCopy(q)'
  <2>1. reader'[q] = reader[q] /\ reader[q].req # i
    BY <1>1, <1>2, Zenon
  <2>2. CASE reader[q].pc = "idle"
    BY <2>1, <2>2, Zenon DEF ReadersInOrder
  <2>3. CASE reader[q].pc # "idle"
    <3>1. /\ reader[q].req \in taken \ finished /\ reader[q].req # 0
          /\ Requests[reader[q].req].first <= reader[q].pos
          /\ reader[q].pos < Requests[reader[q].req].end
          /\ \A p \in Readers : reader[p].req = reader[q].req => p = q
          /\ reader[q].pc \in {"update", "collect"} => reader[q].n = BytesToCopy(q)
      BY <2>3, RequestsAreDisjoint, ZenonT(60) DEF ReadersInOrder, TypeOK
    <3>2. reader'[q].req \in taken' \ finished'
      BY <3>1, <2>1, <1>3, Zenon
    <3>3. \A p \in Readers : reader'[p].req = reader'[q].req => p = q
      BY <3>1, <2>1, <1>2, <1>4, Zenon
    <3> QED BY <3>1, <3>2, <3>3, <2>1, <2>3, <1>2, Zenon
  <2> QED BY <2>2, <2>3, Zenon
<1>6. CASE reader'[r].req = 0
  <2>1. reader'[r].pc = "idle"
    BY <1>6, SMTT(40)
  <2> QED BY <2>1, <1>5, <1>6, Zenon DEF ReadersInOrder
<1>7. CASE reader'[r].req # 0
  <2>1. /\ reader'[r].req = i /\ reader'[r].pc # "idle" /\ finished' = finished
        /\ Requests[i].first <= reader'[r].pos /\ reader'[r].pos < Requests[i].end
    BY <1>1, <1>4, <1>7, SMTT(40)
  <2>2. \A p \in Readers : reader'[p].req = i => p = r
    BY <1>1, <1>2, Zenon
  <2>3. i \in taken' \ finished'
    BY <2>1, <1>1, <1>3, Zenon
  <2> HIDE DEF i
  <2> QED BY <2>1, <2>2, <2>3, <1>5, <1>7, ZenonT(40) DEF ReadersInOrder
<1> QED BY <1>6, <1>7, Zenon

(* A step from lock to lock: the reader stays where it is.                  *)
StaysAt(r, pc) ==
  /\ reader' \in [Readers -> ReaderRecord]
  /\ \A q \in Readers \ {r} : reader'[q] = reader[q]
  /\ reader'[r].pc = pc /\ reader'[r].req = reader[r].req /\ reader'[r].pos = reader[r].pos
  /\ UNCHANGED <<settings, robci_buffers, metadata, robc_reader_wait_cv,
                 robc_prefetcher_wait_cv, prefetcher, taken, finished>>

(* It keeps the invariant when the reader has a reason for it.              *)
LEMMA StayingKeepsInv ==
  ASSUME NEW f \in Nat, CacheInv(f), NEW r \in Readers,
         reader[r].pc \in {"wait", "copy", "update"},
         NEW pc \in {"copy", "update", "aborted"}, StaysAt(r, pc),
         pc # "aborted" => ReaderKey(r) < f,
         pc = "update" => reader'[r].n = BytesToCopy(r)
  PROVE  CacheInv(f)'
<1>0. TypeOK /\ ReadersInOrder
  BY Zenon DEF CacheInv
<1>r. /\ reader' \in [Readers -> ReaderRecord]
      /\ \A q \in Readers \ {r} : reader'[q] = reader[q]
      /\ reader'[r].pc = pc /\ reader'[r].req = reader[r].req /\ reader'[r].pos = reader[r].pos
  BY Zenon DEF StaysAt
<1>u. UNCHANGED <<robc_maximum_buffers_to_cache, robci_buffers, robcm_bytes_remaining,
                  robcm_next_key_to_fetch, robcm_state, robc_reader_wait_cv,
                  robc_prefetcher_wait_cv, prefetcher, taken, finished>>
  BY Zenon DEF StaysAt, settings, metadata
<1>p. reader[r].pc # "idle" /\ reader[r].pc # "collect" /\ pc # "idle" /\ pc # "collect"
  OBVIOUS
<1>1. /\ reader[r].req # 0 /\ reader[r].pos \in Nat
      /\ reader[r].pos < Requests[reader[r].req].end
      /\ reader[r].pos <= reader[r].pos /\ reader[r].pos <= Requests[reader[r].req].end
  BY <1>0, <1>p, ReaderReadsOn, Zenon
<1>2. Reach(r) = reader[r].pos /\ Reach(r)' = reader[r].pos
  BY <1>1, <1>p, <1>r, ReachWithoutCollecting, Zenon
<1>3. MovesTo(r, reader[r].pos)
  BY <1>2, <1>r, <1>u, Zenon DEF MovesTo
<1>4. \A q \in Readers : ReaderKey(q)' = ReaderKey(q) /\ BytesToCopy(q)' = BytesToCopy(q)
  <2>1. \A q \in Readers : reader'[q].pos = reader[q].pos /\ reader'[q].req = reader[q].req
    BY <1>r, Zenon
  <2> QED BY <2>1, Zenon DEF ReaderKey, BytesToCopy, Bytes, Key
<1>5. ReadersInOrder'
  <2>1. reader'[r].pos \in Nat /\ (reader'[r].req = 0 => reader'[r].pc = "idle")
    BY <1>1, <1>r, Zenon
  <2>2. /\ reader'[r].pc # "idle" /\ finished' = finished
        /\ reader[r].pos <= reader'[r].pos
        /\ reader'[r].pos < Requests[reader[r].req].end
        /\ reader'[r].pc \in {"update", "collect"} => reader'[r].n = BytesToCopy(r)'
    BY <1>1, <1>4, <1>p, <1>r, <1>u, Zenon
  <2> QED BY <2>1, <2>2, <1>0, <1>3, <1>p, MovingKeepsOrder, Zenon
<1>6. \A a \in Nat : Accounted(a)' <=> Accounted(a) \/ (reader[r].pos <= a /\ a < reader[r].pos)
  <2>1. Reach(r) <= reader[r].pos
    BY <1>1, <1>2, Zenon
  <2>2. \A a \in Nat : Accounted(a)' <=> Accounted(a) \/ (Reach(r) <= a /\ a < reader[r].pos)
    BY <2>1, <1>0, <1>1, <1>3, <1>p, MovingAccounts, Zenon
  <2> QED BY <2>2, <1>2, Zenon
<1>7. \A a \in Stream : Accounted(a)' <=> Accounted(a)
  BY <1>1, <1>6, MovingNowhere, Zenon
<1>8. Counting(f)'
  BY <1>7, <1>u, NothingCounted, Zenon DEF CacheInv
<1>9. TypeOK'
  BY <1>r, <1>u, Zenon DEF CacheInv, TypeOK, ReaderRecord
<1>10. NeverFails'
  BY <1>r, Zenon DEF CacheInv, NeverFails
<1>11. \A q \in Readers : reader'[q].pc = "collect" <=> reader[q].pc = "collect"
  BY <1>p, <1>r, Zenon
<1>12. BuffersMatchCounters'
  <2>1. {ReaderKey(q)' : q \in {p \in Readers : reader'[p].pc = "collect"}} =
        {ReaderKey(q) : q \in {p \in Readers : reader[p].pc = "collect"}}
    BY <1>4, <1>11
  <2> QED BY <2>1, <1>u, Zenon DEF CacheInv, BuffersMatchCounters
<1>13. PrefetcherInOrder(f)'
  BY <1>u, Zenon DEF CacheInv, PrefetcherInOrder, FirstKey, Key, Bytes
<1>14. ReadersBehind(f)'
  <2>1. \A q \in Readers : reader'[q].pc \in {"copy", "update", "collect"} => ReaderKey(q) < f
    BY <1>p, <1>r, Zenon DEF CacheInv, ReadersBehind
  <2> QED BY <2>1, <1>4, <1>11, <1>u, Zenon DEF CacheInv, ReadersBehind, Stream, Key
<1> QED BY <1>5, <1>8, <1>9, <1>10, <1>12, <1>13, <1>14, Zenon DEF CacheInv

(* The end of a turn: the reader moves past what it has copied.             *)
LEMMA AdvanceMoves ==
  ASSUME TypeOK, ReadersInOrder, NEW r \in Readers,
         reader[r].pc \in {"update", "collect"}, taken' = taken,
         Advance(r, reader[r].pos + reader[r].n)
  PROVE  /\ MovesTo(r, reader[r].pos + reader[r].n)
         /\ ReadersInOrder'
         /\ reader' \in [Readers -> ReaderRecord]
         /\ \A q \in Readers \ {r} : reader'[q] = reader[q]
         /\ reader'[r].pc \in {"idle", "wait"}
         /\ finished \subseteq finished' /\ finished' \subseteq taken
<1> DEFINE i == reader[r].req
           pos == reader[r].pos + reader[r].n
<1>0. /\ reader[r].pc # "idle" /\ reader[r].n = BytesToCopy(r)
      /\ reader \in [Readers -> ReaderRecord]
      /\ i \in taken /\ finished \subseteq taken
  BY Zenon DEF ReadersInOrder, TypeOK, ReaderRecord
<1>1. /\ i \in RequestIds /\ i # 0 /\ Requests[i].end \in Nat
      /\ reader[r].pos \in Nat /\ reader[r].pos < pos /\ pos <= Requests[i].end /\ pos \in Nat
  BY <1>0, ReaderIsInTheStream, RequestsAreDisjoint
<1>2. CASE pos < Requests[i].end
  <2>1. finished' = finished /\ reader' = [reader EXCEPT ![r].pc = "wait", ![r].pos = pos]
    BY <1>2 DEF Advance
  <2>2. /\ reader' \in [Readers -> ReaderRecord]
        /\ \A q \in Readers \ {r} : reader'[q] = reader[q]
        /\ reader'[r].pc = "wait" /\ reader'[r].req = i /\ reader'[r].pos = pos
    <3> HIDE DEF i, pos
    <3> QED BY Zenon, <2>1, <1>0, <1>1, ReaderAdvances DEF i
  <2>3. Reach(r)' = pos
    BY <2>2, <1>1 DEF Reach
  <2>4. MovesTo(r, pos)
    BY <2>1, <2>2, <2>3, Zenon DEF MovesTo
  <2>5. ReadersInOrder'
    <3> HIDE DEF pos
    <3> QED BY <2>1, <2>2, <2>4, <1>0, <1>1, <1>2, MovingKeepsOrder, SMTT(40)
  <2> QED BY <2>1, <2>2, <2>4, <2>5, <1>0, Zenon
<1>3. CASE ~(pos < Requests[i].end)
  <2>1. finished' = finished \union {i} /\ reader' = [reader EXCEPT ![r] = Idle]
    BY <1>3 DEF Advance
  <2>2. /\ reader' \in [Readers -> ReaderRecord]
        /\ \A q \in Readers \ {r} : reader'[q] = reader[q]
        /\ reader'[r] = Idle
    <3>1. Idle \in ReaderRecord
      BY Zenon DEF Idle, ReaderRecord
    <3> QED BY <3>1, <2>1, <1>0, Zenon
  <2>3. reader'[r].pc = "idle" /\ reader'[r].req = 0 /\ reader'[r].pos = 0
    BY <2>2, SMTT(40) DEF Idle
  <2>4. pos = Requests[i].end
    <3> HIDE DEF pos, i
    <3> QED BY <1>1, <1>3, SMTT(40)
  <2>5. MovesTo(r, pos)
    <3> HIDE DEF pos
    <3> QED BY <2>1, <2>2, <2>3, <2>4, Zenon DEF MovesTo
  <2>6. ReadersInOrder'
    <3> HIDE DEF pos
    <3> QED BY <2>3, <2>5, <1>0, MovingKeepsOrder, SMTT(40)
  <2> QED BY <2>1, <2>2, <2>3, <2>5, <2>6, <1>0, Zenon
<1> QED BY <1>2, <1>3, Zenon

(* What a reader has copied nobody has accounted for, so its buffer counts  *)
(* at least as many bytes.                                                  *)
LEMMA CopiedIsCounted ==
  ASSUME TypeOK, ReadersInOrder, NEW r \in Readers, reader[r].pc = "update"
  PROVE  LET C == reader[r].pos .. reader[r].pos + reader[r].n - 1
         IN  /\ C \subseteq Unaccounted(ReaderKey(r))
             /\ Cardinality(Unaccounted(ReaderKey(r))) \in Nat
             /\ Cardinality(Unaccounted(ReaderKey(r)) \ C) =
                  Cardinality(Unaccounted(ReaderKey(r))) - reader[r].n
             /\ reader[r].n <= Cardinality(Unaccounted(ReaderKey(r)))
             /\ \A k : k # ReaderKey(r) => Unaccounted(k) \ C = Unaccounted(k)
<1> DEFINE n == reader[r].n
           pos == reader[r].pos
           C == pos .. pos + n - 1
           U == Unaccounted(ReaderKey(r))
<1>1. /\ n = BytesToCopy(r) /\ n \in Nat /\ 0 < n /\ pos \in Nat
      /\ pos + n <= Requests[reader[r].req].end /\ Requests[reader[r].req].end \in Nat
      /\ C \subseteq Bytes(ReaderKey(r))
  BY ReaderIsInTheStream, Zenon DEF ReadersInOrder
<1>2. ASSUME NEW a \in C PROVE ~Accounted(a)
  <2>1. a \in Nat /\ Reach(r) <= a /\ a < Requests[reader[r].req].end
    BY <1>1, SMTT(40) DEF Reach
  <2> QED BY <2>1, NotYetAccounted, Zenon
<1>3. C \subseteq U
  BY <1>1, <1>2, Zenon DEF Unaccounted
<1>4. IsFiniteSet(U) /\ Cardinality(U) \in Nat
  BY BytesAreFinite, Zenon DEF Unaccounted
<1>5. Cardinality(C) = n /\ IsFiniteSet(C)
  <2>1. pos \in Int /\ pos + n - 1 \in Int /\ pos <= pos + n - 1
    BY <1>1
  <2>2. Cardinality(C) = (pos + n - 1) - pos + 1 /\ IsFiniteSet(C)
    <3> HIDE DEF pos, n
    <3> QED BY <2>1, FS_Interval, SMTT(40)
  <2> HIDE DEF pos, n, C
  <2> QED BY <2>2, <1>1, SMTT(40)
<1>6. Cardinality(U \ C) = Cardinality(U) - n
  <2>1. U \cap C = C
    BY <1>3
  <2> HIDE DEF U, C, n
  <2> QED BY <2>1, <1>4, <1>5, FS_Difference, ZenonT(40)
<1>7. n <= Cardinality(U)
  <2> HIDE DEF U, C, n
  <2> QED BY <1>3, <1>4, <1>5, FS_Subset
<1>8. ASSUME NEW k, k # ReaderKey(r) PROVE Unaccounted(k) \ C = Unaccounted(k)
  BY <1>1, <1>8 DEF Unaccounted, Bytes
<1> QED BY <1>3, <1>4, <1>6, <1>7, <1>8, Zenon

(* Past the wait the buffer has been put.                                   *)
LEMMA ReadBufferEnterKeepsInv ==
  ASSUME NEW f \in Nat, CacheInv(f), NEW r \in Readers, ReadBufferEnter(r)
  PROVE  CacheInv(f)'
<1> DEFINE pc == IF robcm_state = "Aborted" THEN "aborted" ELSE "copy"
<1>0. /\ TypeOK /\ ReadersInOrder /\ reader \in [Readers -> ReaderRecord]
      /\ robcm_state \in PrimitiveState
  BY DEF CacheInv, TypeOK, ReaderRecord
<1>1. /\ reader[r].pc = "wait" /\ reader' = [reader EXCEPT ![r].pc = pc]
      /\ UNCHANGED <<settings, robci_buffers, metadata, robc_reader_wait_cv,
                     robc_prefetcher_wait_cv, prefetcher, taken, finished>>
  BY DEF ReadBufferEnter, ReaderAt, ReaderGoes
<1>2. ASSUME pc = "copy" PROVE ReaderKey(r) < f
  <2>1. CASE robcm_state = "Running"
    <3>1. ReaderKey(r) \in DOMAIN robcm_bytes_remaining
      BY <2>1, Zenon DEF ReadBufferEnter, Fetched
    <3> QED BY <3>1 DEF CacheInv, Counting
  <2>2. CASE robcm_state = "Done"
    <3>1. finished # RequestIds
      BY <1>0, <1>1 DEF ReadersInOrder, TypeOK
    <3>2. reader[r].pos \in Stream
      BY <1>0, <1>1, ReaderIsInTheStream
    <3> QED BY <3>1, <3>2, <2>2 DEF CacheInv, ReadersBehind, ReaderKey
  <2> QED BY <2>1, <2>2, <1>0, <1>2 DEF PrimitiveState
<1>3. pc \in {"copy", "aborted"}
  OBVIOUS
<1> HIDE DEF pc
<1>4. /\ reader' \in [Readers -> ReaderRecord]
      /\ \A q \in Readers \ {r} : reader'[q] = reader[q]
      /\ reader'[r].pc = pc /\ reader'[r].req = reader[r].req
      /\ reader'[r].pos = reader[r].pos
  BY Zenon, <1>0, <1>1, <1>3, ReaderChanges
<1>5. StaysAt(r, pc)
  BY <1>1, <1>4, Zenon DEF StaysAt
<1> QED BY <1>1, <1>2, <1>3, <1>5, StayingKeepsInv, Zenon

(* It is still there when the reader has the other lock.                    *)
LEMMA CopyFromBufferKeepsInv ==
  ASSUME NEW f \in Nat, CacheInv(f), NEW r \in Readers, CopyFromBuffer(r)
  PROVE  CacheInv(f)'
<1>0. TypeOK /\ ReadersInOrder /\ reader \in [Readers -> ReaderRecord]
  BY DEF CacheInv, TypeOK, ReaderRecord
<1>1. /\ reader[r].pc = "copy"
      /\ UNCHANGED <<settings, robci_buffers, metadata, robc_reader_wait_cv,
                     robc_prefetcher_wait_cv, prefetcher, taken, finished>>
  BY SMTT(40) DEF CopyFromBuffer, ReaderAt
<1>2. ReaderKey(r) < f
  BY <1>1, Zenon DEF CacheInv, ReadersBehind
<1>3. ReaderKey(r) \in robci_buffers
  BY <1>1, <1>2, BufferIsThere, Zenon
<1>4. BytesToCopy(r) \in Nat /\ BytesToCopy(r) # 0
  BY <1>0, <1>1, ReaderIsInTheStream
<1>5. reader' = [reader EXCEPT ![r].pc = "update", ![r].n = BytesToCopy(r)]
  BY <1>3, <1>4 DEF CopyFromBuffer
<1>6. /\ reader' \in [Readers -> ReaderRecord]
      /\ \A q \in Readers \ {r} : reader'[q] = reader[q]
      /\ reader'[r].pc = "update" /\ reader'[r].req = reader[r].req
      /\ reader'[r].pos = reader[r].pos /\ reader'[r].n = BytesToCopy(r)
  BY Zenon, <1>0, <1>4, <1>5, ReaderCopies
<1>7. StaysAt(r, "update")
  BY <1>1, <1>6, Zenon DEF StaysAt
<1> QED BY <1>1, <1>2, <1>6, <1>7, StayingKeepsInv, Zenon

(* The counter is there and large enough, so that only a cache that was     *)
(* aborted refuses the update.                                              *)
LEMMA UpdateBytesFailsKeepsInv ==
  ASSUME NEW f \in Nat, CacheInv(f), NEW r \in Readers, UpdateBytesFails(r)
  PROVE  CacheInv(f)'
<1>0. TypeOK /\ ReadersInOrder /\ reader \in [Readers -> ReaderRecord]
  BY DEF CacheInv, TypeOK, ReaderRecord
<1>1. /\ reader[r].pc = "update"
      /\ UNCHANGED <<settings, robci_buffers, metadata, robc_reader_wait_cv,
                     robc_prefetcher_wait_cv, prefetcher, taken, finished>>
  BY SMTT(40) DEF UpdateBytesFails, ReaderAt
<1>2. ReaderKey(r) \in DOMAIN robcm_bytes_remaining
  BY <1>1, BufferIsThere, ZenonT(40) DEF CacheInv, ReadersBehind
<1>3. ~(robcm_bytes_remaining[ReaderKey(r)] < reader[r].n)
  <2>1. robcm_bytes_remaining[ReaderKey(r)] = Cardinality(Unaccounted(ReaderKey(r)))
    BY <1>2 DEF CacheInv, Counting
  <2>2. reader[r].n \in Nat
    BY <1>0, SMTT(40) DEF ReaderRecord
  <2>3. /\ Cardinality(Unaccounted(ReaderKey(r))) \in Nat
        /\ reader[r].n <= Cardinality(Unaccounted(ReaderKey(r)))
    BY <1>0, <1>1, CopiedIsCounted, Zenon
  <2> QED BY <2>1, <2>2, <2>3, SMTT(40)
<1>4. reader' = [reader EXCEPT ![r].pc = "aborted"]
  BY <1>2, <1>3, Zenon DEF UpdateBytesFails, ReaderGoes
<1>5. /\ reader' \in [Readers -> ReaderRecord]
      /\ \A q \in Readers \ {r} : reader'[q] = reader[q]
      /\ reader'[r].pc = "aborted" /\ reader'[r].req = reader[r].req
      /\ reader'[r].pos = reader[r].pos
  BY Zenon, <1>0, <1>4, ReaderChanges
<1>6. StaysAt(r, "aborted")
  BY <1>1, <1>5, Zenon DEF StaysAt
<1> QED BY <1>1, <1>6, StayingKeepsInv, Zenon

(* The bytes of an update leave the account of their buffer and of no other.*)
LEMMA UpdateAccounts ==
  ASSUME TypeOK, ReadersInOrder, NEW r \in Readers, reader[r].pc = "update",
         MovesTo(r, reader[r].pos + reader[r].n)
  PROVE  LET C == reader[r].pos .. reader[r].pos + reader[r].n - 1
         IN  /\ \A k : Unaccounted(k)' = Unaccounted(k) \ C
             /\ \A a \in Stream : Accounted(a)' => Accounted(a) \/ Key(a) = ReaderKey(r)
<1> DEFINE pos == reader[r].pos
           n == reader[r].n
           C == pos .. pos + n - 1
<1>1. /\ n = BytesToCopy(r) /\ n \in Nat /\ pos \in Nat
      /\ pos + n <= Requests[reader[r].req].end
      /\ C \subseteq Bytes(ReaderKey(r))
  BY ReaderIsInTheStream, Zenon DEF ReadersInOrder
<1>2. Reach(r) = pos
  BY <1>1, SMTT(40) DEF Reach
<1>3. \A a \in Nat : Accounted(a)' <=> Accounted(a) \/ (pos <= a /\ a < pos + n)
  <2>1. pos + n \in Nat /\ pos <= pos + n
    BY <1>1, SMTT(40)
  <2> QED BY <2>1, <1>1, <1>2, MovingAccounts, ZenonT(40)
<1>4. ASSUME NEW a \in Stream PROVE a \in Nat /\ (pos <= a /\ a < pos + n <=> a \in C)
  <2>1. a \in Nat
    BY SizesAssumption DEF Stream
  <2> HIDE DEF pos, n
  <2> QED BY <2>1, <1>1, SMTT(40)
<1>5. \A a \in Stream : Accounted(a)' <=> Accounted(a) \/ a \in C
  <2> HIDE DEF pos, n, C
  <2> QED BY <1>3, <1>4, SMTT(40)
<1>6. \A k : Unaccounted(k)' = Unaccounted(k) \ C
  BY <1>5, AccountsOfBuffers, ZenonT(40)
<1>7. \A a \in C : Key(a) = ReaderKey(r)
  BY <1>1 DEF Bytes
<1> QED BY <1>5, <1>6, <1>7, Zenon

(* The update of a buffer from which something is still to be read.         *)
LEMMA UpdateBytesLeftKeepsInv ==
  ASSUME NEW f \in Nat, CacheInv(f), NEW r \in Readers, UpdateBytesLeft(r)
  PROVE  CacheInv(f)'
<1> USE DEF settings, metadata
<1> PICK K : K = ReaderKey(r)
  OBVIOUS
<1> PICK left : left = robcm_bytes_remaining[K] - reader[r].n
  OBVIOUS
<1> DEFINE C == reader[r].pos .. reader[r].pos + reader[r].n - 1
<1>0. TypeOK /\ ReadersInOrder /\ Counting(f)
  BY Zenon DEF CacheInv
<1>1. /\ reader[r].pc = "update" /\ K \in DOMAIN robcm_bytes_remaining /\ left > 0
      /\ robcm_bytes_remaining' = [robcm_bytes_remaining EXCEPT ![K] = left]
      /\ Advance(r, reader[r].pos + reader[r].n)
      /\ UNCHANGED <<robc_maximum_buffers_to_cache, robci_buffers, robcm_next_key_to_fetch,
                     robcm_state, robc_reader_wait_cv, robc_prefetcher_wait_cv, prefetcher,
                     taken>>
  BY Zenon DEF UpdateBytesLeft, ReaderAt
<1>2. /\ MovesTo(r, reader[r].pos + reader[r].n) /\ ReadersInOrder'
      /\ reader' \in [Readers -> ReaderRecord]
      /\ \A q \in Readers \ {r} : reader'[q] = reader[q]
      /\ reader'[r].pc \in {"idle", "wait"}
      /\ finished \subseteq finished' /\ finished' \subseteq taken
  BY <1>0, <1>1, AdvanceMoves, Zenon
<1>3. /\ \A k : Unaccounted(k)' = Unaccounted(k) \ C
      /\ \A a \in Stream : Accounted(a)' => Accounted(a) \/ Key(a) = K
  BY <1>0, <1>1, <1>2, UpdateAccounts, Zenon
<1>4. /\ \A k : k # K => Unaccounted(k)' = Unaccounted(k)
      /\ Cardinality(Unaccounted(K)') = left
      /\ left \in Nat
  <2>1. robcm_bytes_remaining[K] = Cardinality(Unaccounted(K))
    BY <1>0, <1>1, Zenon DEF Counting
  <2>2. /\ Cardinality(Unaccounted(K)) \in Nat /\ reader[r].n \in Nat
        /\ Cardinality(Unaccounted(K) \ C) = Cardinality(Unaccounted(K)) - reader[r].n
        /\ \A k : k # K => Unaccounted(k) \ C = Unaccounted(k)
    BY <1>0, <1>1, CopiedIsCounted, Zenon DEF TypeOK
  <2> HIDE DEF C
  <2>3. \A k : k # K => Unaccounted(k)' = Unaccounted(k)
    BY <2>2, <1>3, Zenon
  <2>4. Cardinality(Unaccounted(K)') = left
    BY <2>1, <2>2, <1>3, Zenon
  <2>5. left \in Nat
    BY <2>1, <2>2, <1>1, SMTT(40)
  <2> QED BY <2>3, <2>4, <2>5, Zenon
<1>5. Unaccounted(K)' # {}
  BY <1>1, <1>4, FS_EmptySet, SMTT(40)
<1>6. /\ DOMAIN robcm_bytes_remaining' = DOMAIN robcm_bytes_remaining
      /\ robcm_bytes_remaining'[K] = left
      /\ \A k \in DOMAIN robcm_bytes_remaining :
           k # K => robcm_bytes_remaining'[k] = robcm_bytes_remaining[k]
  BY <1>1, Zenon
<1> HIDE DEF C
<1>7. Counting(f)'
  <2>1. DOMAIN robcm_bytes_remaining' = {k \in 0 .. f - 1 : Unaccounted(k)' # {}}
    BY <1>0, <1>1, <1>4, <1>5, <1>6, Zenon DEF Counting
  <2>2. \A k \in DOMAIN robcm_bytes_remaining' :
          robcm_bytes_remaining'[k] = Cardinality(Unaccounted(k)')
    BY <1>0, <1>4, <1>6, Zenon DEF Counting
  <2>3. \A a \in Stream : Accounted(a)' => Key(a) < f
    BY <1>0, <1>1, <1>3, SMTT(40) DEF Counting
  <2> QED BY <2>1, <2>2, <2>3, Zenon DEF Counting, Stream, Key
<1>8. TypeOK'
  BY <1>1, <1>2, <1>4, <1>6, Zenon DEF CacheInv, TypeOK, ReaderRecord
<1>9. NeverFails'
  BY <1>2, ZenonT(40) DEF CacheInv, NeverFails
<1>10. \A q \in Readers : reader'[q].pc \in {"copy", "update", "collect"} =>
         reader'[q] = reader[q] /\ ReaderKey(q)' = ReaderKey(q)
  BY <1>2, ZenonT(40) DEF ReaderKey, Key
<1>11. BuffersMatchCounters'
  <2>1. {ReaderKey(q)' : q \in {p \in Readers : reader'[p].pc = "collect"}} =
        {ReaderKey(q) : q \in {p \in Readers : reader[p].pc = "collect"}}
    BY <1>1, <1>2, <1>10, Zenon
  <2> QED BY <2>1, <1>1, <1>6, Zenon DEF CacheInv, BuffersMatchCounters
<1>12. PrefetcherInOrder(f)'
  BY <1>1, <1>6, Zenon DEF CacheInv, PrefetcherInOrder, FirstKey, Key, Bytes
<1>13. ReadersBehind(f)'
  <2>1. finished = RequestIds => finished' = RequestIds
    BY <1>2, Zenon DEF CacheInv, TypeOK
  <2> QED BY <2>1, <1>1, <1>6, <1>10, Zenon DEF CacheInv, ReadersBehind, Stream, Key
<1> QED BY <1>2, <1>7, <1>8, <1>9, <1>11, <1>12, <1>13, Zenon DEF CacheInv

(* The update that exhausts a buffer takes its counter away; the buffer     *)
(* itself stays until this reader collects it.                              *)
LEMMA UpdateBytesExhaustedKeepsInv ==
  ASSUME NEW f \in Nat, CacheInv(f), NEW r \in Readers, UpdateBytesExhausted(r)
  PROVE  CacheInv(f)'
<1> USE DEF settings, metadata
<1> PICK K : K = ReaderKey(r)
  OBVIOUS
<1> DEFINE C == reader[r].pos .. reader[r].pos + reader[r].n - 1
<1>0. TypeOK /\ ReadersInOrder /\ Counting(f) /\ reader \in [Readers -> ReaderRecord]
  BY DEF CacheInv, TypeOK, ReaderRecord
<1>1. /\ reader[r].pc = "update" /\ K \in DOMAIN robcm_bytes_remaining
      /\ robcm_bytes_remaining[K] = reader[r].n
      /\ robcm_bytes_remaining' = Without(robcm_bytes_remaining, K)
      /\ robc_prefetcher_wait_cv' = FALSE
      /\ UNCHANGED <<robc_maximum_buffers_to_cache, robci_buffers, robcm_next_key_to_fetch,
                     robcm_state, robc_reader_wait_cv, prefetcher, taken, finished>>
  BY DEF UpdateBytesExhausted, ReaderAt, ReaderGoes
<1>2. /\ reader' \in [Readers -> ReaderRecord]
      /\ \A q \in Readers \ {r} : reader'[q] = reader[q]
      /\ reader'[r].pc = "collect" /\ reader'[r].req = reader[r].req
      /\ reader'[r].pos = reader[r].pos /\ reader'[r].n = reader[r].n
  <2>1. reader' = [reader EXCEPT ![r].pc = "collect"]
    BY Zenon DEF UpdateBytesExhausted, ReaderGoes
  <2> QED BY Zenon, <2>1, <1>0, ReaderChanges
<1>3. MovesTo(r, reader[r].pos + reader[r].n)
  <2>1. Reach(r)' = reader[r].pos + reader[r].n
    BY <1>2, Zenon DEF Reach
  <2> QED BY <2>1, <1>1, <1>2, Zenon DEF MovesTo
<1>4. \A q \in Readers : ReaderKey(q)' = ReaderKey(q) /\ BytesToCopy(q)' = BytesToCopy(q)
  <2>1. \A q \in Readers : reader'[q].pos = reader[q].pos /\ reader'[q].req = reader[q].req
    BY <1>2, Zenon
  <2> QED BY <2>1, Zenon DEF ReaderKey, BytesToCopy, Bytes, Key
<1>5. ReadersInOrder'
  <2>1. reader[r].pc # "idle" /\ reader[r].n = BytesToCopy(r)
    BY <1>0, <1>1, Zenon DEF ReadersInOrder
  <2>2. /\ reader[r].req # 0 /\ reader[r].pos \in Nat
        /\ reader[r].pos < Requests[reader[r].req].end /\ reader[r].pos <= reader[r].pos
    BY <1>0, <2>1, ReaderReadsOn, Zenon
  <2>3. reader'[r].pos \in Nat /\ (reader'[r].req = 0 => reader'[r].pc = "idle")
    BY <1>2, <2>2, Zenon
  <2>4. /\ reader'[r].pc # "idle" /\ finished' = finished
        /\ reader[r].pos <= reader'[r].pos
        /\ reader'[r].pos < Requests[reader[r].req].end
        /\ reader'[r].pc \in {"update", "collect"} => reader'[r].n = BytesToCopy(r)'
    BY <1>1, <1>2, <1>4, <2>1, <2>2, Zenon
  <2> QED BY <2>1, <2>3, <2>4, <1>0, <1>3, MovingKeepsOrder, Zenon
<1>6. /\ \A k : Unaccounted(k)' = Unaccounted(k) \ C
      /\ \A a \in Stream : Accounted(a)' => Accounted(a) \/ Key(a) = K
  BY <1>0, <1>1, <1>3, UpdateAccounts, Zenon
<1>7. (\A k : k # K => Unaccounted(k)' = Unaccounted(k)) /\ Unaccounted(K)' = {}
  <2>1. robcm_bytes_remaining[K] = Cardinality(Unaccounted(K))
    BY <1>0, <1>1, ZenonT(40) DEF Counting
  <2>2. /\ reader[r].n \in Nat
        /\ Cardinality(Unaccounted(K) \ C) = Cardinality(Unaccounted(K)) - reader[r].n
    BY <1>0, <1>1, CopiedIsCounted, Zenon DEF TypeOK
  <2>3. \A k : k # K => Unaccounted(k)' = Unaccounted(k)
    <3>1. \A k : k # K => Unaccounted(k) \ C = Unaccounted(k)
      BY <1>0, <1>1, CopiedIsCounted, Zenon
    <3> HIDE DEF C
    <3> QED BY <3>1, <1>6, SMTT(40)
  <2> HIDE DEF C
  <2>4. Cardinality(Unaccounted(K) \ C) = 0
    <3>1. robcm_bytes_remaining[K] = reader[r].n
      BY <1>1, Zenon
    <3> QED BY <3>1, <2>1, <2>2
  <2>5. Unaccounted(K) \ C \in SUBSET Bytes(K)
    BY DEF Unaccounted
  <2>6. Unaccounted(K) \ C = {}
    BY <2>4, <2>5, BytesAreFinite, Zenon
  <2> QED BY <2>3, <2>6, <1>6, SMTT(40)
<1>8. /\ DOMAIN robcm_bytes_remaining' = DOMAIN robcm_bytes_remaining \ {K}
      /\ \A k \in DOMAIN robcm_bytes_remaining' :
           robcm_bytes_remaining'[k] = robcm_bytes_remaining[k]
  BY <1>1, SMTT(40) DEF Without
<1> HIDE DEF C
<1>9. Counting(f)'
  <2>1. DOMAIN robcm_bytes_remaining' = {k \in 0 .. f - 1 : Unaccounted(k)' # {}}
    BY <1>0, <1>7, <1>8, Zenon DEF Counting
  <2>2. \A k \in DOMAIN robcm_bytes_remaining' :
          robcm_bytes_remaining'[k] = Cardinality(Unaccounted(k)')
    BY <1>0, <1>7, <1>8, Zenon DEF Counting
  <2>3. \A a \in Stream : Accounted(a)' => Key(a) < f
    BY <1>0, <1>1, <1>6, SMTT(40) DEF Counting
  <2> QED BY <2>1, <2>2, <2>3, Zenon DEF Counting, Stream, Key
<1>10. TypeOK'
  BY <1>1, <1>2, <1>8, Zenon DEF CacheInv, TypeOK, ReaderRecord
<1>11. NeverFails'
  BY <1>2, Zenon DEF CacheInv, NeverFails
<1>12. Cardinality(DOMAIN robcm_bytes_remaining') <= Cardinality(DOMAIN robcm_bytes_remaining)
  BY <1>0, <1>8, CountersAreFinite, FS_Subset, Zenon
<1>13. /\ Cardinality(DOMAIN robcm_bytes_remaining') \in Nat
       /\ Cardinality(DOMAIN robcm_bytes_remaining) \in Nat
       /\ robc_maximum_buffers_to_cache \in Nat
  <2>1. /\ IsFiniteSet(DOMAIN robcm_bytes_remaining)
        /\ Cardinality(DOMAIN robcm_bytes_remaining) \in Nat
    BY <1>0, CountersAreFinite, Zenon
  <2>2. IsFiniteSet(DOMAIN robcm_bytes_remaining')
    BY <2>1, <1>8, FS_Subset
  <2>3. Cardinality(DOMAIN robcm_bytes_remaining') \in Nat
    BY <2>2, FS_CardinalityType, SMTT(40)
  <2> QED BY <2>1, <2>3, <1>0, Zenon DEF TypeOK
<1>14. BuffersMatchCounters'
  <2>1. {ReaderKey(q)' : q \in {p \in Readers : reader'[p].pc = "collect"}} =
        {ReaderKey(q) : q \in {p \in Readers : reader[p].pc = "collect"}} \union {K}
    BY <1>2, <1>4, Zenon
  <2>2. Cardinality(DOMAIN robcm_bytes_remaining') <= robc_maximum_buffers_to_cache
    BY <1>12, <1>13, SMTT(40) DEF CacheInv, BuffersMatchCounters
  <2> QED BY <2>1, <2>2, <1>1, <1>8, Zenon DEF CacheInv, BuffersMatchCounters
<1>15. PrefetcherInOrder(f)'
  BY <1>1, <1>12, <1>13, SMTT(40) DEF CacheInv, PrefetcherInOrder, FirstKey, Key, Bytes
<1>16. ReadersBehind(f)'
  BY <1>1, <1>2, <1>4, <1>8, ZenonT(40) DEF CacheInv, ReadersBehind, Stream, Key
<1> QED BY <1>5, <1>9, <1>10, <1>11, <1>14, <1>15, <1>16, Zenon DEF CacheInv

(* The buffer that is collected is the exhausted one, which has no counter. *)
LEMMA CollectBufferKeepsInv ==
  ASSUME NEW f \in Nat, CacheInv(f), NEW r \in Readers, CollectBuffer(r)
  PROVE  CacheInv(f)'
<1> USE DEF settings, metadata
<1> PICK K : K = ReaderKey(r)
  OBVIOUS
<1>0. TypeOK /\ ReadersInOrder
  BY SMTT(40) DEF CacheInv
<1>1. /\ reader[r].pc = "collect" /\ robci_buffers' = robci_buffers \ {K}
      /\ Advance(r, reader[r].pos + reader[r].n)
      /\ UNCHANGED <<robc_maximum_buffers_to_cache, robcm_bytes_remaining,
                     robcm_next_key_to_fetch, robcm_state, robc_reader_wait_cv,
                     robc_prefetcher_wait_cv, prefetcher, taken>>
  BY ZenonT(40) DEF CollectBuffer, ReaderAt
<1>2. /\ MovesTo(r, reader[r].pos + reader[r].n) /\ ReadersInOrder'
      /\ reader' \in [Readers -> ReaderRecord]
      /\ \A q \in Readers \ {r} : reader'[q] = reader[q]
      /\ reader'[r].pc \in {"idle", "wait"}
      /\ finished \subseteq finished' /\ finished' \subseteq taken
  BY <1>0, <1>1, AdvanceMoves, Zenon
<1>3. \A a \in Stream : Accounted(a)' <=> Accounted(a)
  <2> DEFINE m == reader[r].pos + reader[r].n
  <2>1. reader[r].pc # "idle" /\ reader[r].n = BytesToCopy(r)
    BY <1>0, <1>1, Zenon DEF ReadersInOrder
  <2>2. m <= Requests[reader[r].req].end
    BY <2>1, <1>0, ReaderIsInTheStream, Zenon
  <2>3. m \in Nat /\ m <= m
    <3>1. reader[r].pos \in Nat /\ reader[r].n \in Nat
      BY <2>1, <1>0, ReaderReadsOn, Zenon
    <3> QED BY <3>1
  <2>4. Reach(r) = m
    BY <1>1, Zenon DEF Reach
  <2> HIDE DEF m
  <2>5. \A a \in Nat : Accounted(a)' <=> Accounted(a) \/ (Reach(r) <= a /\ a < m)
    <3>1. Reach(r) <= m
      BY <2>3, <2>4, Zenon
    <3>2. MovesTo(r, m)
      BY <1>2, Zenon DEF m
    <3> QED BY <3>1, <3>2, <2>1, <2>2, <2>3, <1>0, MovingAccounts, Zenon
  <2>6. \A a \in Nat : Accounted(a)' <=> Accounted(a) \/ (m <= a /\ a < m)
    BY <2>4, <2>5, Zenon
  <2> QED BY <2>3, <2>6, MovingNowhere, Zenon
<1>4. Counting(f)'
  BY <1>1, <1>3, NothingCounted, Zenon DEF CacheInv
<1>5. TypeOK'
  BY <1>1, <1>2, ZenonT(40) DEF CacheInv, TypeOK, ReaderRecord
<1>6. NeverFails'
  BY <1>2, Zenon DEF CacheInv, NeverFails
<1>7. \A q \in Readers : reader'[q].pc \in {"copy", "update", "collect"} =>
        q # r /\ reader'[q] = reader[q] /\ ReaderKey(q)' = ReaderKey(q)
  BY <1>2, ZenonT(40) DEF ReaderKey, Key
<1>8. K \notin DOMAIN robcm_bytes_remaining /\ K < f
  BY <1>1, Zenon DEF CacheInv, ReadersBehind
<1>9. BuffersMatchCounters'
  <2>1. \A k \in {ReaderKey(q) : q \in {p \in Readers : reader[p].pc = "collect"}} :
          k = K \/ k \in {ReaderKey(q)' : q \in {p \in Readers : reader'[p].pc = "collect"}}
    BY <1>1, <1>2, <1>7, Zenon
  <2> QED BY <2>1, <1>1, <1>8, Zenon DEF CacheInv, BuffersMatchCounters
<1>10. PrefetcherInOrder(f)'
  <2>1. prefetcher.pc = "put" => prefetcher.key # K
    BY <1>8, SMTT(40) DEF CacheInv, PrefetcherInOrder
  <2> QED BY <2>1, <1>1, Zenon DEF CacheInv, PrefetcherInOrder, FirstKey, Key, Bytes
<1>11. ReadersBehind(f)'
  <2>1. finished = RequestIds => finished' = RequestIds
    BY <1>2, ZenonT(40) DEF CacheInv, TypeOK
  <2> QED BY <2>1, <1>1, <1>7, ZenonT(40) DEF CacheInv, ReadersBehind, Stream, Key
<1> QED BY <1>2, <1>4, <1>5, <1>6, <1>9, <1>10, <1>11, Zenon DEF CacheInv

(* A request that nobody has started has no accounts.                       *)
LEMMA StartReadKeepsInv ==
  ASSUME NEW f \in Nat, CacheInv(f), NEW r \in Readers, NEW i \in RequestIds, StartRead(r, i)
  PROVE  CacheInv(f)'
<1> USE DEF settings, metadata
<1> DEFINE new == [pc |-> "wait", req |-> i, pos |-> Requests[i].first, n |-> 0]
<1>0. /\ TypeOK /\ ReadersInOrder /\ reader \in [Readers -> ReaderRecord]
      /\ finished \subseteq taken /\ taken \subseteq RequestIds
  BY Zenon DEF CacheInv, TypeOK, ReaderRecord
<1>1. /\ reader[r].pc = "idle" /\ i \notin taken /\ taken' = taken \union {i}
      /\ reader' = [reader EXCEPT ![r] = new]
      /\ UNCHANGED <<robc_maximum_buffers_to_cache, robci_buffers, robcm_bytes_remaining,
                     robcm_next_key_to_fetch, robcm_state, robc_reader_wait_cv,
                     robc_prefetcher_wait_cv, prefetcher, finished>>
  BY Zenon DEF StartRead, ReaderAt
<1>2. /\ i \in Nat /\ i # 0 /\ Requests[i].first \in Nat /\ Requests[i].end \in Nat
      /\ Requests[i].first < Requests[i].end
  <2>1. i \in 1 .. Len(Requests)
    BY RequestsAssumption, SMTT(40) DEF RequestIds
  <2> QED BY <2>1, RequestsAreDisjoint
<1>3. new \in ReaderRecord
  BY <1>2, Zenon DEF ReaderRecord
<1>4. /\ reader' \in [Readers -> ReaderRecord] /\ reader'[r] = new
      /\ \A q \in Readers \ {r} : reader'[q] = reader[q]
  <2> HIDE DEF new
  <2> QED BY <1>0, <1>1, <1>3, ReaderReplaced, Zenon
<1>5. /\ reader'[r].pc = "wait" /\ reader'[r].req = i /\ reader'[r].pos = Requests[i].first
  <2>1. new.pc = "wait" /\ new.req = i /\ new.pos = Requests[i].first
    OBVIOUS
  <2> HIDE DEF new
  <2> QED BY <2>1, <1>4, Zenon
<1> HIDE DEF new
<1>6. \A q \in Readers : reader[q].req # i
  BY <1>0, <1>1, <1>2, SMTT(40) DEF ReadersInOrder
<1>7. \A q \in Readers \ {r} : /\ ReaderKey(q)' = ReaderKey(q)
                               /\ BytesToCopy(q)' = BytesToCopy(q)
                               /\ Reach(q)' = Reach(q)
  BY <1>4, Zenon DEF ReaderKey, BytesToCopy, Bytes, Key, Reach
<1>8. ReadersInOrder'
  <2>1. ASSUME NEW q \in Readers \ {r}
        PROVE  /\ reader'[q].pc = "idle" => reader'[q].req = 0
               /\ reader'[q].pc # "idle" =>
                    /\ reader'[q].req \in taken' \ finished'
                    /\ Requests[reader'[q].req].first <= reader'[q].pos
                    /\ reader'[q].pos < Requests[reader'[q].req].end
                    /\ \A p \in Readers : reader'[p].req = reader'[q].req => p = q
               /\ reader'[q].pc \in {"update", "collect"} => reader'[q].n = BytesToCopy(q)'
    <3>1. reader'[q] = reader[q] /\ reader[q].req # i
      BY <1>4, <1>6, Zenon
    <3>2. \A p \in Readers : reader'[p].req = reader[q].req =>
            p # r /\ reader[p].req = reader[q].req
      BY <3>1, <1>4, <1>5, Zenon
    <3>3. /\ reader[q].pc = "idle" => reader[q].req = 0
          /\ reader[q].pc # "idle" =>
               /\ reader[q].req \in taken' \ finished'
               /\ Requests[reader[q].req].first <= reader[q].pos
               /\ reader[q].pos < Requests[reader[q].req].end
               /\ \A p \in Readers : reader[p].req = reader[q].req => p = q
          /\ reader[q].pc \in {"update", "collect"} => reader[q].n = BytesToCopy(q)
      BY <1>0, <1>1, Zenon DEF ReadersInOrder
    <3> QED BY <3>1, <3>2, <3>3, <1>7, Zenon
  <2>2. \A p \in Readers : reader'[p].req = i => p = r
    BY <1>4, <1>6, Zenon
  <2>3. i \in taken' \ finished'
    BY <1>0, <1>1, Zenon
  <2> QED BY <2>1, <2>2, <2>3, <1>2, <1>5, SMTT(40) DEF ReadersInOrder
<1>9. \A a \in Stream : Accounted(a)' <=> Accounted(a)
  <2> TAKE a \in Stream
  <2>1. a \in Nat
    BY SizesAssumption, SMTT(40) DEF Stream
  <2> DEFINE In(j) == Requests[j].first <= a /\ a < Requests[j].end
             Done(j) == j \in finished \/ \E q \in Readers : reader[q].req = j /\ a < Reach(q)
             DoneNext(j) == j \in finished' \/ \E q \in Readers : reader'[q].req = j /\ a < Reach(q)'
  <2>2. Accounted(a) <=> \E j \in taken : In(j) /\ Done(j)
    BY Zenon DEF Accounted, Reach
  <2>3. Accounted(a)' <=> \E j \in taken' : In(j) /\ DoneNext(j)
    BY Zenon DEF Accounted, Reach
  <2>4. ASSUME NEW j \in taken PROVE Done(j) <=> DoneNext(j)
    <3>1. j # i /\ j # 0
      BY <1>0, <1>1, RequestsAreDisjoint, ZenonT(40)
    <3>2. reader[r].req # j /\ reader'[r].req # j
      BY <3>1, <1>0, <1>1, <1>5, Zenon DEF ReadersInOrder
    <3> QED BY <3>2, <1>1, <1>4, <1>7, SMTT(40)
  <2>5. ~(In(i) /\ DoneNext(i))
    <3>1. Reach(r)' = Requests[i].first
      BY <1>2, <1>5, SMTT(40) DEF Reach
    <3>2. i \notin finished' /\ \A q \in Readers : reader'[q].req = i => q = r
      BY <1>0, <1>1, <1>4, <1>6, Zenon
    <3> QED BY <3>1, <3>2, <2>1, <1>2, SMTT(40)
  <2> HIDE DEF In, Done, DoneNext
  <2> QED BY <2>2, <2>3, <2>4, <2>5, <1>1, Zenon
<1>10. Counting(f)'
  BY <1>1, <1>9, NothingCounted, Zenon DEF CacheInv
<1>11. TypeOK'
  BY <1>1, <1>4, Zenon DEF CacheInv, TypeOK, ReaderRecord
<1>12. NeverFails'
  BY <1>4, <1>5, Zenon DEF CacheInv, NeverFails
<1>13. BuffersMatchCounters'
  <2>1. {ReaderKey(q)' : q \in {p \in Readers : reader'[p].pc = "collect"}} =
        {ReaderKey(q) : q \in {p \in Readers : reader[p].pc = "collect"}}
    BY <1>1, <1>4, <1>5, <1>7, SMTT(40)
  <2> QED BY <2>1, <1>1, Zenon DEF CacheInv, BuffersMatchCounters
<1>14. PrefetcherInOrder(f)'
  BY <1>1, Zenon DEF CacheInv, PrefetcherInOrder, FirstKey, Key, Bytes
<1>15. ReadersBehind(f)'
  BY <1>1, <1>4, <1>5, <1>7, Zenon DEF CacheInv, ReadersBehind, Stream, Key
<1> QED BY <1>8, <1>10, <1>11, <1>12, <1>13, <1>14, <1>15 DEF CacheInv

-----------------------------------------------------------------------------
(* A new cache has nothing in it and nothing to account for.                *)
LEMMA CacheInvInit ==
  ASSUME CacheInit
  PROVE  \E f \in Nat : CacheInv(f)
<1>0. FirstKey \in Nat
  BY KeyBounds, SizesAssumption, SMTT(40) DEF FirstKey
<1>1. \A r \in Readers : reader[r].pc = "idle" /\ reader[r].req = 0
  BY SMTT(40) DEF CacheInit, Idle
<1>2. TypeOK
  <2>1. Idle \in ReaderRecord
    BY DEF Idle, ReaderRecord
  <2>2. reader \in [Readers -> ReaderRecord]
    BY <2>1, Zenon DEF CacheInit
  <2> QED BY <2>2, <1>0, SizesAssumption, Zenon DEF CacheInit, TypeOK, PrimitiveState, ReaderRecord
<1>3. NeverFails /\ ReadersInOrder
  BY <1>1 DEF NeverFails, ReadersInOrder
<1>4. DOMAIN robcm_bytes_remaining = {}
  BY Zenon DEF CacheInit
<1>5. BuffersMatchCounters
  BY <1>1, <1>4, FS_EmptySet, SizesAssumption, SMTT(40) DEF CacheInit, BuffersMatchCounters
<1>6. \A a : ~Accounted(a)
  BY DEF Accounted, CacheInit
<1>7. \A k \in 0 .. FirstKey - 1 : Bytes(k) = {}
  <2> SUFFICES ASSUME NEW k \in 0 .. FirstKey - 1, NEW a \in Bytes(k) PROVE FALSE
    OBVIOUS
  <2> DEFINE b == robc_buffer_size
             s == robc_cache_start_address
  <2>1. a \in Nat /\ s \in Nat /\ s <= a /\ Key(a) = k /\ b \in Nat
    BY SizesAssumption DEF Bytes
  <2>2. a < k * b + b /\ FirstKey * b <= s
    BY <2>1, KeyBounds DEF FirstKey
  <2>3. (k + 1) * b <= FirstKey * b
    BY <2>1, <1>0, TimesIsMonotonic
  <2>4. k * b \in Nat /\ FirstKey * b \in Nat /\ (k + 1) * b = k * b + b
    BY <2>1, <1>0
  <2> HIDE DEF b, s
  <2> QED BY <2>1, <2>2, <2>3, <2>4
<1>8. Counting(FirstKey)
  BY <1>4, <1>6, <1>7, Zenon DEF Counting, Unaccounted
<1>9. PrefetcherInOrder(FirstKey)
  BY <1>0 DEF PrefetcherInOrder, CacheInit
<1>10. ReadersBehind(FirstKey)
  BY <1>1 DEF ReadersBehind, CacheInit
<1> QED BY <1>0, <1>2, <1>3, <1>5, <1>8, <1>9, <1>10, SMTT(40) DEF CacheInv

(* Every step of the prefetcher, the readers and the coordinator keeps it.  *)
LEMMA CacheInvNext ==
  ASSUME NEW f \in Nat, CacheInv(f), [CacheNext]_cacheVars
  PROVE  \E g \in Nat : CacheInv(g)'
<1>0. robc_reader_wait_cv \subseteq Readers /\ robc_prefetcher_wait_cv \in BOOLEAN
  BY DEF CacheInv, TypeOK
<1>1. CASE Prefetch
  BY <1>1, PrefetchKeepsInv, Zenon
<1>2. ASSUME NEW r \in Readers, ReadExact(r)
      PROVE  CacheInv(f)'
  <2>1. CASE ReadBufferWait(r)
    <3>1. /\ robc_reader_wait_cv' = robc_reader_wait_cv \union {r}
          /\ UNCHANGED <<settings, robci_buffers, metadata, robc_prefetcher_wait_cv, prefetcher,
                         reader, taken, finished>>
      BY <2>1 DEF ReadBufferWait
    <3> QED BY <3>1, <1>0, WaitingKeepsInv
  <2>2. CASE ReadBufferEnter(r)
    BY <2>2, ReadBufferEnterKeepsInv
  <2>3. CASE CopyFromBuffer(r)
    BY <2>3, CopyFromBufferKeepsInv, Zenon
  <2>4. CASE UpdateBytesFails(r)
    BY <2>4, UpdateBytesFailsKeepsInv
  <2>5. CASE UpdateBytesLeft(r)
    BY <2>5, UpdateBytesLeftKeepsInv
  <2>6. CASE UpdateBytesExhausted(r)
    BY <2>6, UpdateBytesExhaustedKeepsInv
  <2>7. CASE CollectBuffer(r)
    BY <2>7, CollectBufferKeepsInv
  <2> QED BY <1>2, <2>1, <2>2, <2>3, <2>4, <2>5, <2>6, <2>7, Zenon DEF ReadExact
<1>3. ASSUME NEW r \in Readers, NEW i \in RequestIds, StartRead(r, i)
      PROVE  CacheInv(f)'
  BY <1>3, StartReadKeepsInv
<1>4. ASSUME NEW unplanned \in BOOLEAN, Halt(unplanned)
      PROVE  CacheInv(f)'
  BY <1>4, HaltKeepsInv, Zenon
<1>5. CASE SpuriousWakeup
  <2>1. /\ robc_reader_wait_cv' \subseteq robc_reader_wait_cv
        /\ robc_prefetcher_wait_cv' \in BOOLEAN
        /\ UNCHANGED <<settings, robci_buffers, metadata, prefetcher, reader, taken, finished>>
    BY <1>0, <1>5, Zenon DEF SpuriousWakeup
  <2> QED BY <2>1, <1>0, WaitingKeepsInv
<1>6. CASE UNCHANGED cacheVars
  BY <1>0, <1>6, WaitingKeepsInv DEF cacheVars
<1> QED BY <1>1, <1>2, <1>3, <1>4, <1>5, <1>6, Zenon DEF CacheNext

(* The invariant is strong enough.                                          *)
LEMMA CacheInvSuffices ==
  ASSUME NEW f \in Nat, CacheInv(f)
  PROVE  NeverFails /\ CacheIsSound
<1>1. CountersAreExact
  <2> SUFFICES ASSUME NEW k \in DOMAIN robcm_bytes_remaining
               PROVE  /\ robcm_bytes_remaining[k] = Cardinality(Unaccounted(k))
                      /\ robcm_bytes_remaining[k] # 0
    BY DEF CountersAreExact
  <2>1. robcm_bytes_remaining[k] = Cardinality(Unaccounted(k)) /\ Unaccounted(k) # {}
    BY DEF CacheInv, Counting
  <2>2. Unaccounted(k) \in SUBSET Bytes(k)
    BY DEF Unaccounted
  <2> QED BY <2>1, <2>2, BytesAreFinite
<1> QED BY <1>1 DEF CacheInv, CacheIsSound

(* What holds always: there is a buffer up to which everything was put.     *)
CacheIsInOrder == \E f \in Nat : CacheInv(f)

(* The invariant holds in every reachable state.                            *)
LEMMA AlwaysInOrder == CacheSpec => []CacheIsInOrder
<1>1. CacheInit => CacheIsInOrder
  BY CacheInvInit DEF CacheIsInOrder
<1>2. CacheIsInOrder /\ [CacheNext]_cacheVars => CacheIsInOrder'
  <2> SUFFICES ASSUME CacheIsInOrder, [CacheNext]_cacheVars PROVE CacheIsInOrder'
    OBVIOUS
  <2>1. PICK f \in Nat : CacheInv(f)
    BY DEF CacheIsInOrder
  <2> QED BY <2>1, CacheInvNext DEF CacheIsInOrder
<1> QED BY <1>1, <1>2, PTL DEF CacheSpec

(* read_buffer_from_cache never finds its buffer gone, and update_bytes_read*)
(* never finds the counter missing or too small, for any stream, any size   *)
(* and number of buffers, and any number of readers.                        *)
THEOREM NoReadFails == CacheSpec => []NeverFails
<1>1. CacheIsInOrder => NeverFails
  BY CacheInvSuffices DEF CacheIsInOrder
<1> QED BY <1>1, AlwaysInOrder, PTL

(* The counter of a buffer is exactly what is left to be read from it, the  *)
(* buffer is there as long as the counter is, and the limit on the number   *)
(* of buffers holds, although buffers and counters have different locks.    *)
THEOREM CacheStaysSound == CacheSpec => []CacheIsSound
<1>1. CacheIsInOrder => CacheIsSound
  BY CacheInvSuffices DEF CacheIsInOrder
<1> QED BY <1>1, AlwaysInOrder, PTL
============================================================================
