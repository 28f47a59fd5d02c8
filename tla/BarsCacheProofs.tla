--------------------------- MODULE BarsCacheProofs ---------------------------
(* Proofs about BarsCache: the shared store is exact, and the cache answers  *)
(* as BarsFetcher promises, for any number of processes, symbols, calls and  *)
(* failures, and any division into days, months and batches.                 *)
EXTENDS BarsCache, WellFoundedInduction, TLAPS

\* Integer division: the quotient's bounds, stated without division.
LEMMA Quotient ==
  ASSUME NEW n \in Nat, NEW d \in Nat \ {0}
  PROVE  /\ n \div d \in Nat
         /\ (n \div d) * d <= n
         /\ n < ((n \div d) + 1) * d
  OBVIOUS

\* The start of the day never moves back: StartOfDay as a function of the clock.
LEMMA DaysPass ==
  ASSUME NEW n \in Nat, NEW m \in Nat, n <= m, NEW d \in Nat \ {0}
  PROVE  (n \div d) * d <= (m \div d) * d
  <1> DEFINE q == n \div d
             p == m \div d
  <1>1. q \in Nat /\ q * d <= n
    BY Quotient
  <1>2. p \in Nat /\ m < (p + 1) * d
    BY Quotient
  <1> HIDE DEF q, p
  <1>3. q <= p
    <2>1. SUFFICES ASSUME p + 1 <= q  PROVE FALSE
      BY <1>1, <1>2
    <2>2. (p + 1) * d <= q * d
      BY <1>1, <1>2, <2>1
    <2> QED  BY <1>1, <1>2, <2>2
  <1>4. q * d <= p * d
    BY <1>1, <1>2, <1>3
  <1> QED  BY <1>4 DEF q, p

\* A chunk that has nothing is exact.
LEMMA EmptyExact == \A k \in Keys : Exact(k, Empty)
  BY DEF Exact, Empty

\* What the provider answers about slots that are over is all it will ever have.
LEMMA FetchedAll ==
  ASSUME NEW s \in Symbols, NEW a \in Nat, NEW b \in Nat, clock \in Nat, b <= StartOfDay
  PROVE  Fetched(s, a, b) = Range(a, b) \cap Traded[s]
  <1>1. StartOfDay \in Nat /\ StartOfDay <= clock
    <2>1. clock \div DayLength \in Nat /\ (clock \div DayLength) * DayLength <= clock
      BY Quotient, CacheAssumption
    <2> QED  BY <2>1, CacheAssumption DEF StartOfDay
  <1>2. Traded[s] \subseteq Slots /\ Slots \subseteq Int
    BY CacheAssumption DEF Slots
  <1>3. ASSUME NEW t \in Slots, t < b  PROVE t < clock
    BY <1>1, <1>2, <1>3
  <1> QED  BY <1>2, <1>3 DEF Fetched, Range

\* A gap ends inside what the call may cache.
LEMMA GapsOver ==
  ASSUME NEW c \in Clients, CacheTyped, NEW chunks, NEW g \in Gaps(c, chunks)
  PROVE  g \in Gap /\ g.to <= today[c]
  <1> DEFINE missing(s) ==
        UNION {Wanted(c, k) \ chunks[k].coverage : k \in {j \in Batch(c) : j[1] = s}}
      needed == UNION {Intervals(missing(s)) : s \in Symbols}
  <1>1. PICK i \in needed : g = [from |-> i[1], to |-> i[2],
                                syms |-> {s \in Symbols : i \in Intervals(missing(s))}]
    BY DEF Gaps
  <1>2. PICK s \in Symbols : i \in Intervals(missing(s))
    BY <1>1
  <1>3. /\ i[1] \in 0..Horizon /\ i[2] \in 0..Horizon /\ i[1] < i[2]
        /\ Range(i[1], i[2]) \subseteq missing(s)
    <2> HIDE DEF missing
    <2> QED  BY <1>2 DEF Intervals
  <1>4. i[2] - 1 \in Range(i[1], i[2])
    BY <1>3, CacheAssumption DEF Range, Slots
  <1>5. PICK k \in Batch(c) : i[2] - 1 \in Wanted(c, k)
    BY <1>3, <1>4
  <1>6. i[2] - 1 < today[c]
    <2>1. asked[c].to \in Nat /\ today[c] \in Nat
      BY DEF CacheTyped
    <2>2. i[2] - 1 < CacheEnd(c)
      BY <1>5 DEF Wanted, Range
    <2> QED  BY <2>1, <2>2, <1>3, CacheAssumption DEF CacheEnd, Smaller
  <1>7. today[c] \in Nat /\ Horizon \in Nat
    BY CacheAssumption DEF CacheTyped
  <1>8. g.to <= today[c]
    BY <1>1, <1>3, <1>6, <1>7
  <1>9. g \in Gap
    <2> HIDE DEF missing, needed
    <2> QED  BY <1>1, <1>3 DEF Gap
  <1> QED  BY <1>8, <1>9

-----------------------------------------------------------------------------

\* The start of the day is a time, not after now.
LEMMA StartOfDayNat ==
  ASSUME clock \in Nat  PROVE StartOfDay \in Nat /\ StartOfDay <= clock
  <1>1. clock \div DayLength \in Nat /\ (clock \div DayLength) * DayLength <= clock
    BY Quotient, CacheAssumption
  <1> QED  BY <1>1, CacheAssumption DEF StartOfDay

\* A payload that is exact if it decodes gives an exact chunk.
LEMMA ChunkExact ==
  ASSUME NEW c \in Clients, NEW k \in Keys, CacheTyped, StoreExact
  PROVE  Chunk(c, k) \in ChunkType /\ Exact(k, Chunk(c, k))
  <1>1. store[k].rows \in SUBSET Slots /\ store[k].coverage \in SUBSET Slots
    BY DEF CacheTyped
  <1>2. CASE Decodes(k, store[k])
    <2>1. Exact(k, store[k])
      BY <1>2 DEF StoreExact
    <2> QED  BY <1>1, <1>2, <2>1 DEF Chunk, Exact, ChunkType
  <1>3. CASE ~Decodes(k, store[k])
    BY <1>3 DEF Chunk, Exact, ChunkType, Empty
  <1> QED  BY <1>2, <1>3

LEMMA InitCacheInv == Init => CacheInv
  <1> SUFFICES ASSUME Init  PROVE CacheInv
    OBVIOUS
  <1>1. CacheTyped
    BY CacheAssumption DEF Init, CacheTyped, Absent, Empty, NoCall, ChunkType
  <1>2. StoreExact
    BY DEF Init, StoreExact, Exact, Absent
  <1>3. CallsExact
    <2>1. StartOfDay \in Nat
      BY <1>1, StartOfDayNat DEF CacheTyped
    <2> QED  BY <2>1 DEF Init, CallsExact, Exact, Empty
  <1> QED  BY <1>1, <1>2, <1>3 DEF CacheInv

\* A client that gives up its call leaves nothing behind.
LEMMA IdleKeeps ==
  ASSUME CacheInv, NEW c \in Clients, Idle(c), UNCHANGED <<clock, store>>
  PROVE  CacheInv'
  <1>1. CacheTyped'
    BY DEF CacheInv, CacheTyped, Idle, NoCall, Empty, ChunkType
  <1>2. StoreExact'
    BY DEF CacheInv, StoreExact, Exact, Decodes, StartOfDay
  <1>3. CallsExact'
    <2>1. StartOfDay \in Nat /\ StartOfDay' = StartOfDay
      BY StartOfDayNat DEF CacheInv, CacheTyped, StartOfDay
    <2>2. ASSUME NEW d \in Clients
          PROVE  /\ today'[d] <= StartOfDay
                 /\ \A k \in Keys : Exact(k, entries'[d][k])
                 /\ \A g \in gaps'[d] : g.to <= StartOfDay
      <3>1. CASE d = c
        BY <3>1, <2>1 DEF CacheInv, CacheTyped, Idle, Exact, Empty
      <3>2. CASE d # c
        BY <3>2 DEF CacheInv, CacheTyped, CallsExact, Idle
      <3> QED  BY <3>1, <3>2
    <2> QED  BY <2>1, <2>2 DEF CallsExact, Exact
  <1> QED  BY <1>1, <1>2, <1>3 DEF CacheInv

\* The store keeps exact while time stands still and it is not written.
LEMMA StoreKept ==
  ASSUME StoreExact, UNCHANGED <<clock, store>>  PROVE StoreExact'
  BY DEF StoreExact, Exact, Decodes, StartOfDay

\* A step of one client that leaves clock and store alone keeps the other
\* clients' part of the invariant.
LEMMA OneClient ==
  ASSUME CacheInv, UNCHANGED <<clock, store>>, CacheTyped', NEW c \in Clients,
         \A d \in Clients \ {c} : /\ today'[d] = today[d] /\ entries'[d] = entries[d]
                                 /\ gaps'[d] = gaps[d],
         today'[c] <= StartOfDay,
         \A k \in Keys : Exact(k, entries'[c][k]),
         \A g \in gaps'[c] : g.to <= StartOfDay
  PROVE  CacheInv'
  <1>1. StartOfDay' = StartOfDay
    BY DEF StartOfDay
  <1>2. StoreExact'
    BY StoreKept DEF CacheInv
  <1>3. ASSUME NEW d \in Clients
        PROVE  /\ today'[d] <= StartOfDay
               /\ \A k \in Keys : Exact(k, entries'[d][k])
               /\ \A g \in gaps'[d] : g.to <= StartOfDay
    <2>1. CASE d = c
      BY <2>1
    <2>2. CASE d # c
      BY <2>2 DEF CacheInv, CallsExact
    <2> QED  BY <2>1, <2>2
  <1>4. CallsExact'
    BY <1>1, <1>3 DEF CallsExact, Exact
  <1> QED  BY <1>2, <1>4 DEF CacheInv

LEMMA CallKeeps ==
  ASSUME CacheInv, NEW c \in Clients, NEW r \in Requests, Call(c, r)
  PROVE  CacheInv'
  <1>1. StartOfDay \in Nat
    BY StartOfDayNat DEF CacheInv, CacheTyped
  <1>2. r \in [syms : Seq(Symbols), from : 0..Horizon, to : 0..Horizon] /\ Horizon \in Nat
    BY CacheAssumption
  <1>3. CacheTyped'
    BY <1>1, <1>2 DEF CacheInv, CacheTyped, Call
  <1> QED
    <2>1. today'[c] <= StartOfDay
      BY <1>1 DEF CacheInv, CacheTyped, Call
    <2>2. \A d \in Clients \ {c} : today'[d] = today[d]
      BY DEF CacheInv, CacheTyped, Call
    <2>3. UNCHANGED <<clock, store, entries, gaps>>
      BY DEF Call
    <2> QED  BY <1>3, <2>1, <2>2, <2>3, OneClient DEF CacheInv, CallsExact

\* Exact chunks are loaded, and the gaps they leave end before today.
LEMMA LoadedKeeps ==
  ASSUME CacheInv, NEW c \in Clients, NEW chunks \in [Keys -> ChunkType], Loaded(c, chunks),
         \A k \in Keys : Exact(k, chunks[k])
  PROVE  CacheInv'
  <1>1. StartOfDay \in Nat /\ today[c] \in Nat /\ today[c] <= StartOfDay
    BY StartOfDayNat DEF CacheInv, CacheTyped, CallsExact
  <1>2. \A g \in Gaps(c, chunks) : g \in Gap /\ g.to <= today[c]
    BY GapsOver DEF CacheInv
  <1>3. \A g \in Gaps(c, chunks) : g.to <= StartOfDay
    <2>1. \A g \in Gap : g.to \in Int
      BY DEF Gap
    <2> QED  BY <1>1, <1>2, <2>1
  <1>4. Gaps(c, chunks) \in SUBSET Gap
    BY <1>2
  <1>5. CacheTyped'
    BY <1>4 DEF CacheInv, CacheTyped, Loaded
  <1>6. /\ today'[c] <= StartOfDay
        /\ entries'[c] = chunks /\ gaps'[c] = Gaps(c, chunks)
        /\ UNCHANGED <<clock, store, today>>
        /\ \A d \in Clients \ {c} : entries'[d] = entries[d] /\ gaps'[d] = gaps[d]
    BY <1>1 DEF CacheInv, CacheTyped, Loaded
  <1> QED  BY <1>3, <1>5, <1>6, OneClient

LEMMA ReadBatchKeeps ==
  ASSUME CacheInv, NEW c \in Clients, ReadBatch(c)
  PROVE  CacheInv'
  <1> DEFINE chunks == [k \in Keys |-> IF k \in Batch(c) /\ ~broken[c] THEN Chunk(c, k) ELSE Empty]
  <1>1. \A k \in Keys : chunks[k] \in ChunkType /\ Exact(k, chunks[k])
    <2>1. \A k \in Keys : Empty \in ChunkType /\ Exact(k, Empty)
      BY DEF Exact, Empty, ChunkType
    <2>2. \A k \in Keys : Chunk(c, k) \in ChunkType /\ Exact(k, Chunk(c, k))
      BY ChunkExact DEF CacheInv
    <2> QED  BY <2>1, <2>2
  <1>2. chunks \in [Keys -> ChunkType]
    BY <1>1
  <1>3. Loaded(c, chunks)
    BY DEF ReadBatch
  <1> HIDE DEF chunks
  <1> QED  BY <1>1, <1>2, <1>3, LoadedKeeps

LEMMA ReadFailsKeeps ==
  ASSUME CacheInv, NEW c \in Clients, ReadFails(c)
  PROVE  CacheInv'
  <1> DEFINE chunks == [k \in Keys |-> Empty]
  <1>1. \A k \in Keys : chunks[k] \in ChunkType /\ Exact(k, chunks[k])
    BY DEF Exact, Empty, ChunkType
  <1>2. chunks \in [Keys -> ChunkType]
    BY <1>1
  <1>3. Loaded(c, chunks)
    BY DEF ReadFails
  <1> HIDE DEF chunks
  <1> QED  BY <1>1, <1>2, <1>3, LoadedKeeps

\* Merging what was fetched for an interval that is over keeps a chunk exact.
LEMMA MergeExact ==
  ASSUME NEW k \in Keys, NEW chunk \in ChunkType, Exact(k, chunk), clock \in Nat,
         NEW a \in Nat, NEW b \in Nat, b <= StartOfDay,
         NEW merged,
         merged = [rows     |-> chunk.rows \cup (MonthOf(k[2]) \cap Fetched(k[1], a, b)),
                   coverage |-> chunk.coverage \cup (MonthOf(k[2]) \cap Range(a, b))]
  PROVE  merged \in ChunkType /\ Exact(k, merged)
  <1>1. k[1] \in Symbols
    BY DEF Keys
  <1>2. Fetched(k[1], a, b) = Range(a, b) \cap Traded[k[1]]
    BY <1>1, FetchedAll
  <1>3. \A t \in Range(a, b) : t \in Slots /\ t < b
    BY DEF Range
  <1>4. merged \in ChunkType
    BY <1>2, <1>3 DEF ChunkType
  <1>5. merged.rows = merged.coverage \cap Traded[k[1]]
    BY <1>2 DEF Exact
  <1>6. ASSUME NEW t \in merged.coverage  PROVE t < StartOfDay
    <2>1. CASE t \in chunk.coverage
      BY <2>1 DEF Exact
    <2>2. CASE t \in Range(a, b)
      <3>1. StartOfDay \in Nat
        BY StartOfDayNat
      <3>2. t \in Int
        BY <1>3, <2>2, CacheAssumption DEF Slots
      <3> QED  BY <1>3, <2>2, <3>1, <3>2
    <2> QED  BY <1>6, <2>1, <2>2
  <1> QED  BY <1>4, <1>5, <1>6 DEF Exact

LEMMA FetchGapKeeps ==
  ASSUME CacheInv, NEW c \in Clients, NEW g \in gaps[c], FetchGap(c, g)
  PROVE  CacheInv'
  <1> DEFINE hit == {k \in Batch(c) :
                       k[1] \in g.syms /\ MonthOf(k[2]) \cap Range(g.from, g.to) # {}}
             old == entries[c]
             Merged(k) ==
               [rows     |-> old[k].rows \cup (MonthOf(k[2]) \cap Fetched(k[1], g.from, g.to)),
                coverage |-> old[k].coverage \cup (MonthOf(k[2]) \cap Range(g.from, g.to))]
             new == [k \in Keys |-> IF k \in hit THEN Merged(k) ELSE old[k]]
  <1>1. clock \in Nat /\ old \in [Keys -> ChunkType] /\ g \in Gap
    BY DEF CacheInv, CacheTyped
  <1>2. g.from \in Nat /\ g.to \in Nat /\ g.to <= StartOfDay
    BY <1>1, CacheAssumption DEF Gap, CacheInv, CallsExact
  <1>3. ASSUME NEW k \in Keys  PROVE new[k] \in ChunkType /\ Exact(k, new[k])
    <2>1. old[k] \in ChunkType /\ Exact(k, old[k])
      BY <1>1 DEF CacheInv, CallsExact
    <2>2. Merged(k) \in ChunkType /\ Exact(k, Merged(k))
      BY <1>1, <1>2, <2>1, MergeExact
    <2> HIDE DEF Merged, hit, old
    <2> QED  BY <2>1, <2>2
  <1>4. entries' = [entries EXCEPT ![c] = new]
    BY DEF FetchGap
  <1>5. new \in [Keys -> ChunkType]
    <2> HIDE DEF new
    <2>1. \A k \in Keys : new[k] \in ChunkType
      BY <1>3
    <2>2. new = [k \in Keys |-> new[k]]
      BY DEF new
    <2> QED  BY <2>1, <2>2
  <1> HIDE DEF new
  <1>6. CacheTyped'
    BY <1>4, <1>5 DEF CacheInv, CacheTyped, FetchGap
  <1>7. /\ entries'[c] = new /\ gaps'[c] \subseteq gaps[c]
        /\ UNCHANGED <<clock, store, today>>
        /\ \A d \in Clients \ {c} : entries'[d] = entries[d] /\ gaps'[d] = gaps[d]
    BY <1>4 DEF CacheInv, CacheTyped, FetchGap
  <1>8. today[c] <= StartOfDay /\ \A h \in gaps[c] : h.to <= StartOfDay
    BY DEF CacheInv, CallsExact
  <1> QED  BY <1>3, <1>6, <1>7, <1>8, OneClient

\* Whatever subset of a batch reaches the store, the store stays exact.
LEMMA WriteKeeps ==
  ASSUME CacheInv, NEW c \in Clients, BatchDone(c), NEW written,
         store' = [k \in Keys |-> IF k \in written THEN Payload(k, entries[c][k]) ELSE store[k]]
  PROVE  CacheInv'
  <1>1. UNCHANGED <<clock, asked, today, gaps>> /\ StartOfDay' = StartOfDay
    BY DEF BatchDone, StartOfDay
  <1>2. entries' = [entries EXCEPT ![c] = [k \in Keys |-> Empty]]
    BY DEF BatchDone
  <1>3. \A k \in Keys : entries[c][k] \in ChunkType /\ Exact(k, entries[c][k])
    BY DEF CacheInv, CacheTyped, CallsExact
  <1>4. \A k \in Keys : /\ store[k].key \in Keys \cup {<<>>}
                        /\ store[k] \in [key : Keys \cup {<<>>}, rows : SUBSET Slots,
                                         coverage : SUBSET Slots]
    BY DEF CacheInv, CacheTyped
  <1>5. \A k \in Keys : Payload(k, entries[c][k]) \in
          [key : Keys \cup {<<>>}, rows : SUBSET Slots, coverage : SUBSET Slots]
    BY <1>3 DEF Payload, ChunkType
  <1>6. CacheTyped'
    <2>1. entries' \in [Clients -> [Keys -> ChunkType]]
      BY <1>2 DEF CacheInv, CacheTyped, Empty, ChunkType
    <2>2. store' \in [Keys -> [key : Keys \cup {<<>>}, rows : SUBSET Slots,
                              coverage : SUBSET Slots]]
      BY <1>4, <1>5
    <2> QED  BY <1>1, <2>1, <2>2 DEF CacheInv, CacheTyped
  <1>7. ASSUME NEW k \in Keys, Decodes(k, store'[k])  PROVE Exact(k, store'[k])
    <2>1. CASE k \in written
      <3>1. store'[k] = Payload(k, entries[c][k])
        BY <2>1
      <3> QED  BY <3>1, <1>3 DEF Payload, Exact
    <2>2. CASE k \notin written
      <3>1. store'[k] = store[k]
        BY <2>2
      <3> QED  BY <3>1, <1>7 DEF CacheInv, StoreExact
    <2> QED  BY <2>1, <2>2
  <1>8. StoreExact'
    BY <1>1, <1>7 DEF StoreExact, Exact, Decodes
  <1>9. ASSUME NEW d \in Clients
        PROVE  /\ today'[d] <= StartOfDay
               /\ \A k \in Keys : Exact(k, entries'[d][k])
               /\ \A g \in gaps'[d] : g.to <= StartOfDay
    <2>1. CASE d = c
      <3>1. \A k \in Keys : entries'[d][k] = Empty
        BY <1>2, <2>1 DEF CacheInv, CacheTyped
      <3> QED  BY <1>1, <3>1, EmptyExact DEF CacheInv, CallsExact
    <2>2. CASE d # c
      BY <1>1, <1>2, <2>2 DEF CacheInv, CacheTyped, CallsExact
    <2> QED  BY <2>1, <2>2
  <1>10. CallsExact'
    BY <1>1, <1>9 DEF CallsExact, Exact
  <1> QED  BY <1>6, <1>8, <1>10 DEF CacheInv

LEMMA WriteBatchKeeps ==
  ASSUME CacheInv, NEW c \in Clients, WriteBatch(c)
  PROVE  CacheInv'
  <1> DEFINE written == {k \in changed[c] : ~broken[c]}
  <1>1. store' = [k \in Keys |-> IF k \in written THEN Payload(k, entries[c][k]) ELSE store[k]]
    BY DEF WriteBatch
  <1>2. BatchDone(c)
    BY DEF WriteBatch
  <1> HIDE DEF written
  <1> QED  BY <1>1, <1>2, WriteKeeps

LEMMA WriteFailsKeeps ==
  ASSUME CacheInv, NEW c \in Clients, WriteFails(c)
  PROVE  CacheInv'
  <1>1. BatchDone(c)
    BY DEF WriteFails
  <1>2. CASE UNCHANGED store
    <2> DEFINE none == {}
    <2>1. store' = [k \in Keys |-> IF k \in none THEN Payload(k, entries[c][k]) ELSE store[k]]
      BY <1>2 DEF CacheInv, CacheTyped
    <2> HIDE DEF none
    <2> QED  BY <1>1, <2>1, WriteKeeps
  <1>3. ASSUME NEW k \in changed[c],
               store' = [j \in Keys |-> IF j \in changed[c] \ {k}
                                       THEN Payload(j, entries[c][j]) ELSE store[j]]
        PROVE  CacheInv'
    BY <1>1, <1>3, WriteKeeps
  <1> QED  BY <1>2, <1>3 DEF WriteFails

\* Answering, raising and dying all end the call.
LEMMA EndsKeep ==
  ASSUME CacheInv, NEW c \in Clients, FetchTail(c) \/ Return(c) \/ FetchFails(c) \/ Dies(c)
  PROVE  CacheInv'
  <1>1. Idle(c) /\ UNCHANGED <<clock, store>>
    BY DEF FetchTail, Return, FetchFails, Dies, Answered
  <1> QED  BY <1>1, IdleKeeps

\* Days pass: what was over stays over.
LEMMA SlotEndsKeeps ==
  ASSUME CacheInv, SlotEnds  PROVE CacheInv'
  <1>1. clock \in Nat /\ clock' \in Nat /\ clock <= clock'
    BY DEF SlotEnds, CacheInv, CacheTyped
  <1>2. StartOfDay \in Nat /\ StartOfDay' \in Nat /\ StartOfDay <= StartOfDay'
    <2>1. clock \div DayLength \in Nat /\ clock' \div DayLength \in Nat
      BY <1>1, Quotient, CacheAssumption
    <2>2. (clock \div DayLength) * DayLength <= (clock' \div DayLength) * DayLength
      BY <1>1, DaysPass, CacheAssumption
    <2> QED  BY <2>1, <2>2, CacheAssumption DEF StartOfDay
  <1>3. UNCHANGED <<store, asked, today, entries, gaps>>
    BY DEF SlotEnds, localVars
  <1>4. CacheTyped'
    BY <1>1, <1>3 DEF CacheInv, CacheTyped
  <1>5. StoreExact'
    <2>1. ASSUME NEW k \in Keys, Decodes(k, store[k])  PROVE Exact(k, store[k])'
      <3>1. store[k].coverage \subseteq Slots /\ Exact(k, store[k])
        BY <2>1 DEF CacheInv, CacheTyped, StoreExact
      <3>2. \A t \in store[k].coverage : t < StartOfDay'
        BY <3>1, <1>2, CacheAssumption DEF Exact, Slots
      <3> QED  BY <3>1, <3>2, <1>3 DEF Exact
    <2> QED  BY <2>1, <1>3 DEF StoreExact, Decodes
  <1>6. CallsExact'
    <2>1. ASSUME NEW c \in Clients
          PROVE  /\ today[c] <= StartOfDay'
                 /\ \A k \in Keys : Exact(k, entries[c][k])'
                 /\ \A g \in gaps[c] : g.to <= StartOfDay'
      <3>1. today[c] \in Nat /\ today[c] <= StartOfDay
        BY DEF CacheInv, CacheTyped, CallsExact
      <3>2. ASSUME NEW k \in Keys  PROVE Exact(k, entries[c][k])'
        <4>1. entries[c][k].coverage \subseteq Slots /\ Exact(k, entries[c][k])
          BY DEF CacheInv, CacheTyped, CallsExact, ChunkType
        <4>2. \A t \in entries[c][k].coverage : t < StartOfDay'
          BY <4>1, <1>2, CacheAssumption DEF Exact, Slots
        <4> QED  BY <4>1, <4>2, <1>3 DEF Exact
      <3>3. ASSUME NEW g \in gaps[c]  PROVE g.to <= StartOfDay'
        <4>1. g.to \in Nat /\ g.to <= StartOfDay
          BY CacheAssumption DEF CacheInv, CacheTyped, CallsExact, Gap
        <4> QED  BY <4>1, <1>2
      <3> QED  BY <1>2, <3>1, <3>2, <3>3
    <2> QED  BY <2>1, <1>3 DEF CallsExact
  <1> QED  BY <1>4, <1>5, <1>6 DEF CacheInv

\* Damage either cannot be decoded or says nothing.
LEMMA DamageKeeps ==
  ASSUME CacheInv, NEW k \in Keys, NEW p \in Damages(k), StoreDamaged(k, p)
  PROVE  CacheInv'
  <1>1. UNCHANGED <<clock, asked, today, entries, gaps>> /\ StartOfDay' = StartOfDay
    BY DEF StoreDamaged, localVars, StartOfDay
  <1>2. store' = [store EXCEPT ![k] = p]
    BY DEF StoreDamaged
  <1> DEFINE PayloadType == [key : Keys \cup {<<>>}, rows : SUBSET Slots, coverage : SUBSET Slots]
  <1>3. store \in [Keys -> PayloadType]
    BY DEF CacheInv, CacheTyped
  <1>4. p \in PayloadType /\ (p = Absent \/ p.key # k \/ ~(p.rows \subseteq p.coverage))
    <2>1. CASE p = Absent
      BY <2>1 DEF Absent
    <2>2. CASE p \in {q \in {store[j] : j \in Keys} : q.key # k}
      BY <2>2, <1>3
    <2>3. CASE p \in {q \in {[store[k] EXCEPT !.rows = MonthOf(k[2])],
                             [store[k] EXCEPT !.coverage = {}]} : ~(q.rows \subseteq q.coverage)}
      <3>1. MonthOf(k[2]) \subseteq Slots
        BY DEF MonthOf, Range
      <3>2. \A q \in PayloadType : /\ [q EXCEPT !.rows = MonthOf(k[2])] \in PayloadType
                                   /\ [q EXCEPT !.coverage = {}] \in PayloadType
        BY <3>1
      <3> QED  BY <3>2, <2>3, <1>3
    <2> QED  BY <2>1, <2>2, <2>3 DEF Damages
  <1>5. Decodes(k, p) => Exact(k, p)
    <2>1. CASE p = Absent
      BY <2>1 DEF Absent, Exact
    <2>2. CASE p # Absent
      BY <2>2, <1>4 DEF Decodes
    <2> QED  BY <2>1, <2>2
  <1>6. CacheTyped'
    BY <1>1, <1>2, <1>3, <1>4 DEF CacheInv, CacheTyped
  <1>7. \A j \in Keys : Decodes(j, store'[j]) => Exact(j, store'[j])
    BY <1>2, <1>3, <1>5 DEF CacheInv, StoreExact
  <1>8. StoreExact'
    BY <1>1, <1>7 DEF StoreExact, Exact, Decodes
  <1>9. CallsExact'
    BY <1>1 DEF CacheInv, CallsExact, Exact
  <1> QED  BY <1>6, <1>8, <1>9 DEF CacheInv

LEMMA NextKeeps ==
  ASSUME CacheInv, [Next]_vars  PROVE CacheInv'
  <1>1. CASE SlotEnds
    BY <1>1, SlotEndsKeeps
  <1>2. ASSUME NEW c \in Clients, Client(c)  PROVE CacheInv'
    <2>1. CASE ReadBatch(c) \/ ReadFails(c)
      BY <2>1, ReadBatchKeeps, ReadFailsKeeps
    <2>2. CASE WriteBatch(c) \/ WriteFails(c)
      BY <2>2, WriteBatchKeeps, WriteFailsKeeps
    <2>3. CASE FetchTail(c) \/ Return(c) \/ FetchFails(c) \/ Dies(c)
      BY <2>3, EndsKeep
    <2>4. ASSUME NEW r \in Requests, Call(c, r)  PROVE CacheInv'
      BY <2>4, CallKeeps
    <2>5. ASSUME NEW g \in gaps[c], FetchGap(c, g)  PROVE CacheInv'
      BY <2>5, FetchGapKeeps
    <2> QED  BY <1>2, <2>1, <2>2, <2>3, <2>4, <2>5 DEF Client
  <1>3. ASSUME NEW k \in Keys, NEW p \in Damages(k), StoreDamaged(k, p)  PROVE CacheInv'
    BY <1>3, DamageKeeps
  <1>4. CASE UNCHANGED vars
    BY <1>4 DEF vars, localVars, CacheInv, CacheTyped, StoreExact, CallsExact, Exact, Decodes,
                StartOfDay
  <1> QED  BY <1>1, <1>2, <1>3, <1>4 DEF Next

\* The calls of every process work on exact chunks, on a shared store that is
\* exact, whatever they interleave with.
THEOREM CacheInvariance == Spec => []CacheInv
  <1>1. Init => CacheInv
    BY InitCacheInv
  <1>2. CacheInv /\ [Next]_vars => CacheInv'
    BY NextKeeps
  <1> QED  BY <1>1, <1>2, PTL DEF Spec

\* No interleaving of writers attaches coverage to rows it was not fetched
\* with: bars.py's promise about "stale writers", for any number of them.
THEOREM SharedStoreExact == Spec => []StoreExact
  <1>1. CacheInv => StoreExact
    BY DEF CacheInv
  <1> QED  BY <1>1, CacheInvariance, PTL

-----------------------------------------------------------------------------
(* The refinement: what a call has collected, against what it was asked for. *)

\* The chunks of the first n requests of a call.
Processed(c, n) == {Key(c, i) : i \in 1..n}

\* What the provider has, at any time, of the slots of these chunks the call
\* may take from the cache.
Bars(c, keys) ==
  [s \in Symbols |-> UNION {Wanted(c, k) \cap Traded[s] : k \in {j \in keys : j[1] = s}}]

\* Each slot the call wants of a chunk is in it, or in a gap still to be fetched.
Covered(c, k) ==
  \A t \in Wanted(c, k) :
    \/ t \in entries[c][k].coverage
    \/ \E g \in gaps[c] : k[1] \in g.syms /\ t \in Range(g.from, g.to)

\* A call in progress has exactly what the chunks it is done with have to give.
CallInv(c) ==
  /\ pc[c] = "idle" => done[c] = 0 /\ result[c] = Nothing
  /\ pc[c] # "idle" =>
       /\ asked[c].from <= asked[c].to /\ asked[c].to <= Horizon
       /\ today[c] <= asked[c].at /\ asked[c].at <= clock
       /\ done[c] <= NumRequests(c)
       /\ result[c] = Bars(c, Processed(c, done[c]))
  /\ pc[c] = "fetch" => \A k \in Batch(c) : Covered(c, k)

FetcherInv ==
  /\ pc \in [Clients -> {"idle", "read", "fetch"}] /\ done \in [Clients -> Nat]
  /\ result \in [Clients -> [Symbols -> SUBSET Slots]]
  /\ answer \in [Clients -> [Symbols -> SUBSET Slots]]
  /\ \A c \in Clients : CallInv(c)

\* Quotient and remainder are the only numbers of their kind.
LEMMA Division ==
  ASSUME NEW n \in Nat \ {0}, NEW q \in Nat, NEW r \in 0..n - 1
  PROVE  (q * n + r) \div n = q /\ (q * n + r) % n = r
  <1> DEFINE i == q * n + r
             p == i \div n
             e == i % n
  <1>1. i \in Nat /\ i = q * n + r
    OBVIOUS
  <1>2. p \in Nat /\ e \in 0..n - 1 /\ i = n * p + e
    <2> HIDE DEF i
    <2> QED  BY <1>1
  <1> HIDE DEF i, p, e
  <1>3. q = p
    <2>1. ASSUME q + 1 <= p  PROVE FALSE
      <3>1. (q + 1) * n <= p * n
        BY <1>2, <2>1
      <3> QED  BY <1>1, <1>2, <3>1
    <2>2. ASSUME p + 1 <= q  PROVE FALSE
      <3>1. (p + 1) * n <= q * n
        BY <1>2, <2>2
      <3> QED  BY <1>1, <1>2, <3>1
    <2> QED  BY <1>2, <2>1, <2>2
  <1> QED  BY <1>1, <1>2, <1>3 DEF i, p, e

\* A number below a product has its quotient below the factor.
LEMMA QuotientBelow ==
  ASSUME NEW m \in Nat, NEW n \in Nat, NEW i \in 1..m * n
  PROVE  /\ n # 0 /\ m # 0
         /\ (i - 1) \div n \in 0..m - 1
         /\ (i - 1) % n \in 0..n - 1
  <1>1. n # 0 /\ m # 0 /\ i - 1 \in Nat /\ i - 1 < m * n
    OBVIOUS
  <1> DEFINE q == (i - 1) \div n
  <1>2. q \in Nat /\ q * n <= i - 1
    BY <1>1, Quotient
  <1> HIDE DEF q
  <1>3. q < m
    <2>1. ASSUME m <= q  PROVE FALSE
      <3>1. m * n <= q * n
        BY <1>2, <2>1
      <3> QED  BY <1>1, <1>2, <3>1
    <2> QED  BY <1>2, <2>1
  <1>4. (i - 1) % n \in 0..n - 1
    BY <1>1
  <1> QED  BY <1>1, <1>2, <1>3, <1>4 DEF q

\* The n-th number of a row of numbers before m, for each row.
LEMMA ProductAbove ==
  ASSUME NEW m \in Nat, NEW n \in Nat \ {0}, NEW q \in 0..m - 1, NEW r \in 0..n - 1
  PROVE  q * n + r + 1 \in 1..m * n
  <1>1. (q + 1) * n <= m * n
    OBVIOUS
  <1>2. (q + 1) * n = q * n + n /\ q * n \in Nat /\ m * n \in Nat
    OBVIOUS
  <1> QED  BY <1>1, <1>2

\* Later slots are of the same month or of a later one.
LEMMA MonthsPass ==
  ASSUME NEW n \in Nat, NEW m \in Nat, n <= m, NEW d \in Nat \ {0}
  PROVE  n \div d <= m \div d
  <1> DEFINE q == n \div d
             p == m \div d
  <1>1. q \in Nat /\ q * d <= n
    BY Quotient
  <1>2. p \in Nat /\ m < (p + 1) * d
    BY Quotient
  <1> HIDE DEF q, p
  <1>3. SUFFICES ASSUME p + 1 <= q  PROVE FALSE
    BY <1>1, <1>2 DEF q, p
  <1>4. (p + 1) * d <= q * d
    BY <1>1, <1>2, <1>3
  <1> QED  BY <1>1, <1>2, <1>4

\* Every set of numbers has a least one.
LEMMA LeastNumber ==
  ASSUME NEW T \in SUBSET Nat, T # {}
  PROVE  \E n \in T : \A m \in T : n <= m
  <1>1. PICK n \in T : \A m \in T : ~(<<m, n>> \in OpToRel(<, Nat))
    BY NatLessThanWellFounded, WFMin, Zenon
  <1>2. \A m \in T : ~(m < n)
    BY <1>1, Zenon DEF OpToRel
  <1> QED  BY <1>2

\* Whatever is missing lies in an interval that is fetched whole.
LEMMA IntervalsCover ==
  ASSUME NEW S \in SUBSET Slots, NEW t \in S
  PROVE  \E i \in Intervals(S) : t \in Range(i[1], i[2])
  <1>1. Slots \subseteq Nat /\ Horizon \in Nat /\ \A x \in Slots : x < Horizon
    BY CacheAssumption DEF Slots
  <1> DEFINE Starts == {n \in Nat : n <= t /\ \A x \in Nat : n <= x /\ x <= t => x \in S}
             Ends == {n \in Nat : t < n /\ n \notin S}
  <1>2. PICK a \in Starts : \A n \in Starts : a <= n
    <2>1. t \in Starts
      BY <1>1
    <2>2. Starts \in SUBSET Nat /\ Starts # {}
      BY <2>1
    <2> HIDE DEF Starts
    <2> QED  BY <2>2, LeastNumber
  <1>3. PICK b \in Ends : \A n \in Ends : b <= n
    <2>1. Horizon \in Ends
      BY <1>1
    <2>2. Ends \in SUBSET Nat /\ Ends # {}
      BY <2>1
    <2> HIDE DEF Ends
    <2> QED  BY <2>2, LeastNumber
  <1>4. b <= Horizon /\ a \in 0..Horizon /\ b \in 0..Horizon /\ a < b
    BY <1>1, <1>2, <1>3
  <1>5. a - 1 \notin S
    <2> SUFFICES ASSUME a - 1 \in S  PROVE FALSE
      OBVIOUS
    <2>1. a - 1 \in Nat
      BY <1>1
    <2>2. a \in Nat /\ a <= t /\ t \in Nat /\ \A x \in Nat : a <= x /\ x <= t => x \in S
      BY <1>1, <1>2
    <2>3. ASSUME NEW x \in Nat, a - 1 <= x, x <= t  PROVE x \in S
      <3>1. x = a - 1 \/ a <= x
        BY <2>2, <2>3
      <3> QED  BY <2>2, <2>3, <3>1
    <2>4. a - 1 \in Starts
      BY <2>1, <2>2, <2>3
    <2> QED  BY <1>2, <2>2, <2>4
  <1>6. Range(a, b) \subseteq S
    <2> SUFFICES ASSUME NEW x \in Slots, a <= x, x < b  PROVE x \in S
      BY DEF Range
    <2>1. CASE x <= t
      BY <1>1, <1>2, <2>1
    <2>2. CASE t < x
      BY <1>1, <1>3, <2>2
    <2> QED  BY <1>1, <2>1, <2>2
  <1>7. t \in Range(a, b)
    BY <1>1, <1>2, <1>3 DEF Range
  <1>8. <<a, b>> \in Intervals(S)
    BY <1>3, <1>4, <1>5, <1>6 DEF Intervals
  <1> QED  BY <1>7, <1>8

\* What is known of the call of a client that is not idle.
Asking(c) ==
  /\ asked[c] \in [syms : Seq(Symbols), from : Nat, to : Nat, at : Nat]
  /\ today[c] \in Nat
  /\ asked[c].from <= asked[c].to /\ asked[c].to <= Horizon

\* The requests of a call are for its symbols and the months of its range.
LEMMA RequestKeys ==
  ASSUME NEW c \in Clients, Asking(c), NEW i \in 1..NumRequests(c)
  PROVE  /\ Key(c, i) \in Keys
         /\ \E j \in 1..Len(asked[c].syms) : Key(c, i)[1] = asked[c].syms[j]
  <1> DEFINE n == Len(asked[c].syms)
             from == asked[c].from
             end == CacheEnd(c)
             first == from \div MonthLength
             last == (end - 1) \div MonthLength
             r == (i - 1) % n
             q == (i - 1) \div n
  <1>1. n \in Nat /\ from \in Nat /\ end \in Nat /\ end <= Horizon /\ Horizon \in Nat
        /\ MonthLength \in Nat \ {0}
    BY CacheAssumption DEF Asking, CacheEnd, Smaller
  <1>2. from < end
    <2> SUFFICES ASSUME ~(from < end)  PROVE FALSE
      OBVIOUS
    <2>1. NumRequests(c) = 0
      BY <1>1 DEF NumRequests, NumMonths
    <2> QED  BY <2>1
  <1>3. first \in Nat /\ last \in Nat /\ first <= last /\ last <= (Horizon - 1) \div MonthLength
    <2>1. end - 1 \in Nat /\ Horizon - 1 \in Nat /\ from <= end - 1 /\ end - 1 <= Horizon - 1
      BY <1>1, <1>2
    <2> QED  BY <1>1, <2>1, MonthsPass, Quotient
  <1>4. NumMonths(c) = last - first + 1 /\ NumMonths(c) \in Nat
    BY <1>1, <1>2, <1>3 DEF NumMonths
  <1>5. n # 0 /\ q \in 0..(last - first) /\ r \in 0..n - 1
    <2>1. i \in 1..NumMonths(c) * n
      BY DEF NumRequests
    <2>2. n # 0 /\ q \in 0..NumMonths(c) - 1 /\ r \in 0..n - 1
      BY <1>1, <1>4, <2>1, QuotientBelow
    <2> HIDE DEF n, q, r, first, last
    <2> QED  BY <1>3, <1>4, <2>2
  <1>6. Key(c, i) = <<asked[c].syms[r + 1], first + q>>
    BY DEF Key
  <1> HIDE DEF r, q, first, last
  <1>7. r + 1 \in 1..n
    BY <1>1, <1>5
  <1>8. asked[c].syms[r + 1] \in Symbols
    BY <1>7 DEF Asking
  <1>9. first + q \in Months
    <2>1. (Horizon - 1) \div MonthLength \in Int
      BY <1>1
    <2>2. first + q \in 0..(Horizon - 1) \div MonthLength
      BY <1>3, <1>5, <2>1
    <2> QED  BY <2>2 DEF Months
  <1> QED  BY <1>6, <1>7, <1>8, <1>9 DEF Keys

\* Some request of a call is for any slot of its range, of any of its symbols.
LEMMA RequestOf ==
  ASSUME NEW c \in Clients, Asking(c), NEW j \in 1..Len(asked[c].syms),
         NEW t \in Range(asked[c].from, CacheEnd(c))
  PROVE  \E i \in 1..NumRequests(c) :
           Key(c, i)[1] = asked[c].syms[j] /\ t \in MonthOf(Key(c, i)[2])
  <1> DEFINE n == Len(asked[c].syms)
             from == asked[c].from
             end == CacheEnd(c)
             first == from \div MonthLength
             last == (end - 1) \div MonthLength
             month == t \div MonthLength
             q == month - first
             i == q * n + (j - 1) + 1
  <1>1. /\ n \in Nat \ {0} /\ from \in Nat /\ end \in Nat
        /\ t \in Nat /\ t \in Slots /\ from <= t /\ t < end /\ MonthLength \in Nat \ {0}
    BY CacheAssumption DEF Asking, CacheEnd, Smaller, Range, Slots
  <1>2. first \in Nat /\ last \in Nat /\ month \in Nat /\ first <= month /\ month <= last
    <2>1. end - 1 \in Nat /\ t <= end - 1
      BY <1>1
    <2> QED  BY <1>1, <2>1, MonthsPass, Quotient
  <1>3. NumRequests(c) = (last - first + 1) * n
    BY <1>1 DEF NumRequests, NumMonths
  <1>4. month * MonthLength <= t /\ t < (month + 1) * MonthLength
    BY <1>1, Quotient
  <1>5. t \in MonthOf(month)
    BY <1>1, <1>4 DEF MonthOf, Range
  <1> HIDE DEF first, last, month
  <1>6. q \in Nat /\ q \in 0..(last - first + 1) - 1 /\ last - first + 1 \in Nat
    BY <1>2
  <1>7. j - 1 \in 0..n - 1
    BY <1>1
  <1> HIDE DEF q
  <1>8. i \in 1..NumRequests(c)
    <2> HIDE DEF n
    <2> QED  BY <1>1, <1>3, <1>6, <1>7, ProductAbove
  <1>9. (i - 1) \div n = q /\ (i - 1) % n = j - 1
    <2>1. i - 1 = q * n + (j - 1)
      <3>1. q * n \in Int
        BY <1>1, <1>6
      <3> HIDE DEF n
      <3> QED  BY <3>1, <1>7
    <2> HIDE DEF n, i
    <2> QED  BY <1>1, <1>6, <1>7, <2>1, Division
  <1>10. Key(c, i) = <<asked[c].syms[j], month>>
    <2>1. Key(c, i) = <<asked[c].syms[((i - 1) % n) + 1], first + (i - 1) \div n>>
      BY DEF Key, first
    <2>2. ((i - 1) % n) + 1 = j /\ first + (i - 1) \div n = month
      <3> HIDE DEF n, i
      <3> QED  BY <1>2, <1>9 DEF q
    <2> HIDE DEF n, i
    <2> QED  BY <2>1, <2>2
  <1> HIDE DEF i
  <1> QED  BY <1>5, <1>8, <1>10

\* What a call has when it has worked through all its requests: all the bars
\* of its symbols in the range it may take from the cache, and no other.
LEMMA AllCollected ==
  ASSUME NEW c \in Clients, Asking(c), NEW s \in Symbols
  PROVE  Bars(c, Processed(c, NumRequests(c)))[s] =
           IF \E j \in 1..Len(asked[c].syms) : asked[c].syms[j] = s
           THEN Range(asked[c].from, CacheEnd(c)) \cap Traded[s]
           ELSE {}
  <1> DEFINE keys == Processed(c, NumRequests(c))
             range == Range(asked[c].from, CacheEnd(c))
             all == Bars(c, keys)[s]
  <1>1. all = UNION {Wanted(c, k) \cap Traded[s] : k \in {k \in keys : k[1] = s}}
    BY DEF Bars
  <1>2. all \subseteq range \cap Traded[s]
    BY <1>1 DEF Wanted
  <1>3. CASE \E j \in 1..Len(asked[c].syms) : asked[c].syms[j] = s
    <2>1. PICK j \in 1..Len(asked[c].syms) : asked[c].syms[j] = s
      BY <1>3
    <2>2. ASSUME NEW t \in range \cap Traded[s]  PROVE t \in all
      <3>1. PICK i \in 1..NumRequests(c) : Key(c, i)[1] = s /\ t \in MonthOf(Key(c, i)[2])
        BY <2>1, <2>2, RequestOf
      <3>2. t \in Wanted(c, Key(c, i)) /\ Key(c, i) \in keys
        BY <2>2, <3>1 DEF Wanted, Processed
      <3> QED  BY <1>1, <2>2, <3>1, <3>2
    <2> QED  BY <1>2, <1>3, <2>2
  <1>4. CASE ~ \E j \in 1..Len(asked[c].syms) : asked[c].syms[j] = s
    <2>1. \A k \in keys : k[1] # s
      BY <1>4, RequestKeys DEF Processed
    <2> QED  BY <1>1, <1>4, <2>1
  <1> QED  BY <1>3, <1>4

\* A batch is of chunks there are, and takes a call from the requests it has
\* worked through to the next.
LEMMA BatchOf ==
  ASSUME NEW c \in Clients, Asking(c), done[c] \in Nat, NumRequests(c) \in Nat,
         done[c] <= NumRequests(c)
  PROVE  LET next == Smaller(done[c] + BatchSize, NumRequests(c))
         IN  /\ Batch(c) \subseteq Keys
             /\ next \in Nat /\ next <= NumRequests(c)
             /\ Processed(c, next) = Processed(c, done[c]) \cup Batch(c)
  <1> DEFINE next == Smaller(done[c] + BatchSize, NumRequests(c))
  <1>1. next \in Nat /\ next <= NumRequests(c) /\ done[c] <= next
    BY CacheAssumption DEF Smaller
  <1>2. Batch(c) = {Key(c, i) : i \in done[c] + 1..next}
    BY DEF Batch
  <1> HIDE DEF next
  <1>3. \A i \in done[c] + 1..next : i \in 1..NumRequests(c)
    BY <1>1
  <1>4. Batch(c) \subseteq Keys
    BY <1>2, <1>3, RequestKeys
  <1>5. \A i : i \in 1..next <=> i \in 1..done[c] \/ i \in done[c] + 1..next
    BY <1>1
  <1>6. Processed(c, next) = Processed(c, done[c]) \cup Batch(c)
    BY <1>2, <1>5 DEF Processed
  <1> QED  BY <1>1, <1>4, <1>6 DEF next

\* The months of a range are a number, whatever the range.
LEMMA MonthsOfRange ==
  ASSUME NEW from \in Nat, NEW end \in Nat, NEW n \in Nat
  PROVE  (IF from < end
          THEN (end - 1) \div MonthLength - from \div MonthLength + 1
          ELSE 0) * n \in Nat
  <1>1. CASE from < end
    <2>1. end - 1 \in Nat /\ from <= end - 1 /\ MonthLength \in Nat \ {0}
      BY <1>1, CacheAssumption
    <2> DEFINE a == from \div MonthLength
               b == (end - 1) \div MonthLength
    <2>2. a \in Nat /\ b \in Nat /\ a <= b
      BY <2>1, MonthsPass, Quotient
    <2> HIDE DEF a, b
    <2>3. (b - a + 1) * n \in Nat
      BY <2>2
    <2> QED  BY <1>1, <2>3 DEF a, b
  <1>2. CASE ~(from < end)
    BY <1>2
  <1> QED  BY <1>1, <1>2

LEMMA RequestCount ==
  ASSUME NEW c \in Clients, Asking(c)
  PROVE  NumRequests(c) \in Nat
  <1>1. Len(asked[c].syms) \in Nat /\ asked[c].from \in Nat /\ CacheEnd(c) \in Nat
    BY DEF Asking, CacheEnd, Smaller
  <1> QED  BY <1>1, MonthsOfRange DEF NumRequests, NumMonths

\* What a batch lacks is fetched: each slot wanted is in a chunk or in a gap.
LEMMA GapsCover ==
  ASSUME NEW c \in Clients, NEW chunks, Batch(c) \subseteq Keys, NEW k \in Batch(c),
         NEW t \in Wanted(c, k), t \notin chunks[k].coverage
  PROVE  \E g \in Gaps(c, chunks) : k[1] \in g.syms /\ t \in Range(g.from, g.to)
  <1> DEFINE missing(s) ==
        UNION {Wanted(c, j) \ chunks[j].coverage : j \in {j \in Batch(c) : j[1] = s}}
      needed == UNION {Intervals(missing(s)) : s \in Symbols}
      Fetch(i) == [from |-> i[1], to |-> i[2],
                   syms |-> {s \in Symbols : i \in Intervals(missing(s))}]
  <1>1. k[1] \in Symbols
    BY DEF Keys
  <1>2. missing(k[1]) \in SUBSET Slots /\ t \in missing(k[1])
    BY DEF Wanted, Range
  <1>3. Gaps(c, chunks) = {Fetch(i) : i \in needed}
    BY DEF Gaps
  <1> HIDE DEF missing
  <1>4. PICK i \in Intervals(missing(k[1])) : t \in Range(i[1], i[2])
    BY <1>2, IntervalsCover
  <1>5. i \in needed /\ k[1] \in Fetch(i).syms
    BY <1>1, <1>4
  <1>6. Fetch(i).from = i[1] /\ Fetch(i).to = i[2] /\ Fetch(i) \in Gaps(c, chunks)
    BY <1>3, <1>5
  <1> QED  BY <1>4, <1>5, <1>6

\* What the definitions of a call say, they say as long as the call stands.
LEMMA SameCall ==
  ASSUME NEW d \in Clients, asked'[d] = asked[d], today'[d] = today[d]
  PROVE  /\ NumRequests(d)' = NumRequests(d)
         /\ CacheEnd(d)' = CacheEnd(d)
         /\ \A k : Wanted(d, k)' = Wanted(d, k)
  <1>1. CacheEnd(d)' = CacheEnd(d)
    BY DEF CacheEnd
  <1>2. NumRequests(d)' = NumRequests(d)
    BY <1>1 DEF NumRequests, NumMonths
  <1>3. \A k : Wanted(d, k)' = Wanted(d, k)
    BY <1>1 DEF Wanted
  <1> QED  BY <1>1, <1>2, <1>3

LEMMA SameBars ==
  ASSUME NEW d \in Clients, asked'[d] = asked[d], today'[d] = today[d]
  PROVE  Bars(d, Processed(d, done[d]))' = Bars(d, Processed(d, done'[d]))
  <1>1. \A k : Wanted(d, k)' = Wanted(d, k)
    BY SameCall
  <1>2. Processed(d, done[d])' = Processed(d, done'[d])
    BY DEF Processed, Key
  <1> QED  BY <1>1, <1>2 DEF Bars

LEMMA SameBatch ==
  ASSUME NEW d \in Clients, asked'[d] = asked[d], today'[d] = today[d], done'[d] = done[d]
  PROVE  Batch(d)' = Batch(d)
  <1>1. NumRequests(d)' = NumRequests(d)
    BY SameCall
  <1> QED  BY <1>1 DEF Batch, Key

\* A call that no step touches is as it was, however late it gets.
LEMMA CallKept ==
  ASSUME CacheTyped, NEW d \in Clients, CallInv(d), clock' \in Nat, clock <= clock',
         pc'[d] = pc[d], asked'[d] = asked[d], today'[d] = today[d], done'[d] = done[d],
         entries'[d] = entries[d], gaps'[d] = gaps[d], result'[d] = result[d]
  PROVE  CallInv(d)'
  <1>1. /\ NumRequests(d)' = NumRequests(d)
        /\ Bars(d, Processed(d, done[d]))' = Bars(d, Processed(d, done[d]))
    BY SameCall, SameBars
  <1>2. clock \in Nat /\ asked[d].at \in Nat
    BY DEF CacheTyped
  <1>3. asked[d].at <= clock => asked[d].at <= clock'
    BY <1>2
  <1>4. Batch(d)' = Batch(d)
    BY SameBatch
  <1>5. ASSUME NEW k \in Batch(d), Covered(d, k)  PROVE Covered(d, k)'
    <2>1. Wanted(d, k)' = Wanted(d, k)
      BY SameCall
    <2> QED  BY <1>5, <2>1 DEF Covered
  <1> QED  BY <1>1, <1>3, <1>4, <1>5 DEF CallInv

\* A step of one client: the others' calls stay as they are.
LEMMA OneCall ==
  ASSUME CacheInv, FetcherInv, NEW c \in Clients, UNCHANGED clock,
         \A d \in Clients \ {c} :
           /\ pc'[d] = pc[d] /\ asked'[d] = asked[d] /\ today'[d] = today[d]
           /\ done'[d] = done[d] /\ entries'[d] = entries[d] /\ gaps'[d] = gaps[d]
           /\ result'[d] = result[d],
         pc' \in [Clients -> {"idle", "read", "fetch"}], done' \in [Clients -> Nat],
         result' \in [Clients -> [Symbols -> SUBSET Slots]],
         answer' \in [Clients -> [Symbols -> SUBSET Slots]],
         CallInv(c)'
  PROVE  FetcherInv'
  <1>1. CacheTyped /\ clock' \in Nat /\ clock <= clock'
    BY DEF CacheInv, CacheTyped
  <1>2. ASSUME NEW d \in Clients  PROVE CallInv(d)'
    <2>1. CASE d = c
      BY <2>1
    <2>2. CASE d # c
      <3>1. CallInv(d)
        BY DEF FetcherInv
      <3> QED  BY <1>1, <2>2, <3>1, CallKept
    <2> QED  BY <2>1, <2>2
  <1> QED  BY <1>2 DEF FetcherInv

LEMMA AskingWhen ==
  ASSUME CacheInv, FetcherInv, NEW c \in Clients, pc[c] # "idle"
  PROVE  Asking(c) /\ NumRequests(c) \in Nat
  <1>1. Asking(c)
    BY DEF CacheInv, CacheTyped, FetcherInv, CallInv, Asking
  <1> QED  BY <1>1, RequestCount

LEMMA InitFetcher == Init => FetcherInv
  BY DEF Init, FetcherInv, CallInv, Nothing

LEMMA IdleFetcher ==
  ASSUME CacheInv, FetcherInv, NEW c \in Clients, Idle(c), UNCHANGED clock,
         answer' \in [Clients -> [Symbols -> SUBSET Slots]]
  PROVE  FetcherInv'
  <1>1. pc' \in [Clients -> {"idle", "read", "fetch"}] /\ pc'[c] = "idle"
    BY DEF Idle, FetcherInv
  <1>2. done' \in [Clients -> Nat] /\ done'[c] = 0
    BY DEF Idle, FetcherInv
  <1>3. result' \in [Clients -> [Symbols -> SUBSET Slots]] /\ result'[c] = Nothing
    BY DEF Idle, FetcherInv, Nothing
  <1>4. CallInv(c)'
    BY <1>1, <1>2, <1>3 DEF CallInv, Nothing
  <1>5. \A d \in Clients \ {c} :
           /\ pc'[d] = pc[d] /\ asked'[d] = asked[d] /\ today'[d] = today[d]
           /\ done'[d] = done[d] /\ entries'[d] = entries[d] /\ gaps'[d] = gaps[d]
           /\ result'[d] = result[d]
    BY DEF Idle, CacheInv, CacheTyped, FetcherInv
  <1> QED  BY <1>1, <1>2, <1>3, <1>4, <1>5, OneCall

LEMMA CallFetcher ==
  ASSUME CacheInv, FetcherInv, NEW c \in Clients, NEW r \in Requests, Call(c, r)
  PROVE  FetcherInv'
  <1>1. /\ r \in [syms : Seq(Symbols), from : 0..Horizon, to : 0..Horizon]
        /\ r.from <= r.to /\ Horizon \in Nat
    BY CacheAssumption
  <1>2. StartOfDay \in Nat /\ StartOfDay <= clock /\ clock \in Nat
    BY StartOfDayNat DEF CacheInv, CacheTyped
  <1>3. /\ asked'[c] = [syms |-> r.syms, from |-> r.from, to |-> r.to, at |-> clock]
        /\ today'[c] = StartOfDay
    BY DEF Call, CacheInv, CacheTyped
  <1>4. pc' \in [Clients -> {"idle", "read", "fetch"}] /\ pc'[c] = "read"
    BY DEF Call, FetcherInv
  <1>5. done'[c] = 0 /\ result'[c] = Nothing /\ UNCHANGED <<clock, done, result, answer>>
    BY DEF Call, FetcherInv, CallInv
  <1>6. asked'[c].from <= asked'[c].to /\ asked'[c].to <= Horizon /\ Asking(c)'
    BY <1>1, <1>2, <1>3 DEF Asking
  <1>7. 0 <= NumRequests(c)'
    <2>1. Len(asked'[c].syms) \in Nat /\ asked'[c].from \in Nat /\ CacheEnd(c)' \in Nat
      BY <1>6 DEF Asking, CacheEnd, Smaller
    <2>2. NumRequests(c)' \in Nat
      BY <2>1, MonthsOfRange DEF NumRequests, NumMonths
    <2> QED  BY <2>2
  <1>8. result'[c] = Bars(c, Processed(c, 0))'
    <2>1. Processed(c, 0)' = {}
      BY DEF Processed
    <2>2. Bars(c, {})' = Nothing
      BY DEF Bars, Nothing
    <2>3. Bars(c, Processed(c, 0))' = Bars(c, {})'
      BY <2>1 DEF Bars
    <2> QED  BY <1>5, <2>2, <2>3
  <1>9. CallInv(c)'
    <2>1. result'[c] = Bars(c, Processed(c, done[c]))'
      BY <1>5, <1>8
    <2> QED  BY <1>2, <1>3, <1>4, <1>5, <1>6, <1>7, <2>1 DEF CallInv
  <1>10. \A d \in Clients \ {c} :
           /\ pc'[d] = pc[d] /\ asked'[d] = asked[d] /\ today'[d] = today[d]
           /\ done'[d] = done[d] /\ entries'[d] = entries[d] /\ gaps'[d] = gaps[d]
           /\ result'[d] = result[d]
    BY DEF Call, CacheInv, CacheTyped, FetcherInv
  <1> QED  BY <1>4, <1>5, <1>9, <1>10, OneCall DEF FetcherInv

\* Reading a batch, from the store or not, plans a fetch for all it lacks.
LEMMA LoadedFetcher ==
  ASSUME CacheInv, FetcherInv, NEW c \in Clients, NEW chunks, pc[c] = "read", Loaded(c, chunks)
  PROVE  FetcherInv'
  <1>1. Asking(c) /\ NumRequests(c) \in Nat /\ CallInv(c) /\ done[c] \in Nat
    BY AskingWhen DEF FetcherInv
  <1>2. /\ pc' \in [Clients -> {"idle", "read", "fetch"}] /\ pc'[c] = "fetch"
        /\ UNCHANGED <<clock, asked, today, done, result, answer>>
        /\ entries'[c] = chunks /\ gaps'[c] = Gaps(c, chunks)
    BY DEF Loaded, FetcherInv, CacheInv, CacheTyped
  <1>3. Batch(c) \subseteq Keys /\ Batch(c)' = Batch(c)
    <2>1. done[c] <= NumRequests(c)
      BY <1>1 DEF CallInv, Loaded
    <2>2. Batch(c) \subseteq Keys
      BY <1>1, <2>1, BatchOf
    <2> QED  BY <1>2, <2>2, SameBatch
  <1>4. \A k \in Batch(c) : Wanted(c, k)' = Wanted(c, k)
    BY <1>2, SameCall
  <1>5. ASSUME NEW k \in Batch(c)  PROVE Covered(c, k)'
    <2>1. \A t \in Wanted(c, k) :
            \/ t \in chunks[k].coverage
            \/ \E g \in Gaps(c, chunks) : k[1] \in g.syms /\ t \in Range(g.from, g.to)
      BY <1>3, GapsCover
    <2> QED  BY <1>2, <1>4, <2>1 DEF Covered
  <1>6. /\ NumRequests(c)' = NumRequests(c)
        /\ Bars(c, Processed(c, done[c]))' = Bars(c, Processed(c, done[c]))
    BY <1>2, SameCall, SameBars
  <1>7. CallInv(c)'
    BY <1>1, <1>2, <1>3, <1>5, <1>6 DEF CallInv, Loaded
  <1>8. \A d \in Clients \ {c} :
           pc'[d] = pc[d] /\ entries'[d] = entries[d] /\ gaps'[d] = gaps[d]
    BY DEF Loaded, CacheInv, CacheTyped, FetcherInv
  <1> QED  BY <1>2, <1>7, <1>8, OneCall DEF FetcherInv

\* A fetched gap is covered by the chunks it was fetched for.
LEMMA FetchGapFetcher ==
  ASSUME CacheInv, FetcherInv, NEW c \in Clients, NEW g \in gaps[c], FetchGap(c, g)
  PROVE  FetcherInv'
  <1> DEFINE hit == {k \in Batch(c) :
                       k[1] \in g.syms /\ MonthOf(k[2]) \cap Range(g.from, g.to) # {}}
  <1>1. /\ Asking(c) /\ NumRequests(c) \in Nat /\ CallInv(c) /\ done[c] \in Nat
        /\ pc[c] = "fetch"
    BY AskingWhen DEF FetcherInv, FetchGap
  <1>2. /\ UNCHANGED <<clock, pc, asked, today, done, result, answer>>
        /\ gaps'[c] = gaps[c] \ {g}
    BY DEF FetchGap, CacheInv, CacheTyped
  <1>3. Batch(c) \subseteq Keys /\ Batch(c)' = Batch(c)
    <2>1. done[c] <= NumRequests(c)
      BY <1>1 DEF CallInv
    <2>2. Batch(c) \subseteq Keys
      BY <1>1, <2>1, BatchOf
    <2> QED  BY <1>2, <2>2, SameBatch
  <1>4. ASSUME NEW k \in Batch(c)
        PROVE  entries'[c][k].coverage =
                 IF k \in hit
                 THEN entries[c][k].coverage \cup (MonthOf(k[2]) \cap Range(g.from, g.to))
                 ELSE entries[c][k].coverage
    <2>1. k \in Keys /\ entries \in [Clients -> [Keys -> ChunkType]]
      BY <1>3 DEF CacheInv, CacheTyped
    <2>2. entries'[c] = [j \in Keys |->
              IF j \in hit
              THEN [rows     |-> entries[c][j].rows
                                   \cup (MonthOf(j[2]) \cap Fetched(j[1], g.from, g.to)),
                    coverage |-> entries[c][j].coverage
                                   \cup (MonthOf(j[2]) \cap Range(g.from, g.to))]
              ELSE entries[c][j]]
      BY <2>1 DEF FetchGap
    <2> HIDE DEF hit
    <2> QED  BY <2>1, <2>2
  <1>5. ASSUME NEW k \in Batch(c)  PROVE Covered(c, k)'
    <2>1. Wanted(c, k)' = Wanted(c, k)
      BY <1>2, SameCall
    <2>2. SUFFICES ASSUME NEW t \in Wanted(c, k)
                   PROVE  \/ t \in entries'[c][k].coverage
                          \/ \E h \in gaps'[c] : k[1] \in h.syms /\ t \in Range(h.from, h.to)
      BY <2>1 DEF Covered
    <2>3. \/ t \in entries[c][k].coverage
          \/ \E h \in gaps[c] : k[1] \in h.syms /\ t \in Range(h.from, h.to)
      BY <1>1 DEF CallInv, Covered
    <2>4. CASE t \in entries[c][k].coverage
      BY <1>4, <2>4
    <2>5. CASE k[1] \in g.syms /\ t \in Range(g.from, g.to)
      <3>1. t \in MonthOf(k[2])
        BY DEF Wanted
      <3>2. k \in hit
        BY <2>5, <3>1
      <3> QED  BY <1>4, <2>5, <3>1, <3>2
    <2>6. CASE \E h \in gaps[c] \ {g} : k[1] \in h.syms /\ t \in Range(h.from, h.to)
      BY <1>2, <2>6
    <2> QED  BY <2>3, <2>4, <2>5, <2>6
  <1>6. /\ NumRequests(c)' = NumRequests(c)
        /\ Bars(c, Processed(c, done[c]))' = Bars(c, Processed(c, done[c]))
    BY <1>2, SameCall, SameBars
  <1>7. CallInv(c)'
    BY <1>1, <1>2, <1>3, <1>5, <1>6 DEF CallInv
  <1>8. \A d \in Clients \ {c} : entries'[d] = entries[d] /\ gaps'[d] = gaps[d]
    BY DEF FetchGap, CacheInv, CacheTyped
  <1> QED  BY <1>2, <1>7, <1>8, OneCall DEF FetcherInv

\* A batch without gaps has all its chunks were asked for.
LEMMA BatchFetcher ==
  ASSUME CacheInv, FetcherInv, NEW c \in Clients, BatchDone(c)
  PROVE  FetcherInv'
  <1> DEFINE next == Smaller(done[c] + BatchSize, NumRequests(c))
  <1>1. /\ Asking(c) /\ NumRequests(c) \in Nat /\ CallInv(c) /\ done[c] \in Nat
        /\ pc[c] = "fetch" /\ gaps[c] = {}
    BY AskingWhen DEF FetcherInv, BatchDone
  <1>2. /\ Batch(c) \subseteq Keys /\ next \in Nat /\ next <= NumRequests(c)
        /\ Processed(c, next) = Processed(c, done[c]) \cup Batch(c)
    <2>1. done[c] <= NumRequests(c)
      BY <1>1 DEF CallInv
    <2> QED  BY <1>1, <2>1, BatchOf
  <1>3. /\ pc' \in [Clients -> {"idle", "read", "fetch"}] /\ pc'[c] = "read"
        /\ done' \in [Clients -> Nat] /\ done'[c] = next
        /\ UNCHANGED <<clock, asked, today, gaps, answer>>
    <2> HIDE DEF next
    <2>1. done' = [done EXCEPT ![c] = next]
      BY DEF BatchDone, FetcherInv, next
    <2> QED  BY <1>2, <2>1 DEF BatchDone, FetcherInv
  <1>4. ASSUME NEW k \in Batch(c)
        PROVE  Wanted(c, k) \cap entries[c][k].rows = Wanted(c, k) \cap Traded[k[1]]
    <2>1. Wanted(c, k) \subseteq entries[c][k].coverage
      BY <1>1 DEF CallInv, Covered
    <2>2. Exact(k, entries[c][k])
      BY <1>2 DEF CacheInv, CallsExact
    <2> QED  BY <2>1, <2>2 DEF Exact
  <1>5. result'[c] = [s \in Symbols |-> result[c][s] \cup
          UNION {Wanted(c, k) \cap entries[c][k].rows : k \in {j \in Batch(c) : j[1] = s}}]
    BY DEF BatchDone, FetcherInv
  <1>6. result'[c] = Bars(c, Processed(c, next))
    <2> HIDE DEF next
    <2>1. ASSUME NEW s \in Symbols
          PROVE  result'[c][s] = Bars(c, Processed(c, next))[s]
      <3>1. result'[c][s] = result[c][s] \cup
              UNION {Wanted(c, k) \cap Traded[s] : k \in {j \in Batch(c) : j[1] = s}}
        BY <1>4, <1>5
      <3>2. result[c][s] = UNION {Wanted(c, k) \cap Traded[s] :
                                    k \in {j \in Processed(c, done[c]) : j[1] = s}}
        BY <1>1 DEF CallInv, Bars
      <3> QED  BY <1>2, <3>1, <3>2 DEF Bars
    <2>2. result'[c] = [s \in Symbols |-> result'[c][s]]
      BY <1>5
    <2>3. Bars(c, Processed(c, next)) = [s \in Symbols |-> Bars(c, Processed(c, next))[s]]
      BY DEF Bars
    <2> QED  BY <2>1, <2>2, <2>3
  <1>7. result' \in [Clients -> [Symbols -> SUBSET Slots]]
    <2>1. \A k \in Batch(c) : Wanted(c, k) \subseteq Slots
      BY DEF Wanted, Range
    <2>2. result'[c] \in [Symbols -> SUBSET Slots]
      BY <1>5, <2>1 DEF FetcherInv
    <2>3. result' = [result EXCEPT ![c] = result'[c]]
      BY DEF BatchDone, FetcherInv
    <2> QED  BY <2>2, <2>3 DEF FetcherInv
  <1>8. /\ NumRequests(c)' = NumRequests(c)
        /\ Bars(c, Processed(c, next)) = Bars(c, Processed(c, done[c]))'
    <2> HIDE DEF next
    <2> QED  BY <1>3, SameCall, SameBars
  <1>9. CallInv(c)'
    <2> HIDE DEF next
    <2> QED  BY <1>1, <1>2, <1>3, <1>6, <1>8 DEF CallInv
  <1>10. \A d \in Clients \ {c} :
           /\ pc'[d] = pc[d] /\ done'[d] = done[d] /\ entries'[d] = entries[d]
           /\ result'[d] = result[d]
    BY DEF BatchDone, CacheInv, CacheTyped, FetcherInv
  <1> QED  BY <1>3, <1>7, <1>9, <1>10, OneCall DEF FetcherInv

LEMMA NextFetcher ==
  ASSUME CacheInv, FetcherInv, [Next]_vars
  PROVE  FetcherInv'
  <1>1. ASSUME clock' \in Nat, clock <= clock',
               UNCHANGED <<pc, asked, today, done, entries, gaps, result, answer>>
        PROVE  FetcherInv'
    <2>1. \A d \in Clients : CallInv(d)'
      BY <1>1, CallKept DEF CacheInv, FetcherInv
    <2> QED  BY <1>1, <2>1 DEF FetcherInv
  <1>2. clock \in Nat
    BY DEF CacheInv, CacheTyped
  <1>3. CASE SlotEnds
    BY <1>1, <1>2, <1>3 DEF SlotEnds, localVars
  <1>4. CASE UNCHANGED vars
    BY <1>1, <1>2, <1>4 DEF vars, localVars
  <1>5. ASSUME NEW k \in Keys, NEW p \in Damages(k), StoreDamaged(k, p)  PROVE FetcherInv'
    BY <1>1, <1>2, <1>5 DEF StoreDamaged, localVars
  <1>6. ASSUME NEW c \in Clients, Client(c)  PROVE FetcherInv'
    <2>1. CASE ReadBatch(c) \/ ReadFails(c)
      BY <2>1, LoadedFetcher DEF ReadBatch, ReadFails
    <2>2. CASE WriteBatch(c) \/ WriteFails(c)
      BY <2>2, BatchFetcher DEF WriteBatch, WriteFails
    <2>3. CASE FetchFails(c) \/ Dies(c)
      BY <2>3, IdleFetcher DEF FetchFails, Dies, FetcherInv
    <2>4. CASE Return(c)
      <3>1. answer' = [answer EXCEPT ![c] = result[c]]
        BY <2>4 DEF Return, Answered
      <3>2. answer' \in [Clients -> [Symbols -> SUBSET Slots]]
        BY <3>1 DEF FetcherInv
      <3> QED  BY <2>4, <3>2, IdleFetcher DEF Return, Answered
    <2>5. CASE FetchTail(c)
      <3> DEFINE bars == [s \in Symbols |->
                   IF \E i \in 1..Len(asked[c].syms) : asked[c].syms[i] = s
                   THEN result[c][s] \cup Fetched(s, TailStart(c), asked[c].to)
                   ELSE {}]
      <3>1. bars \in [Symbols -> SUBSET Slots]
        <4>1. \A s \in Symbols : Fetched(s, TailStart(c), asked[c].to) \subseteq Slots
          BY CacheAssumption DEF Fetched
        <4> QED  BY <4>1 DEF FetcherInv
      <3>2. answer' = [answer EXCEPT ![c] = bars]
        BY <2>5 DEF FetchTail, Answered
      <3> HIDE DEF bars
      <3>3. answer' \in [Clients -> [Symbols -> SUBSET Slots]]
        BY <3>1, <3>2 DEF FetcherInv
      <3> QED  BY <2>5, <3>3, IdleFetcher DEF FetchTail, Answered
    <2>6. ASSUME NEW r \in Requests, Call(c, r)  PROVE FetcherInv'
      BY <2>6, CallFetcher
    <2>7. ASSUME NEW g \in gaps[c], FetchGap(c, g)  PROVE FetcherInv'
      BY <2>7, FetchGapFetcher
    <2> QED  BY <1>6, <2>1, <2>2, <2>3, <2>4, <2>5, <2>6, <2>7 DEF Client
  <1> QED  BY <1>3, <1>4, <1>5, <1>6 DEF Next

\* What a call has collected is what the chunks it is done with have to give,
\* and what it is about to lack is planned, at every step of every process.
THEOREM FetcherInvariance == Spec => []FetcherInv
  <1>1. Init => FetcherInv
    BY InitFetcher
  <1>2. CacheInv /\ FetcherInv /\ [Next]_vars => FetcherInv'
    BY NextFetcher
  <1> QED  BY <1>1, <1>2, CacheInvariance, PTL DEF Spec
-----------------------------------------------------------------------------
(* The cache keeps the promise of the protocol. *)

\* Only the calls of clients whose state or request changes look different.
LEMMA ProtocolCall ==
  ASSUME NEW c \in Clients, FetcherInv, FetcherInv', CacheInv, CacheInv',
         \A d \in Clients \ {c} : pc'[d] = pc[d] /\ asked'[d] = asked[d]
  PROVE  protocolCalls' = [protocolCalls EXCEPT ![c] = protocolCalls'[c]]
  <1>1. ASSUME NEW d \in Clients \ {c}  PROVE protocolCalls'[d] = protocolCalls[d]
    <2>1. pc'[d] = pc[d] /\ asked'[d] = asked[d]
      OBVIOUS
    <2>2. {asked'[d].syms[i] : i \in 1..Len(asked'[d].syms)} =
            {asked[d].syms[i] : i \in 1..Len(asked[d].syms)}
      BY <2>1
    <2> QED  BY <2>1, <2>2 DEF protocolCalls
  <1>2. /\ protocolCalls = [d \in Clients |-> protocolCalls[d]]
        /\ protocolCalls' = [d \in Clients |-> protocolCalls'[d]]
    BY DEF protocolCalls
  <1> QED  BY <1>1, <1>2

\* An idle client is not waiting, and every other is.
LEMMA ProtocolIdle ==
  ASSUME NEW c \in Clients
  PROVE  /\ (protocolCalls[c] = Fetcher!NoCall) <=> (pc[c] = "idle")
         /\ pc'[c] = "idle" => protocolCalls'[c] = Fetcher!NoCall
  BY DEF protocolCalls, Fetcher!NoCall

\* An answer from the cache has what the provider had when the call was made,
\* and nothing it does not have now.
LEMMA AnswersComplete ==
  ASSUME CacheInv, FetcherInv, NEW c \in Clients, pc[c] = "read", done[c] = NumRequests(c),
         NEW bars,
         \/ asked[c].to <= TailStart(c) /\ bars = result[c]
         \/ bars = [s \in Symbols |->
              IF \E i \in 1..Len(asked[c].syms) : asked[c].syms[i] = s
              THEN result[c][s] \cup Fetched(s, TailStart(c), asked[c].to)
              ELSE {}],
         NEW s \in Symbols
  PROVE  IF \E i \in 1..Len(asked[c].syms) : asked[c].syms[i] = s
         THEN /\ Fetcher!Complete(s, asked[c].from, asked[c].to, asked[c].at) \subseteq bars[s]
              /\ bars[s] \subseteq Fetcher!Complete(s, asked[c].from, asked[c].to, clock)
         ELSE bars[s] = {}
  <1> DEFINE from == asked[c].from
             to == asked[c].to
             at == asked[c].at
             end == CacheEnd(c)
             listed == \E i \in 1..Len(asked[c].syms) : asked[c].syms[i] = s
  <1>1. /\ Asking(c) /\ CallInv(c)
        /\ result[c][s] = IF listed THEN Range(from, end) \cap Traded[s] ELSE {}
    <2>1. Asking(c) /\ CallInv(c)
      BY AskingWhen DEF FetcherInv
    <2>2. result[c][s] = Bars(c, Processed(c, NumRequests(c)))[s]
      BY <2>1 DEF CallInv
    <2> QED  BY <2>1, <2>2, AllCollected
  <1>2. /\ from \in Nat /\ to \in Nat /\ at \in Nat /\ clock \in Nat /\ today[c] \in Nat
        /\ today[c] <= at /\ at <= clock /\ from <= to
    BY <1>1 DEF Asking, CallInv, CacheInv, CacheTyped
  <1>3. end \in Nat /\ end <= to /\ end <= at /\ end <= clock
        /\ TailStart(c) = (IF from >= end THEN from ELSE end)
    BY <1>2 DEF CacheEnd, Smaller, TailStart, Larger
  <1>4. Traded[s] \subseteq Slots /\ Slots \subseteq Nat
    BY CacheAssumption DEF Slots
  <1>5. /\ ~listed => bars[s] = {}
        /\ listed => \/ to <= TailStart(c) /\ bars[s] = result[c][s]
                     \/ bars[s] = result[c][s] \cup Fetched(s, TailStart(c), to)
    BY <1>1
  <1> HIDE DEF end, to, from, at
  <1>6. CASE listed
    <2>1. ASSUME NEW t \in Traded[s], from <= t, t < to, t < at  PROVE t \in bars[s]
      <3>1. t \in Nat /\ t \in Slots
        BY <1>4
      <3>2. t < clock
        BY <1>2, <2>1, <3>1
      <3>3. CASE t < end
        BY <1>1, <1>5, <1>6, <2>1, <3>1, <3>3 DEF Range
      <3>4. CASE ~(t < end)
        <4>1. TailStart(c) <= t /\ ~(to <= TailStart(c))
          BY <1>2, <1>3, <2>1, <3>1, <3>4
        <4>2. t \in Fetched(s, TailStart(c), to)
          BY <2>1, <3>2, <4>1 DEF Fetched
        <4> QED  BY <1>5, <1>6, <4>1, <4>2
      <3> QED  BY <3>3, <3>4
    <2>2. ASSUME NEW t \in bars[s]
          PROVE  t \in Traded[s] /\ from <= t /\ t < to /\ t < clock
      <3>1. CASE t \in result[c][s]
        <4>1. t \in Traded[s] /\ from <= t /\ t < end
          BY <1>1, <1>6, <3>1 DEF Range
        <4>2. t \in Nat
          BY <1>4, <4>1
        <4> QED  BY <1>2, <1>3, <4>1, <4>2
      <3>2. CASE t \in Fetched(s, TailStart(c), to)
        <4>1. t \in Traded[s] /\ TailStart(c) <= t /\ t < to /\ t < clock
          BY <3>2 DEF Fetched
        <4>2. t \in Nat
          BY <1>4, <4>1
        <4> QED  BY <1>2, <1>3, <4>1, <4>2
      <3> QED  BY <1>5, <1>6, <2>2, <3>1, <3>2
    <2>3. Fetcher!Complete(s, from, to, at) \subseteq bars[s]
      BY <2>1 DEF Fetcher!Complete
    <2>4. bars[s] \subseteq Fetcher!Complete(s, from, to, clock)
      BY <2>2 DEF Fetcher!Complete
    <2> QED  BY <1>6, <2>3, <2>4 DEF from, to, at
  <1> QED  BY <1>5, <1>6

\* A step that answers, raises or asks is one of the protocol, and every other
\* is none.
LEMMA AnsweredStep ==
  ASSUME CacheInv, FetcherInv, CacheInv', FetcherInv', NEW c \in Clients,
         FetchTail(c) \/ Return(c)
  PROVE  Fetcher!Answer(c)
  <1>1. /\ pc[c] = "read" /\ done[c] = NumRequests(c) /\ pc'[c] = "idle" /\ UNCHANGED clock
        /\ \A d \in Clients \ {c} : pc'[d] = pc[d] /\ asked'[d] = asked[d]
    BY DEF FetchTail, Return, Answered, Idle, CacheInv, CacheTyped, FetcherInv
  <1>2. /\ protocolCalls[c] # Fetcher!NoCall
        /\ protocolCalls' = [protocolCalls EXCEPT ![c] = Fetcher!NoCall]
    <2>1. protocolCalls' = [protocolCalls EXCEPT ![c] = protocolCalls'[c]]
      BY <1>1, ProtocolCall
    <2>2. protocolCalls[c] # Fetcher!NoCall /\ protocolCalls'[c] = Fetcher!NoCall
      BY <1>1, ProtocolIdle
    <2> QED  BY <2>1, <2>2
  <1>3. /\ protocolCalls[c].syms = {asked[c].syms[i] : i \in 1..Len(asked[c].syms)}
        /\ protocolCalls[c].from = asked[c].from /\ protocolCalls[c].to = asked[c].to
        /\ protocolCalls[c].at = asked[c].at
    BY <1>1 DEF protocolCalls
  <1>4. answer' = [answer EXCEPT ![c] = answer'[c]]
        /\ ( \/ asked[c].to <= TailStart(c) /\ answer'[c] = result[c]
             \/ answer'[c] = [s \in Symbols |->
                  IF \E i \in 1..Len(asked[c].syms) : asked[c].syms[i] = s
                  THEN result[c][s] \cup Fetched(s, TailStart(c), asked[c].to)
                  ELSE {}])
    <2>1. CASE Return(c)
      <3>1. answer' = [answer EXCEPT ![c] = result[c]] /\ asked[c].to <= TailStart(c)
        BY <2>1 DEF Return, Answered
      <3>2. answer'[c] = result[c]
        BY <3>1 DEF FetcherInv
      <3> QED  BY <3>1, <3>2
    <2>2. CASE FetchTail(c)
      <3> DEFINE bars == [s \in Symbols |->
                   IF \E i \in 1..Len(asked[c].syms) : asked[c].syms[i] = s
                   THEN result[c][s] \cup Fetched(s, TailStart(c), asked[c].to)
                   ELSE {}]
      <3>1. answer' = [answer EXCEPT ![c] = bars]
        BY <2>2 DEF FetchTail, Answered
      <3> HIDE DEF bars
      <3>2. answer'[c] = bars
        BY <3>1 DEF FetcherInv
      <3>3. answer' = [answer EXCEPT ![c] = answer'[c]]
        BY <3>1, <3>2
      <3> QED  BY <3>2, <3>3 DEF bars
    <2> QED  BY <2>1, <2>2
  <1>5. ASSUME NEW s \in Symbols
        PROVE  IF s \in protocolCalls[c].syms
               THEN /\ Fetcher!Complete(s, protocolCalls[c].from, protocolCalls[c].to,
                                        protocolCalls[c].at) \subseteq answer'[c][s]
                    /\ answer'[c][s] \subseteq
                         Fetcher!Complete(s, protocolCalls[c].from, protocolCalls[c].to, clock)
               ELSE answer'[c][s] = {}
    <2>1. s \in protocolCalls[c].syms <=>
            \E i \in 1..Len(asked[c].syms) : asked[c].syms[i] = s
      BY <1>3
    <2>2. IF \E i \in 1..Len(asked[c].syms) : asked[c].syms[i] = s
          THEN /\ Fetcher!Complete(s, asked[c].from, asked[c].to, asked[c].at)
                    \subseteq answer'[c][s]
               /\ answer'[c][s] \subseteq Fetcher!Complete(s, asked[c].from, asked[c].to, clock)
          ELSE answer'[c][s] = {}
      BY <1>1, <1>4, AnswersComplete
    <2> QED  BY <1>3, <2>1, <2>2
  <1> QED  BY <1>1, <1>2, <1>4, <1>5 DEF Fetcher!Answer

LEMMA FailedStep ==
  ASSUME CacheInv, FetcherInv, CacheInv', FetcherInv', NEW c \in Clients,
         FetchFails(c) \/ Dies(c)
  PROVE  Fetcher!Fail(c)
  <1>1. /\ pc[c] # "idle" /\ pc'[c] = "idle" /\ UNCHANGED <<clock, answer>>
        /\ \A d \in Clients \ {c} : pc'[d] = pc[d] /\ asked'[d] = asked[d]
    BY DEF FetchFails, Dies, Idle, CacheInv, CacheTyped, FetcherInv
  <1>2. /\ protocolCalls' = [protocolCalls EXCEPT ![c] = protocolCalls'[c]]
        /\ protocolCalls[c] # Fetcher!NoCall /\ protocolCalls'[c] = Fetcher!NoCall
    BY <1>1, ProtocolCall, ProtocolIdle
  <1> QED  BY <1>1, <1>2 DEF Fetcher!Fail

LEMMA AskedStep ==
  ASSUME CacheInv, FetcherInv, CacheInv', FetcherInv', NEW c \in Clients, NEW r \in Requests,
         Call(c, r)
  PROVE  Fetcher!Ask(c)
  <1>1. /\ pc[c] = "idle" /\ pc'[c] = "read" /\ UNCHANGED <<clock, answer>>
        /\ asked'[c].at = clock
        /\ \A d \in Clients \ {c} : pc'[d] = pc[d] /\ asked'[d] = asked[d]
    BY DEF Call, CacheInv, CacheTyped, FetcherInv
  <1>2. protocolCalls' = [protocolCalls EXCEPT ![c] = protocolCalls'[c]]
    BY <1>1, ProtocolCall
  <1>3. protocolCalls[c] = Fetcher!NoCall
    BY <1>1, ProtocolIdle
  <1>4. protocolCalls'[c].waiting /\ protocolCalls'[c].at = clock
    BY <1>1 DEF protocolCalls
  <1> QED  BY <1>1, <1>2, <1>3, <1>4 DEF Fetcher!Ask

LEMMA QuietStep ==
  ASSUME \A c \in Clients : /\ (pc'[c] = "idle") <=> (pc[c] = "idle")
                            /\ asked'[c] = asked[c]
  PROVE  protocolCalls' = protocolCalls
  <1>1. ASSUME NEW c \in Clients  PROVE protocolCalls'[c] = protocolCalls[c]
    <2>1. (pc'[c] = "idle" <=> pc[c] = "idle") /\ asked'[c] = asked[c]
      OBVIOUS
    <2>2. {asked'[c].syms[i] : i \in 1..Len(asked'[c].syms)} =
            {asked[c].syms[i] : i \in 1..Len(asked[c].syms)}
      BY <2>1
    <2> QED  BY <2>1, <2>2 DEF protocolCalls
  <1>2. /\ protocolCalls = [c \in Clients |-> protocolCalls[c]]
        /\ protocolCalls' = [c \in Clients |-> protocolCalls'[c]]
    BY DEF protocolCalls
  <1> QED  BY <1>1, <1>2

LEMMA ProtocolStep ==
  ASSUME CacheInv, FetcherInv, CacheInv', FetcherInv', [Next]_vars
  PROVE  [Fetcher!Next]_<<clock, protocolCalls, answer>>
  <1>1. CASE SlotEnds
    <2>1. UNCHANGED <<pc, asked, answer>> /\ clock' = clock + 1
      BY <1>1 DEF SlotEnds
    <2>2. protocolCalls' = protocolCalls
      BY <2>1, QuietStep
    <2> QED  BY <2>1, <2>2 DEF Fetcher!Next, Fetcher!SlotEnds
  <1>2. ASSUME UNCHANGED <<clock, pc, asked, answer>>
        PROVE  [Fetcher!Next]_<<clock, protocolCalls, answer>>
    BY <1>2, QuietStep
  <1>3. CASE UNCHANGED vars
    BY <1>2, <1>3 DEF vars
  <1>4. ASSUME NEW k \in Keys, NEW p \in Damages(k), StoreDamaged(k, p)
        PROVE  [Fetcher!Next]_<<clock, protocolCalls, answer>>
    BY <1>2, <1>4 DEF StoreDamaged
  <1>5. ASSUME NEW c \in Clients, Client(c)
        PROVE  [Fetcher!Next]_<<clock, protocolCalls, answer>>
    <2>1. CASE ReadBatch(c) \/ ReadFails(c)
      <3>1. /\ pc[c] = "read" /\ pc' = [pc EXCEPT ![c] = "fetch"]
            /\ UNCHANGED <<clock, asked, answer>>
        BY <2>1 DEF ReadBatch, ReadFails, Loaded
      <3>2. \A d \in Clients : (pc'[d] = "idle") <=> (pc[d] = "idle")
        BY <3>1 DEF FetcherInv
      <3> QED  BY <3>1, <3>2, QuietStep
    <2>2. CASE WriteBatch(c) \/ WriteFails(c)
      <3>1. /\ pc[c] = "fetch" /\ pc' = [pc EXCEPT ![c] = "read"]
            /\ UNCHANGED <<clock, asked, answer>>
        BY <2>2 DEF WriteBatch, WriteFails, BatchDone
      <3>2. \A d \in Clients : (pc'[d] = "idle") <=> (pc[d] = "idle")
        BY <3>1 DEF FetcherInv
      <3> QED  BY <3>1, <3>2, QuietStep
    <2>3. CASE FetchTail(c) \/ Return(c)
      BY <2>3, AnsweredStep DEF Fetcher!Next
    <2>4. CASE FetchFails(c) \/ Dies(c)
      BY <2>4, FailedStep DEF Fetcher!Next
    <2>5. ASSUME NEW r \in Requests, Call(c, r)
          PROVE  [Fetcher!Next]_<<clock, protocolCalls, answer>>
      BY <2>5, AskedStep DEF Fetcher!Next
    <2>6. ASSUME NEW g \in gaps[c], FetchGap(c, g)
          PROVE  [Fetcher!Next]_<<clock, protocolCalls, answer>>
      BY <1>2, <2>6 DEF FetchGap
    <2> QED  BY <1>5, <2>1, <2>2, <2>3, <2>4, <2>5, <2>6 DEF Client
  <1> QED  BY <1>1, <1>3, <1>4, <1>5 DEF Next

\* Whatever processes write, evict, damage or leave half done, and however long
\* a call takes, the cache answers as BarsFetcher promises: with every bar that
\* was complete when the call was made, and none the provider does not have.
THEOREM CacheImplementsFetcher == Spec => ImplementsFetcher
  <1>1. Init => Fetcher!Init
    BY CacheAssumption DEF Init, Fetcher!Init, Fetcher!NoCall, Fetcher!Nothing, Nothing,
       protocolCalls
  <1>2. CacheInv /\ FetcherInv /\ CacheInv' /\ FetcherInv' /\ [Next]_vars
          => [Fetcher!Next]_<<clock, protocolCalls, answer>>
    BY ProtocolStep
  <1> QED
    BY <1>1, <1>2, CacheInvariance, FetcherInvariance, PTL
       DEF Spec, ImplementsFetcher, Fetcher!Spec
=============================================================================
