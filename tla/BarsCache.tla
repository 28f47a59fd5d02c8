------------------------------ MODULE BarsCache ------------------------------
(***************************************************************************)
(* PersistentBarsCache: bars of the provider, cached per symbol and month in *)
(* a store several processes share (optimize workers, parallel commands).    *)
(*                                                                          *)
(* A call reads a batch of monthly chunks, fetches what they do not cover,   *)
(* and writes the merged chunks back; nothing keeps another process from     *)
(* writing in between, and the last writer wins.  The store may fail, lose   *)
(* or corrupt a payload, the provider may fail, a process may die.           *)
(*                                                                          *)
(* Time is a number of slots, each long enough for one bar; half-open        *)
(* intervals are sets of slots and a bar is the slot it is of.               *)
(***************************************************************************)
EXTENDS Integers, Sequences, FiniteSets

CONSTANTS
  Clients,      \* processes
  Symbols,
  Traded,       \* per symbol, the slots it has a bar in
  Requests,     \* the requests clients make: distinct symbols and a range
  DayLength, MonthLength,   \* in slots
  Horizon,      \* slots (a bound)
  BatchSize,    \* _BATCH_SIZE
  StartClock,   \* slots completed at the start
  MaxCalls,     \* calls in a behaviour (a bound)
  MaxFaults     \* failures in a behaviour (a bound)

Slots  == 0..Horizon - 1
Months == 0..(Horizon - 1) \div MonthLength
Keys   == Symbols \X Months

ASSUME CacheAssumption ==
  /\ DayLength \in Nat \ {0} /\ MonthLength \in Nat \ {0}
  /\ Horizon \in Nat /\ BatchSize \in Nat \ {0}
  /\ StartClock \in Nat /\ MaxCalls \in Nat /\ MaxFaults \in Nat
  /\ Traded \in [Symbols -> SUBSET Slots]
  /\ Requests \subseteq [syms : Seq(Symbols), from : 0..Horizon, to : 0..Horizon]
  /\ \A r \in Requests : r.from <= r.to

VARIABLES
  clock,     \* slots completed so far
  store,     \* the shared ByteStore: the payload of each key
  broken,    \* ResilientByteStore._failed of each client
  pc,        \* where each client is
  asked,     \* its call, with the time it was made
  today,     \* start of the day, as read once per call
  done,      \* number of (symbol, month) requests of the call processed
  entries,   \* chunks of the current batch
  gaps,      \* fetches the batch still needs
  changed,   \* keys of the batch whose chunk was merged with fresh rows
  result,    \* bars collected for the call
  answer,    \* the last answer
  calls, faults   \* history: for the bounds

localVars == <<today, done, entries, gaps, changed, result>>
vars == <<clock, store, broken, pc, asked, localVars, answer, calls, faults>>

Range(a, b)  == {t \in Slots : a <= t /\ t < b}
MonthOf(m)   == Range(m * MonthLength, (m + 1) * MonthLength)
StartOfDay   == (clock \div DayLength) * DayLength
Smaller(a, b) == IF a <= b THEN a ELSE b
Larger(a, b)  == IF a >= b THEN a ELSE b

\* A chunk holds rows and the slots they were fetched for.  A payload is a
\* chunk with the key it was encoded for.
Empty   == [rows |-> {}, coverage |-> {}]
Absent  == [key |-> <<>>, rows |-> {}, coverage |-> {}]
NoCall  == [syms |-> <<>>, from |-> 0, to |-> 0, at |-> 0]
Nothing == [s \in Symbols |-> {}]

\* Mutant: the codec trusts every payload it can read.
DecodesAnything(k, p) == p # Absent

\* decode: the payload was encoded for this key, its coverage lies in the
\* month, and every row in the coverage.
Decodes(k, p) ==
  /\ p.key = k
  /\ p.coverage \subseteq MonthOf(k[2])
  /\ p.rows \subseteq p.coverage

\* What a client makes of a payload: nothing of today is taken from it.
Chunk(c, k) ==
  IF Decodes(k, store[k])
  THEN [rows     |-> {t \in store[k].rows : t < today[c]},
        coverage |-> {t \in store[k].coverage : t < today[c]}]
  ELSE Empty

\* Mutant: days count as over from their start.
CacheEndToday(c) == asked[c].to

\* Only days that are over are cached.
CacheEnd(c) == Smaller(asked[c].to, today[c])

\* The (symbol, month) requests of a call, month by month.
NumMonths(c) ==
  IF asked[c].from < CacheEnd(c)
  THEN (CacheEnd(c) - 1) \div MonthLength - asked[c].from \div MonthLength + 1
  ELSE 0
NumRequests(c) == NumMonths(c) * Len(asked[c].syms)
Key(c, i) ==
  LET n == Len(asked[c].syms)
  IN  <<asked[c].syms[((i - 1) % n) + 1],
        asked[c].from \div MonthLength + (i - 1) \div n>>
Batch(c) == {Key(c, i) : i \in done[c] + 1..Smaller(done[c] + BatchSize, NumRequests(c))}

\* What the batch lacks, per symbol as maximal intervals, grouped by interval
\* over the symbols that lack the same.
Wanted(c, k)  == MonthOf(k[2]) \cap Range(asked[c].from, CacheEnd(c))
Intervals(S)  == {i \in (0..Horizon) \X (0..Horizon) :
                    /\ i[1] < i[2] /\ Range(i[1], i[2]) \subseteq S
                    /\ i[1] - 1 \notin S /\ i[2] \notin S}
Gaps(c, chunks) ==
  LET missing(s) == UNION {Wanted(c, k) \ chunks[k].coverage : k \in {j \in Batch(c) : j[1] = s}}
      needed == UNION {Intervals(missing(s)) : s \in Symbols}
  IN  {[from |-> i[1], to |-> i[2],
        syms |-> {s \in Symbols : i \in Intervals(missing(s))}] : i \in needed}

\* The provider's answer: the bars complete by now.
Fetched(s, a, b) == {t \in Traded[s] : a <= t /\ t < b /\ t < clock}

-----------------------------------------------------------------------------
(* One call. *)

Idle(c) ==
  /\ pc' = [pc EXCEPT ![c] = "idle"]
  /\ asked' = [asked EXCEPT ![c] = NoCall]
  /\ today' = [today EXCEPT ![c] = 0]
  /\ done' = [done EXCEPT ![c] = 0]
  /\ entries' = [entries EXCEPT ![c] = [k \in Keys |-> Empty]]
  /\ gaps' = [gaps EXCEPT ![c] = {}]
  /\ changed' = [changed EXCEPT ![c] = {}]
  /\ result' = [result EXCEPT ![c] = Nothing]

Call(c, r) ==
  /\ pc[c] = "idle"
  /\ calls < MaxCalls
  /\ calls' = calls + 1
  /\ asked' = [asked EXCEPT ![c] = [syms |-> r.syms, from |-> r.from, to |-> r.to, at |-> clock]]
  /\ today' = [today EXCEPT ![c] = StartOfDay]
  /\ pc' = [pc EXCEPT ![c] = "read"]
  /\ UNCHANGED <<clock, store, broken, done, entries, gaps, changed, result, answer, faults>>

Loaded(c, chunks) ==
  /\ done[c] < NumRequests(c)
  /\ entries' = [entries EXCEPT ![c] = chunks]
  /\ gaps' = [gaps EXCEPT ![c] = Gaps(c, chunks)]
  /\ pc' = [pc EXCEPT ![c] = "fetch"]
  /\ UNCHANGED <<clock, store, asked, today, done, changed, result, answer, calls>>

\* A store that failed once is not asked again.
ReadBatch(c) ==
  /\ pc[c] = "read"
  /\ Loaded(c, [k \in Keys |-> IF k \in Batch(c) /\ ~broken[c] THEN Chunk(c, k) ELSE Empty])
  /\ UNCHANGED <<broken, faults>>

ReadFails(c) ==
  /\ pc[c] = "read"
  /\ ~broken[c]
  /\ faults < MaxFaults
  /\ faults' = faults + 1
  /\ Loaded(c, [k \in Keys |-> Empty])
  /\ broken' = [broken EXCEPT ![c] = TRUE]

\* One fetch for the symbols that lack the same interval; its rows and the
\* interval are merged into the chunks of those symbols, clipped to the month.
FetchGap(c, g) ==
  /\ pc[c] = "fetch"
  /\ g \in gaps[c]
  /\ LET hit == {k \in Batch(c) : k[1] \in g.syms /\ MonthOf(k[2]) \cap Range(g.from, g.to) # {}}
     IN  /\ entries' = [entries EXCEPT ![c] = [k \in Keys |->
              IF k \in hit
              THEN [rows     |-> @[k].rows \cup (MonthOf(k[2]) \cap Fetched(k[1], g.from, g.to)),
                    coverage |-> @[k].coverage \cup (MonthOf(k[2]) \cap Range(g.from, g.to))]
              ELSE @[k]]]
         /\ changed' = [changed EXCEPT ![c] = @ \cup hit]
  /\ gaps' = [gaps EXCEPT ![c] = @ \ {g}]
  /\ UNCHANGED <<clock, store, broken, pc, asked, today, done, result, answer, calls, faults>>

\* The batch is complete: its bars go to the result, and the next is read.
BatchDone(c) ==
  /\ pc[c] = "fetch"
  /\ gaps[c] = {}
  /\ result' = [result EXCEPT ![c] = [s \in Symbols |->
       @[s] \cup UNION {Wanted(c, k) \cap entries[c][k].rows : k \in {j \in Batch(c) : j[1] = s}}]]
  /\ done' = [done EXCEPT ![c] = Smaller(@ + BatchSize, NumRequests(c))]
  /\ entries' = [entries EXCEPT ![c] = [k \in Keys |-> Empty]]
  /\ changed' = [changed EXCEPT ![c] = {}]
  /\ pc' = [pc EXCEPT ![c] = "read"]
  /\ UNCHANGED <<clock, asked, today, gaps, answer, calls>>

Payload(k, chunk) == [key |-> k, rows |-> chunk.rows, coverage |-> chunk.coverage]

WriteBatch(c) ==
  /\ BatchDone(c)
  /\ store' = [k \in Keys |->
       IF k \in changed[c] /\ ~broken[c] THEN Payload(k, entries[c][k]) ELSE store[k]]
  /\ UNCHANGED <<broken, faults>>

\* A chunk that cannot be encoded is not written; a failing store is given up.
WriteFails(c) ==
  /\ BatchDone(c)
  /\ changed[c] # {} /\ ~broken[c]
  /\ faults < MaxFaults
  /\ faults' = faults + 1
  /\ \/ broken' = [broken EXCEPT ![c] = TRUE] /\ UNCHANGED store
     \/ /\ UNCHANGED broken
        /\ \E k \in changed[c] : store' = [j \in Keys |->
             IF j \in changed[c] \ {k} THEN Payload(j, entries[c][j]) ELSE store[j]]

Answered(c, bars) ==
  /\ answer' = [answer EXCEPT ![c] = bars]
  /\ Idle(c)
  /\ UNCHANGED <<clock, store, broken, calls, faults>>

\* What the range has of today and later comes from the provider.
TailStart(c) == Larger(asked[c].from, CacheEnd(c))

FetchTail(c) ==
  /\ pc[c] = "read" /\ done[c] = NumRequests(c)
  /\ asked[c].to > TailStart(c)
  /\ Answered(c, [s \in Symbols |->
       IF \E i \in 1..Len(asked[c].syms) : asked[c].syms[i] = s
       THEN result[c][s] \cup Fetched(s, TailStart(c), asked[c].to)
       ELSE {}])

Return(c) ==
  /\ pc[c] = "read" /\ done[c] = NumRequests(c)
  /\ asked[c].to <= TailStart(c)
  /\ Answered(c, result[c])

\* The provider fails: the call raises, what earlier batches wrote stays.
FetchFails(c) ==
  /\ \/ pc[c] = "fetch" /\ gaps[c] # {}
     \/ pc[c] = "read" /\ done[c] = NumRequests(c) /\ asked[c].to > TailStart(c)
  /\ faults < MaxFaults
  /\ faults' = faults + 1
  /\ Idle(c)
  /\ UNCHANGED <<clock, store, broken, answer, calls>>

\* The process dies, and another takes its place.
Dies(c) ==
  /\ pc[c] # "idle"
  /\ faults < MaxFaults
  /\ faults' = faults + 1
  /\ Idle(c)
  /\ broken' = [broken EXCEPT ![c] = FALSE]
  /\ UNCHANGED <<clock, store, answer, calls>>

-----------------------------------------------------------------------------
(* The world: time passes, and a payload is evicted or damaged.              *)

SlotEnds ==
  /\ clock < Horizon
  /\ clock' = clock + 1
  /\ UNCHANGED <<store, broken, pc, asked, localVars, answer, calls, faults>>

\* Damage a codec can tell: another key's payload, or rows that the declared
\* coverage does not explain.
Damages(k) ==
  {Absent} \cup {p \in {store[j] : j \in Keys} : p.key # k}
  \cup {p \in {[store[k] EXCEPT !.rows = MonthOf(k[2])], [store[k] EXCEPT !.coverage = {}]} :
         ~(p.rows \subseteq p.coverage)}

StoreDamaged(k, p) ==
  /\ faults < MaxFaults
  /\ faults' = faults + 1
  /\ p \in Damages(k)
  /\ store' = [store EXCEPT ![k] = p]
  /\ UNCHANGED <<clock, broken, pc, asked, localVars, answer, calls>>

-----------------------------------------------------------------------------

Init ==
  /\ clock = StartClock
  /\ store = [k \in Keys |-> Absent]
  /\ broken = [c \in Clients |-> FALSE]
  /\ pc = [c \in Clients |-> "idle"]
  /\ asked = [c \in Clients |-> NoCall]
  /\ today = [c \in Clients |-> 0]
  /\ done = [c \in Clients |-> 0]
  /\ entries = [c \in Clients |-> [k \in Keys |-> Empty]]
  /\ gaps = [c \in Clients |-> {}]
  /\ changed = [c \in Clients |-> {}]
  /\ result = [c \in Clients |-> Nothing]
  /\ answer = [c \in Clients |-> Nothing]
  /\ calls = 0 /\ faults = 0

Client(c) ==
  \/ ReadBatch(c) \/ ReadFails(c) \/ WriteBatch(c) \/ WriteFails(c)
  \/ FetchTail(c) \/ Return(c) \/ FetchFails(c) \/ Dies(c)
  \/ \E r \in Requests : Call(c, r)
  \/ \E g \in gaps[c] : FetchGap(c, g)

Next ==
  \/ SlotEnds
  \/ \E c \in Clients : Client(c)
  \/ \E k \in Keys : \E p \in Damages(k) : StoreDamaged(k, p)

Spec == Init /\ [][Next]_vars

-----------------------------------------------------------------------------
(* Properties. *)

ChunkType == [rows : SUBSET Slots, coverage : SUBSET Slots]
Gap == [from : 0..Horizon, to : 0..Horizon, syms : SUBSET Symbols]

TypeOK ==
  /\ clock \in Nat
  /\ store \in [Keys -> [key : Keys \cup {<<>>}, rows : SUBSET Slots, coverage : SUBSET Slots]]
  /\ broken \in [Clients -> BOOLEAN]
  /\ pc \in [Clients -> {"idle", "read", "fetch"}]
  /\ asked \in [Clients -> [syms : Seq(Symbols), from : Nat, to : Nat, at : Nat]]
  /\ today \in [Clients -> Nat] /\ done \in [Clients -> Nat]
  /\ entries \in [Clients -> [Keys -> ChunkType]]
  /\ gaps \in [Clients -> SUBSET Gap]
  /\ changed \in [Clients -> SUBSET Keys]
  /\ result \in [Clients -> [Symbols -> SUBSET Slots]]
  /\ answer \in [Clients -> [Symbols -> SUBSET Slots]]
  /\ calls \in Nat /\ faults \in Nat

\* bars.py: stale writers "never attach another writer's coverage to unrelated
\* rows".  Whoever wrote it last and whatever was damaged, a payload that
\* decodes holds exactly the provider's bars of the slots it claims, and only
\* of days that are over.
Exact(k, chunk) ==
  /\ chunk.rows = chunk.coverage \cap Traded[k[1]]
  /\ \A t \in chunk.coverage : t < StartOfDay

StoreExact == \A k \in Keys : Decodes(k, store[k]) => Exact(k, store[k])

\* The inductive invariant behind StoreExact.  The chunks a call works on are
\* exact all along, because it never fetches, to record it, anything of a day
\* that may still get bars: not even when the day it started on is long over.
CacheTyped ==
  /\ clock \in Nat
  /\ store \in [Keys -> [key : Keys \cup {<<>>}, rows : SUBSET Slots, coverage : SUBSET Slots]]
  /\ asked \in [Clients -> [syms : Seq(Symbols), from : Nat, to : Nat, at : Nat]]
  /\ today \in [Clients -> Nat]
  /\ entries \in [Clients -> [Keys -> ChunkType]]
  /\ gaps \in [Clients -> SUBSET Gap]

CallsExact ==
  \A c \in Clients :
    /\ today[c] <= StartOfDay
    /\ \A k \in Keys : Exact(k, entries[c][k])
    /\ \A g \in gaps[c] : g.to <= StartOfDay

CacheInv == CacheTyped /\ StoreExact /\ CallsExact

\* A client's call as the protocol sees it.
protocolCalls == [c \in Clients |->
  IF pc[c] = "idle" THEN [waiting |-> FALSE, syms |-> {}, from |-> 0, to |-> 0, at |-> 0]
  ELSE [waiting |-> TRUE, syms |-> {asked[c].syms[i] : i \in 1..Len(asked[c].syms)},
        from |-> asked[c].from, to |-> asked[c].to, at |-> asked[c].at]]

\* The cache answers as the provider would.
Fetcher == INSTANCE BarsFetcher WITH asked <- protocolCalls

ImplementsFetcher == Fetcher!Spec
=============================================================================
