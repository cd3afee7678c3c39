---------------------------- MODULE StatsDb_proofs ----------------------------
(***************************************************************************)
(* Proofs about StatsDb, for any series, buckets, limits and times: a       *)
(* sample is stored once, the history of a series is its own, the latest    *)
(* poll is the newest there is, and the whole is the store of samples of    *)
(* SampleStore.  All need that no insert fails half-way, after a series was *)
(* looked up: the cache then keeps an id whose row was rolled back (run     *)
(* stats_db_full).                                                          *)
(***************************************************************************)
EXTENDS StatsDb, TLAPS, FiniteSetTheorems

\* An insert fails only at its first statement, if at all.
WholeInserts == "insert" \notin CanFail

(***************************************************************************)
(* The inductive invariant.                                                *)
(***************************************************************************)

\* No two rows have one key, and ids from n on are unused.
TableSound(t, n) ==
  /\ t \in [Ids -> RowType]
  /\ n \in 1..(MaxIds + 1)
  /\ \A i, j \in Ids : t[i].key = t[j].key /\ t[i].key # NoKey => i = j
  /\ \A i \in Ids : i >= n => t[i].key = NoKey

CacheSound ==
  /\ cache \in [Keys -> Ids \cup {NoId}]
  /\ \A k \in Keys : cache[k] # NoId => table[cache[k]].key = k

HeldShape(h) ==
  /\ h = [bucket |-> h.bucket, samples |-> h.samples, polls |-> h.polls, rows |-> h.rows,
          seen |-> h.seen]
  /\ h.samples \in Samples
  /\ h.seen \in [Ids -> Times \cup {0}]

Inserting == busy.op = "insert"

\* Until the first series is looked up nothing has changed.
InsertSound ==
  /\ busy = [op |-> "insert", report |-> busy.report, todo |-> busy.todo, before |-> busy.before]
  /\ busy.report \in Reports
  /\ busy.todo \subseteq busy.report.keys
  /\ Len(polls) < MaxPolls
  /\ TableSound(busy.before.table, busy.before.nextId)
  /\ busy.todo = busy.report.keys => table = busy.before.table /\ nextId = busy.before.nextId

BusyShape ==
  \/ busy = Idle
  \/ InsertSound
  \/ /\ busy.op \in {"flush", "prune"}
     /\ busy = [op |-> busy.op, at |-> busy.at, cutoff |-> busy.cutoff]

\* A poll that has not arrived has no samples, but for those that the insert in
\* progress has held for it, one for each series it has looked up.
Unarrived ==
  \A h \in Homes, p \in PollNo : p > Len(polls) =>
    /\ chunks[h][p] = 0
    /\ \/ held.samples[h][p] = 0
       \/ /\ Inserting /\ p = Current /\ h \in Ids
          /\ table[h].key \in busy.report.keys \ busy.todo

\* A poll that reports ks may have given a sample to the series of key.
Fits(key, ks) ==
  \E k \in ks : /\ k.instance = key.instance /\ k.group = key.group
                /\ k.group = NoGroup => k = key

\* What is on disk belongs also to the rows that a crash would bring back.
BeforeSound ==
  Inserting =>
    \A id \in Ids, p \in PollNo : chunks[id][p] > 0 =>
      /\ id < busy.before.nextId
      /\ busy.before.table[id].key # NoKey => Fits(busy.before.table[id].key, polls[p].keys)

UnusedIds == \A id \in Ids, p \in PollNo : id >= nextId => Copies(id, p) = 0

StoreInv ==
  /\ polls \in Seq(Reports)
  /\ TableSound(table, nextId) /\ CacheSound
  /\ chunks \in Samples
  /\ HeldShape(held)
  /\ BusyShape
  /\ Unarrived /\ BeforeSound /\ UnusedIds
  /\ StoredOnce /\ HistoryIsOwn

LEMMA HomesAreApart == Hardware \in Homes /\ Hardware \notin Ids /\ Ids \subseteq Homes /\ NoId \notin Ids
BY DEF Hardware, Homes, Ids, NoId

LEMMA NoKeyIsNone == NoKey \notin Keys
BY StatsDbAssumption DEF NoKey

LEMMA InitInv == Init => StoreInv
<1> SUFFICES ASSUME Init PROVE StoreInv
  OBVIOUS
<1>1. polls \in Seq(Reports) /\ Len(polls) = 0
  BY DEF Init
<1>2. TableSound(table, nextId)
  BY StatsDbAssumption DEF Init, TableSound, RowType, NoRow, Ids
<1>3. CacheSound
  BY DEF Init, CacheSound
<1>4. chunks \in Samples /\ HeldShape(held) /\ held.samples = NoSamples /\ chunks = NoSamples
  BY DEF Init, Samples, NoSamples, HeldShape, Emptied, NoSeen
<1>5. BusyShape /\ ~Inserting
  BY DEF Init, BusyShape, Inserting, Idle
<1>6. Unarrived /\ BeforeSound /\ UnusedIds /\ StoredOnce /\ HistoryIsOwn
  BY <1>4, <1>5, HomesAreApart DEF Unarrived, BeforeSound, UnusedIds, StoredOnce, HistoryIsOwn, Copies, NoSamples
<1> QED BY <1>1, <1>2, <1>3, <1>4, <1>5, <1>6 DEF StoreInv

LEMMA SampleTypes ==
  ASSUME StoreInv, NEW h \in Homes, NEW p \in PollNo
  PROVE  chunks[h][p] \in Nat /\ held.samples[h][p] \in Nat
BY DEF StoreInv, HeldShape, Samples

LEMMA OwnIsFitting ==
  HistoryIsOwn <=> \A id \in Ids, p \in PollNo :
                     table[id].key # NoKey /\ Copies(id, p) > 0 => Fits(table[id].key, ReportOf(p).keys)
BY DEF HistoryIsOwn, Fits

(***************************************************************************)
(* Steps outside an insert: no home gets more samples, and rows only go.   *)
(***************************************************************************)
NoMore ==
  \A h \in Homes, p \in PollNo :
    chunks'[h][p] + held'.samples[h][p] <= chunks[h][p] + held.samples[h][p]

LEMMA FewerInv ==
  ASSUME StoreInv, ~Inserting, UNCHANGED <<polls, nextId>>,
         chunks' \in Samples, HeldShape(held)', NoMore,
         TableSound(table, nextId)', CacheSound', BusyShape',
         \A id \in Ids : table'[id].key \in {table[id].key, NoKey},
         Inserting' => busy'.before.table = table' /\ busy'.before.nextId = nextId'
  PROVE  StoreInv'
<1>1. \A h \in Homes, p \in PollNo :
        /\ chunks[h][p] \in Nat /\ held.samples[h][p] \in Nat
        /\ chunks'[h][p] \in Nat /\ held'.samples[h][p] \in Nat
  BY SampleTypes DEF HeldShape, Samples
<1>2. ASSUME NEW h \in Homes, NEW p \in PollNo, p > Len(polls)
      PROVE  chunks'[h][p] = 0 /\ held'.samples[h][p] = 0
  <2>1. chunks[h][p] = 0 /\ held.samples[h][p] = 0
    BY <1>2 DEF StoreInv, Unarrived
  <2> QED BY <2>1, <1>1 DEF NoMore
<1>3. Unarrived'
  BY <1>2 DEF Unarrived
<1>4. StoredOnce'
  <2> SUFFICES ASSUME NEW h \in Homes, NEW p \in PollNo PROVE Copies(h, p)' <= 1
    BY DEF StoredOnce
  <2>1. chunks[h][p] + held.samples[h][p] <= 1
    BY DEF StoreInv, StoredOnce, Copies
  <2>2. chunks'[h][p] + held'.samples[h][p] <= chunks[h][p] + held.samples[h][p]
    BY DEF NoMore
  <2> QED BY <2>1, <2>2, <1>1 DEF Copies
<1>5. UnusedIds'
  <2> SUFFICES ASSUME NEW id \in Ids, NEW p \in PollNo, id >= nextId PROVE Copies(id, p)' = 0
    BY DEF UnusedIds
  <2>1. chunks[id][p] + held.samples[id][p] = 0
    BY DEF StoreInv, UnusedIds, Copies
  <2>2. chunks'[id][p] + held'.samples[id][p] <= chunks[id][p] + held.samples[id][p]
    BY HomesAreApart DEF NoMore
  <2> QED BY <2>1, <2>2, <1>1, HomesAreApart DEF Copies
<1>6. ASSUME NEW id \in Ids, NEW p \in PollNo, chunks'[id][p] + held'.samples[id][p] > 0,
             table'[id].key # NoKey
      PROVE  p <= Len(polls) /\ id < nextId /\ Fits(table'[id].key, polls[p].keys)
  <2>1. id \in Homes /\ Len(polls) \in Nat /\ p \in Nat /\ nextId \in Nat /\ id \in Nat
    BY HomesAreApart DEF StoreInv, PollNo, TableSound, Ids
  <2>2. p <= Len(polls)
    BY <1>2, <1>6, <2>1
  <2>3. id < nextId
    BY <1>6, <2>1 DEF TableSound
  <2>4. chunks[id][p] + held.samples[id][p] > 0
    BY <1>6, <2>1, <1>1 DEF NoMore
  <2>5. Fits(table[id].key, ReportOf(p).keys)
    BY <2>4, <1>6, OwnIsFitting DEF StoreInv, Copies
  <2>6. ReportOf(p) = polls[p]
    BY <2>2, <2>1 DEF ReportOf, Current
  <2> QED BY <2>2, <2>3, <2>5, <2>6, <1>6
<1>7. HistoryIsOwn'
  <2> SUFFICES ASSUME NEW id \in Ids, NEW p \in PollNo, table'[id].key # NoKey, Copies(id, p)' > 0
               PROVE  Fits(table'[id].key, ReportOf(p)'.keys)
    BY DEF HistoryIsOwn, Fits
  <2>1. p <= Len(polls) /\ Fits(table'[id].key, polls[p].keys)
    BY <1>6 DEF Copies
  <2>2. ReportOf(p)' = polls[p]
    BY <2>1 DEF ReportOf, Current, StoreInv, PollNo
  <2> QED BY <2>1, <2>2
<1>8. BeforeSound'
  <2> SUFFICES ASSUME Inserting', NEW id \in Ids, NEW p \in PollNo, chunks'[id][p] > 0
               PROVE  id < nextId /\ (table'[id].key # NoKey => Fits(table'[id].key, polls[p].keys))
    BY DEF BeforeSound
  <2>1. chunks'[id][p] + held'.samples[id][p] > 0
    BY <1>1, HomesAreApart
  <2>2. id < nextId
    BY <1>5, <2>1 DEF UnusedIds, Copies, TableSound, Ids
  <2> QED BY <2>1, <2>2, <1>6
<1> QED BY <1>3, <1>4, <1>5, <1>7, <1>8 DEF StoreInv

LEMMA EmptiedShape ==
  ASSUME NEW seen \in [Ids -> Times \cup {0}]
  PROVE  HeldShape(Emptied(seen)) /\ \A h \in Homes, p \in PollNo : Emptied(seen).samples[h][p] = 0
BY DEF Emptied, HeldShape, Samples, NoSamples

\* Whether a flush succeeds, fails or has nothing to do.
LEMMA FlushMoves ==
  ASSUME StoreInv, FlushDone \/ FlushFails
  PROVE  chunks' \in Samples /\ HeldShape(held)' /\ NoMore
<1>1. held.seen \in [Ids -> Times \cup {0}] /\ HeldShape(held) /\ chunks \in Samples
  BY DEF StoreInv, HeldShape
<1>2. HeldShape(Emptied(held.seen))
      /\ \A h \in Homes, p \in PollNo : Emptied(held.seen).samples[h][p] = 0
  BY <1>1, EmptiedShape
<1>3. CASE UNCHANGED <<chunks, held>>
  BY <1>1, <1>3, SampleTypes DEF NoMore, HeldShape
<1>4. CASE chunks' = chunks /\ held' = Emptied(held.seen)
  BY <1>1, <1>2, <1>4, SampleTypes DEF NoMore, HeldShape
<1>5. CASE chunks' = Written(chunks) /\ held' = Emptied(held.seen)
  <2>1. Written(chunks) \in Samples
    BY SampleTypes DEF Written, Samples
  <2>2. \A h \in Homes, p \in PollNo : Written(chunks)[h][p] = chunks[h][p] + held.samples[h][p]
    BY DEF Written
  <2> QED BY <1>2, <1>5, <2>1, <2>2, SampleTypes DEF NoMore, HeldShape
<1> QED BY <1>3, <1>4, <1>5 DEF FlushDone, FlushFails, HeldAfterFailure

LEMMA TableKept ==
  ASSUME StoreInv, UNCHANGED <<table, nextId, cache>>
  PROVE  /\ TableSound(table, nextId)' /\ CacheSound'
         /\ \A id \in Ids : table'[id].key \in {table[id].key, NoKey}
BY DEF StoreInv, TableSound, CacheSound

LEMMA BeginInv ==
  ASSUME StoreInv, NEW i \in Instances \cup {NoGroup}, NEW ts \in Times, NEW ks \in SUBSET Keys,
         \A k \in ks : k.instance = i, Begin(i, ts, ks)
  PROVE  StoreInv'
<1>1. /\ busy = Idle /\ Len(polls) < MaxPolls
      /\ busy' = [op |-> "insert", report |-> [instance |-> i, ts |-> ts, keys |-> ks],
                  todo |-> ks, before |-> [table |-> table, nextId |-> nextId, held |-> held']]
      /\ UNCHANGED <<polls, table, nextId, cache>>
      /\ (FlushDone \/ FlushFails) \/ UNCHANGED <<chunks, lastPoll, held>>
  BY DEF Begin
<1>2. ~Inserting
  BY <1>1 DEF Inserting, Idle
<1>3. chunks' \in Samples /\ HeldShape(held)' /\ NoMore
  <2>1. CASE UNCHANGED <<chunks, lastPoll, held>>
    BY <2>1, SampleTypes DEF NoMore, StoreInv, HeldShape
  <2> QED BY <1>1, <2>1, FlushMoves
<1>4. TableSound(table, nextId)' /\ CacheSound'
      /\ \A id \in Ids : table'[id].key \in {table[id].key, NoKey}
  BY <1>1, TableKept
<1>5. BusyShape'
  <2>1. busy'.report \in Reports
    BY <1>1 DEF Reports
  <2>2. TableSound(table, nextId)
    BY DEF StoreInv
  <2> QED BY <1>1, <2>1, <2>2 DEF BusyShape, InsertSound
<1> QED BY <1>1, <1>2, <1>3, <1>4, <1>5, FewerInv

LEMMA FlushIfDueInv ==
  ASSUME StoreInv, NEW ts \in Times, FlushIfDue(ts)
  PROVE  StoreInv'
<1>1. busy = Idle /\ busy' = busy /\ UNCHANGED <<polls, table, nextId, cache>>
  BY DEF FlushIfDue
<1>2. ~Inserting /\ ~Inserting' /\ BusyShape'
  BY <1>1 DEF Inserting, Idle, BusyShape
<1>3. chunks' \in Samples /\ HeldShape(held)' /\ NoMore
  BY FlushMoves DEF FlushIfDue
<1> QED BY <1>1, <1>2, <1>3, TableKept, FewerInv

LEMMA BeginFlushInv ==
  ASSUME StoreInv, NEW op \in {"flush", "prune"}, NEW c, BeginFlush(op, c)
  PROVE  StoreInv'
<1>1. busy = Idle /\ UNCHANGED <<polls, table, nextId, cache>>
      /\ (FlushDone \/ FlushFails) /\ (busy' = busy \/ busy' = [op |-> op, at |-> "seen", cutoff |-> c])
  BY DEF BeginFlush
<1>2. ~Inserting /\ ~Inserting' /\ BusyShape'
  BY <1>1 DEF Inserting, Idle, BusyShape
<1>3. chunks' \in Samples /\ HeldShape(held)' /\ NoMore
  BY <1>1, FlushMoves
<1> QED BY <1>1, <1>2, <1>3, TableKept, FewerInv

LEMMA WriteSeenInv ==
  ASSUME StoreInv, WriteSeen
  PROVE  StoreInv'
<1>1. /\ busy.op \in {"flush", "prune"} /\ UNCHANGED <<polls, nextId, cache, chunks>>
  BY DEF WriteSeen
<1>2. busy # Idle /\ ~Inserting /\ busy = [op |-> busy.op, at |-> busy.at, cutoff |-> busy.cutoff]
  BY <1>1 DEF StoreInv, Idle, BusyShape, InsertSound, Inserting
<1>3. ~Inserting' /\ BusyShape'
  BY <1>1, <1>2 DEF WriteSeen, Inserting, BusyShape, Idle
<1>4. HeldShape(held)' /\ held'.samples = held.samples
  BY DEF WriteSeen, StoreInv, HeldShape, NoSeen
<1>5. chunks' \in Samples /\ NoMore
  BY <1>1, <1>4, SampleTypes DEF NoMore, StoreInv
<1>6. table' \in [Ids -> RowType] /\ \A id \in Ids : table'[id].key = table[id].key
  <2>1. table \in [Ids -> RowType] /\ held.seen \in [Ids -> Times \cup {0}]
    BY DEF StoreInv, TableSound, HeldShape
  <2>2. CASE table' = table
    BY <2>1, <2>2
  <2>3. CASE table' = [id \in Ids |-> IF held.seen[id] # 0 /\ table[id] # NoRow
                                     THEN [table[id] EXCEPT !.lastSeen = held.seen[id]]
                                     ELSE table[id]]
    <3>1. \A id \in Ids : /\ table[id] \in RowType
                         /\ [table[id] EXCEPT !.lastSeen = held.seen[id]] \in RowType
                         /\ [table[id] EXCEPT !.lastSeen = held.seen[id]].key = table[id].key
      BY <2>1 DEF RowType
    <3> QED BY <2>3, <3>1
  <2> QED BY <2>2, <2>3 DEF WriteSeen
<1>7. TableSound(table, nextId)' /\ CacheSound'
  BY <1>1, <1>6 DEF StoreInv, TableSound, CacheSound
<1> QED BY <1>1, <1>2, <1>3, <1>4, <1>5, <1>6, <1>7, FewerInv

LEMMA DeleteOldInv ==
  ASSUME StoreInv, DeleteOld
  PROVE  StoreInv'
<1>1. busy.op = "prune" /\ busy' = Idle /\ UNCHANGED <<polls, nextId, held>>
  BY DEF DeleteOld
<1>2. ~Inserting /\ ~Inserting' /\ BusyShape'
  BY <1>1 DEF Inserting, Idle, BusyShape
<1>3. HeldShape(held)'
  BY <1>1 DEF StoreInv, HeldShape
<1>4. CASE UNCHANGED <<chunks, table, cache>>
  BY <1>1, <1>2, <1>3, <1>4, TableKept, SampleTypes, FewerInv DEF NoMore, StoreInv
<1>5. CASE \E gone \in SUBSET Ids, old \in SUBSET (Homes \X PollNo) :
             /\ table' = [id \in Ids |-> IF id \in gone THEN NoRow ELSE table[id]]
             /\ cache' = CacheAfter(gone)
             /\ chunks' = [h \in Homes |-> [p \in PollNo |->
                             IF <<h, p>> \in old THEN 0 ELSE chunks[h][p]]]
  <2>1. PICK gone \in SUBSET Ids, old \in SUBSET (Homes \X PollNo) :
             /\ table' = [id \in Ids |-> IF id \in gone THEN NoRow ELSE table[id]]
             /\ cache' = CacheAfter(gone)
             /\ chunks' = [h \in Homes |-> [p \in PollNo |->
                             IF <<h, p>> \in old THEN 0 ELSE chunks[h][p]]]
    BY <1>5
  <2>2. chunks' \in Samples /\ NoMore
    BY <2>1, <1>1, SampleTypes DEF NoMore, Samples
  <2>3. table' \in [Ids -> RowType] /\ \A id \in Ids : table'[id].key \in {table[id].key, NoKey}
    BY <2>1 DEF StoreInv, TableSound, RowType, NoRow
  <2>4. TableSound(table, nextId)'
    BY <1>1, <2>3 DEF StoreInv, TableSound
  <2>5. CacheSound'
    <3>1. CASE gone = {}
      BY <2>1, <3>1 DEF StoreInv, CacheSound, CacheAfter
    <3>2. CASE gone # {}
      BY <2>1, <3>2 DEF CacheSound, CacheAfter
    <3> QED BY <3>1, <3>2
  <2> QED BY <1>1, <1>2, <1>3, <2>2, <2>3, <2>4, <2>5, FewerInv
<1>6. CASE ~UNCHANGED <<chunks, table, cache>>
  <2> DEFINE gone == {id \in Ids : Forgotten(id, busy.cutoff)}
  <2> DEFINE old == {hp \in Homes \X PollNo : Expired(hp[1], hp[2], busy.cutoff)}
  <2>1. /\ chunks' = [h \in Homes |-> [p \in PollNo |->
                        IF Expired(h, p, busy.cutoff) THEN 0 ELSE chunks[h][p]]]
        /\ table' = [id \in Ids |-> IF id \in gone THEN NoRow ELSE table[id]]
        /\ cache' = CacheAfter(gone)
    BY <1>6 DEF DeleteOld
  <2>2. \A h \in Homes, p \in PollNo : Expired(h, p, busy.cutoff) <=> <<h, p>> \in old
    OBVIOUS
  <2>3. chunks' = [h \in Homes |-> [p \in PollNo |-> IF <<h, p>> \in old THEN 0 ELSE chunks[h][p]]]
    <3> HIDE DEF old, gone
    <3> QED BY <2>1, <2>2
  <2>4. gone \in SUBSET Ids /\ old \in SUBSET (Homes \X PollNo)
    OBVIOUS
  <2> HIDE DEF gone, old
  <2> QED BY <1>5, <2>1, <2>3, <2>4
<1> QED BY <1>4, <1>6

(***************************************************************************)
(* Steps of an insert.                                                     *)
(***************************************************************************)
LEMMA InsertFacts ==
  ASSUME StoreInv, Inserting
  PROVE  /\ InsertSound
         /\ Len(polls) \in Nat /\ Current \in PollNo /\ Current = Len(polls) + 1
         /\ \A k \in busy.report.keys : k \in Keys /\ k.instance = busy.report.instance
<1>1. InsertSound
  BY DEF StoreInv, Inserting, BusyShape, Idle
<1>2. Len(polls) \in Nat /\ Len(polls) < MaxPolls
  BY <1>1 DEF StoreInv, InsertSound
<1> QED BY <1>1, <1>2, StatsDbAssumption DEF InsertSound, Current, PollNo, Reports

LEMMA HoldMoves ==
  ASSUME StoreInv, NEW k \in Keys, NEW id \in Ids, Interning(k), Hold(k, id),
         table[id].key \notin busy.report.keys \ busy.todo
  PROVE  /\ HeldShape(held)'
         /\ chunks[id][Current] = 0 /\ held.samples[id][Current] = 0
         /\ \A h \in Homes, p \in PollNo :
              held'.samples[h][p] = IF h = id /\ p = Current THEN 1 ELSE held.samples[h][p]
         /\ busy' = [op |-> "insert", report |-> busy.report, todo |-> busy.todo \ {k},
                     before |-> busy.before]
         /\ k \in busy.report.keys /\ Inserting /\ UNCHANGED <<polls, chunks>>
<1>1. Inserting /\ k \in busy.todo
  BY DEF Interning, Inserting
<1>2. InsertSound /\ Current \in PollNo /\ Current > Len(polls) /\ busy.report \in Reports
  BY <1>1, InsertFacts DEF InsertSound
<1>3. id \in Homes /\ HeldShape(held)
  BY HomesAreApart DEF StoreInv
<1>4. chunks[id][Current] = 0 /\ held.samples[id][Current] = 0
  BY <1>2, <1>3 DEF StoreInv, Unarrived
<1>5. held' = [held EXCEPT !.samples[id][Current] = @ + 1, !.seen[id] = busy.report.ts]
      /\ busy' = [busy EXCEPT !.todo = @ \ {k}] /\ UNCHANGED <<polls, chunks>>
  BY DEF Hold
<1>6. /\ held'.samples = [held.samples EXCEPT ![id] = [held.samples[id] EXCEPT ![Current] = held.samples[id][Current] + 1]]
      /\ held'.seen = [held.seen EXCEPT ![id] = busy.report.ts]
      /\ held' = [bucket |-> held'.bucket, samples |-> held'.samples, polls |-> held'.polls,
                  rows |-> held'.rows, seen |-> held'.seen]
  BY <1>3, <1>5 DEF HeldShape
<1>7. busy.report.ts \in Times
  BY <1>2 DEF Reports
<1>8. held'.seen \in [Ids -> Times \cup {0}]
  BY <1>3, <1>6, <1>7 DEF HeldShape
<1>9. \A h \in Homes, p \in PollNo :
        held'.samples[h][p] = IF h = id /\ p = Current THEN 1 ELSE held.samples[h][p]
  BY <1>2, <1>3, <1>4, <1>6 DEF HeldShape, Samples
<1>10. held'.samples \in Samples
  BY <1>2, <1>3, <1>4, <1>6 DEF HeldShape, Samples
<1>11. HeldShape(held)'
  BY <1>6, <1>8, <1>10 DEF HeldShape
<1>12. k \in busy.report.keys
  BY <1>1, <1>2 DEF InsertSound
<1>13. busy = [op |-> "insert", report |-> busy.report, todo |-> busy.todo, before |-> busy.before]
  BY <1>2 DEF InsertSound
<1>14. busy' = [op |-> "insert", report |-> busy.report, todo |-> busy.todo \ {k},
               before |-> busy.before]
  BY <1>5, <1>13
<1> QED BY <1>1, <1>4, <1>5, <1>9, <1>11, <1>12, <1>14

LEMMA HoldInv ==
  ASSUME StoreInv, NEW k \in Keys, NEW id \in Ids, Interning(k), Hold(k, id),
         TableSound(table, nextId)', CacheSound', table'[id].key = k,
         nextId <= nextId', id < nextId',
         \A j \in Ids \ {id} : table'[j].key = table[j].key,
         table[id].key \notin busy.report.keys \ busy.todo,
         \A p \in PollNo : Copies(id, p) > 0 => Fits(k, ReportOf(p).keys)
  PROVE  StoreInv'
<1>1. /\ HeldShape(held)'
      /\ chunks[id][Current] = 0 /\ held.samples[id][Current] = 0
      /\ \A h \in Homes, p \in PollNo :
           held'.samples[h][p] = IF h = id /\ p = Current THEN 1 ELSE held.samples[h][p]
      /\ busy' = [op |-> "insert", report |-> busy.report, todo |-> busy.todo \ {k},
                  before |-> busy.before]
      /\ k \in busy.report.keys /\ Inserting /\ UNCHANGED <<polls, chunks>>
  BY HoldMoves
<1>2. InsertSound /\ Len(polls) \in Nat /\ Current \in PollNo /\ Current = Len(polls) + 1
  BY <1>1, InsertFacts
<1>3. Inserting' /\ Current' = Current /\ busy'.report = busy.report /\ busy'.before = busy.before
      /\ busy'.todo = busy.todo \ {k} /\ ReportOf(Current)' = busy.report
      /\ \A p \in PollNo : ReportOf(p)' = ReportOf(p)
  BY <1>1 DEF Inserting, Current, ReportOf
<1>4. BusyShape'
  <2>1. busy'.todo # busy'.report.keys
    BY <1>1, <1>3
  <2>2. busy' = [op |-> "insert", report |-> busy'.report, todo |-> busy'.todo, before |-> busy'.before]
    BY <1>1
  <2>3. TableSound(busy.before.table, busy.before.nextId)'
    BY <1>2, <1>3 DEF InsertSound, TableSound
  <2>4. InsertSound'
    BY <1>1, <1>2, <1>3, <2>1, <2>2, <2>3 DEF InsertSound
  <2> QED BY <2>4 DEF BusyShape
<1>5. Unarrived'
  <2> SUFFICES ASSUME NEW h \in Homes, NEW p \in PollNo, p > Len(polls)
               PROVE  /\ chunks[h][p] = 0
                      /\ \/ held'.samples[h][p] = 0
                         \/ /\ p = Current /\ h \in Ids
                            /\ table'[h].key \in busy.report.keys \ (busy.todo \ {k})
    BY <1>1, <1>3 DEF Unarrived
  <2>1. /\ chunks[h][p] = 0
        /\ \/ held.samples[h][p] = 0
           \/ p = Current /\ h \in Ids /\ table[h].key \in busy.report.keys \ busy.todo
    BY DEF StoreInv, Unarrived
  <2>2. CASE h = id
    BY <1>1, <2>1, <2>2
  <2>3. CASE h # id
    BY <1>1, <2>1, <2>3
  <2> QED BY <2>2, <2>3
<1>6. BeforeSound'
  BY <1>1, <1>3 DEF StoreInv, BeforeSound
<1>7. StoredOnce'
  <2> SUFFICES ASSUME NEW h \in Homes, NEW p \in PollNo PROVE chunks[h][p] + held'.samples[h][p] <= 1
    BY <1>1 DEF StoredOnce, Copies
  <2>1. chunks[h][p] + held.samples[h][p] <= 1
    BY DEF StoreInv, StoredOnce, Copies
  <2> QED BY <1>1, <2>1
<1>8. UnusedIds'
  <2> SUFFICES ASSUME NEW j \in Ids, NEW p \in PollNo, j >= nextId'
               PROVE  chunks[j][p] + held'.samples[j][p] = 0
    BY <1>1 DEF UnusedIds, Copies
  <2>1. j # id /\ j >= nextId
    BY DEF StoreInv, TableSound, Ids
  <2>2. chunks[j][p] + held.samples[j][p] = 0
    BY <2>1 DEF StoreInv, UnusedIds, Copies
  <2> QED BY <1>1, <2>1, <2>2, HomesAreApart
<1>9. HistoryIsOwn'
  <2> SUFFICES ASSUME NEW j \in Ids, NEW p \in PollNo, table'[j].key # NoKey,
                      chunks[j][p] + held'.samples[j][p] > 0
               PROVE  Fits(table'[j].key, ReportOf(p).keys)
    BY <1>1, <1>3 DEF HistoryIsOwn, Fits, Copies
  <2>1. CASE j = id /\ p = Current
    BY <1>1, <2>1 DEF Fits, ReportOf
  <2>2. CASE j = id /\ p # Current
    BY <1>1, <2>2, HomesAreApart DEF Copies
  <2>3. CASE j # id
    <3>1. chunks[j][p] + held.samples[j][p] > 0 /\ table[j].key # NoKey
      BY <1>1, <2>3, HomesAreApart
    <3> QED BY <3>1, <2>3, OwnIsFitting DEF StoreInv, Copies
  <2> QED BY <2>1, <2>2, <2>3
<1> QED BY <1>1, <1>4, <1>5, <1>6, <1>7, <1>8, <1>9 DEF StoreInv

\* Under a series' own id: what is there is its own, and this poll's is not yet.
LEMMA OwnId ==
  ASSUME StoreInv, NEW k \in Keys, NEW id \in Ids, Interning(k), table[id].key = k
  PROVE  /\ table[id].key \notin busy.report.keys \ busy.todo
         /\ id < nextId
         /\ \A p \in PollNo : Copies(id, p) > 0 => Fits(k, ReportOf(p).keys)
<1>1. k # NoKey /\ k \in busy.todo
  BY NoKeyIsNone DEF Interning
<1>2. id < nextId
  BY <1>1 DEF StoreInv, TableSound, Ids
<1> QED BY <1>1, <1>2, OwnIsFitting DEF StoreInv

LEMMA CachedInv ==
  ASSUME StoreInv, NEW k \in Keys, Cached(k)
  PROVE  StoreInv'
<1> DEFINE id == cache[k]
<1>1. id \in Ids /\ table[id].key = k
  BY DEF Cached, StoreInv, CacheSound
<1>2. Interning(k) /\ Hold(k, id) /\ UNCHANGED <<table, nextId, cache>>
  BY DEF Cached
<1>3. TableSound(table, nextId)' /\ CacheSound'
  BY <1>2, TableKept
<1> HIDE DEF id
<1>4. nextId <= nextId'
  BY <1>2 DEF StoreInv, TableSound
<1> QED BY <1>1, <1>2, <1>3, <1>4, OwnId, HoldInv

LEMMA ExistingInv ==
  ASSUME StoreInv, NEW k \in Keys, Existing(k)
  PROVE  StoreInv'
<1>1. PICK id \in Rows(k) : cache' = [cache EXCEPT ![k] = id] /\ Hold(k, id)
  BY DEF Existing
<1>2. id \in Ids /\ table[id].key = k /\ Interning(k) /\ UNCHANGED <<table, nextId>>
  BY DEF Rows, Existing
<1>3. TableSound(table, nextId)' /\ CacheSound'
  BY <1>1, <1>2 DEF StoreInv, TableSound, CacheSound
<1>4. nextId <= nextId'
  BY <1>2 DEF StoreInv, TableSound
<1> QED BY <1>1, <1>2, <1>3, <1>4, OwnId, HoldInv

LEMMA RelabelInv ==
  ASSUME StoreInv, NEW k \in Keys, Relabel(k)
  PROVE  StoreInv'
<1>1. Interning(k) /\ Rows(k) = {} /\ k.group # NoGroup /\ nextId' = nextId
  BY DEF Relabel
<1>2. PICK id \in Ids : /\ Candidates(k) = {id}
                       /\ table' = [table EXCEPT ![id].key = k]
                       /\ cache' = [Uncache(id) EXCEPT ![k] = id]
                       /\ Hold(k, id)
  BY DEF Relabel
<1>3. /\ table[id].key.instance = k.instance /\ table[id].key.group = k.group
      /\ table[id].key \notin busy.report.keys
  BY <1>2 DEF Candidates
<1>4. table[id].key # NoKey
  BY <1>3, StatsDbAssumption DEF NoKey
<1>5. table[id] \in RowType /\ [table[id] EXCEPT !.key = k] \in RowType
      /\ [table[id] EXCEPT !.key = k].key = k
  BY DEF StoreInv, TableSound, RowType
<1>6. table' = [table EXCEPT ![id] = [table[id] EXCEPT !.key = k]]
  BY <1>2
<1>7. /\ table' \in [Ids -> RowType] /\ table'[id].key = k
      /\ \A j \in Ids \ {id} : table'[j].key = table[j].key
  BY <1>5, <1>6 DEF StoreInv, TableSound
<1>8. \A j \in Ids : table[j].key # k
  BY <1>1 DEF Rows
<1>9. id < nextId /\ nextId <= nextId'
  BY <1>1, <1>4 DEF StoreInv, TableSound, Ids
<1>10. TableSound(table, nextId)'
  BY <1>1, <1>7, <1>8, <1>9 DEF StoreInv, TableSound, Ids
<1>11. CacheSound'
  <2>1. Uncache(id) \in [Keys -> Ids \cup {NoId}]
        /\ \A c \in Keys : Uncache(id)[c] # NoId => Uncache(id)[c] = cache[c] /\ cache[c] # id
    BY DEF StoreInv, CacheSound, Uncache
  <2>2. cache' \in [Keys -> Ids \cup {NoId}]
    BY <1>2, <2>1
  <2>3. ASSUME NEW c \in Keys, cache'[c] # NoId
        PROVE  table'[cache'[c]].key = c
    <3>1. CASE c = k
      BY <1>2, <1>7, <2>1, <3>1
    <3>2. CASE c # k
      <4>1. cache'[c] = cache[c] /\ cache[c] # id /\ cache[c] # NoId
        BY <1>2, <2>1, <2>3, <3>2
      <4>2. cache[c] \in Ids /\ table[cache[c]].key = c
        BY <4>1 DEF StoreInv, CacheSound
      <4> QED BY <1>7, <4>1, <4>2
    <3> QED BY <3>1, <3>2
  <2> QED BY <2>2, <2>3 DEF CacheSound
<1>12. ASSUME NEW p \in PollNo, Copies(id, p) > 0
       PROVE  Fits(k, ReportOf(p).keys)
  <2>1. Fits(table[id].key, ReportOf(p).keys)
    BY <1>4, <1>12, OwnIsFitting DEF StoreInv
  <2> QED BY <1>1, <1>3, <2>1 DEF Fits
<1> QED BY <1>1, <1>2, <1>3, <1>7, <1>9, <1>10, <1>11, <1>12, HoldInv

LEMMA InsertInv ==
  ASSUME StoreInv, NEW k \in Keys, Insert(k)
  PROVE  StoreInv'
<1>1. /\ Interning(k) /\ Rows(k) = {} /\ nextId \in Ids
      /\ table' = [table EXCEPT ![nextId] = [key |-> k, lastSeen |-> busy.report.ts]]
      /\ nextId' = nextId + 1
      /\ cache' = [cache EXCEPT ![k] = nextId]
      /\ Hold(k, nextId)
  BY DEF Insert
<1>2. busy.report.ts \in Times
  BY <1>1, InsertFacts DEF Interning, Inserting, InsertSound, Reports
<1>3. /\ table' \in [Ids -> RowType] /\ table'[nextId].key = k
      /\ \A j \in Ids \ {nextId} : table'[j].key = table[j].key
  BY <1>1, <1>2 DEF StoreInv, TableSound, RowType
<1>4. \A j \in Ids : table[j].key # k
  BY <1>1 DEF Rows
<1>5. nextId \in 1..MaxIds /\ MaxIds \in Nat /\ table[nextId].key = NoKey
  BY <1>1, StatsDbAssumption DEF StoreInv, TableSound, Ids
<1>6. TableSound(table, nextId)'
  BY <1>1, <1>3, <1>4, <1>5 DEF StoreInv, TableSound, Ids
<1>7. CacheSound'
  <2>1. cache' \in [Keys -> Ids \cup {NoId}]
    BY <1>1 DEF StoreInv, CacheSound
  <2>2. ASSUME NEW c \in Keys, cache'[c] # NoId
        PROVE  table'[cache'[c]].key = c
    <3>1. CASE c = k
      BY <1>1, <1>3, <3>1 DEF StoreInv, CacheSound
    <3>2. CASE c # k
      <4>1. cache'[c] = cache[c] /\ cache[c] \in Ids /\ table[cache[c]].key = c
        BY <1>1, <2>2, <3>2 DEF StoreInv, CacheSound
      <4>2. cache[c] # nextId
        BY <4>1, <1>5, NoKeyIsNone
      <4> QED BY <1>3, <4>1, <4>2
    <3> QED BY <3>1, <3>2
  <2> QED BY <2>1, <2>2 DEF CacheSound
<1>8. \A p \in PollNo : Copies(nextId, p) = 0
  BY <1>5 DEF StoreInv, UnusedIds, Ids
<1>9. table[nextId].key \notin busy.report.keys \ busy.todo
  BY <1>1, <1>5, InsertFacts, NoKeyIsNone DEF Interning, Inserting
<1>10. nextId <= nextId' /\ nextId < nextId'
  BY <1>1, <1>5
<1>11. \A p \in PollNo : Copies(nextId, p) > 0 => Fits(k, ReportOf(p).keys)
  BY <1>8
<1>12. TableSound(table, nextId)' /\ CacheSound'
  BY <1>6, <1>7
<1> QED BY <1>1, <1>3, <1>9, <1>10, <1>11, <1>12, HoldInv

(***************************************************************************)
(* A poll arrives, whole or as a failure; the panel dies.                  *)
(***************************************************************************)
LEMMA ArrivedInv ==
  ASSUME StoreInv, Inserting, NEW r \in Reports, polls' = Append(polls, r), busy' = Idle,
         UNCHANGED <<table, nextId, cache, chunks>>, HeldShape(held)',
         \A h \in Homes, p \in PollNo :
           \/ held'.samples[h][p] = held.samples[h][p]
           \/ h = Hardware /\ p = Current /\ held'.samples[h][p] = 1,
         \A h \in Homes : held.samples[h][Current] > 0 => r = busy.report
  PROVE  StoreInv'
<1>1. InsertSound /\ Len(polls) \in Nat /\ Current \in PollNo /\ Current = Len(polls) + 1
  BY InsertFacts
<1>2. polls \in Seq(Reports) /\ polls' \in Seq(Reports) /\ Len(polls') = Len(polls) + 1
  BY DEF StoreInv
<1>3. \A p \in PollNo : /\ p <= Len(polls) => polls'[p] = polls[p]
                        /\ p = Current => polls'[p] = r
  BY <1>1, <1>2 DEF PollNo
<1>4. ~Inserting' /\ BusyShape'
  BY DEF Inserting, Idle, BusyShape
<1>5. TableSound(table, nextId)' /\ CacheSound'
  BY TableKept DEF StoreInv
<1>6. chunks[Hardware][Current] = 0 /\ held.samples[Hardware][Current] = 0
  BY <1>1, HomesAreApart DEF StoreInv, Unarrived
<1>7. \A h \in Homes, p \in PollNo :
        chunks[h][p] \in Nat /\ held.samples[h][p] \in Nat /\ held'.samples[h][p] \in Nat
  BY SampleTypes DEF HeldShape, Samples
<1>8. \A h \in Homes, p \in PollNo :
        p > Len(polls) + 1 => chunks[h][p] = 0 /\ held'.samples[h][p] = 0
  <2> SUFFICES ASSUME NEW h \in Homes, NEW p \in PollNo, p > Len(polls) + 1
               PROVE  chunks[h][p] = 0 /\ held'.samples[h][p] = 0
    OBVIOUS
  <2>1. p > Len(polls) /\ p # Current
    BY <1>1 DEF PollNo
  <2>2. chunks[h][p] = 0 /\ held.samples[h][p] = 0
    BY <2>1 DEF StoreInv, Unarrived
  <2> QED BY <2>1, <2>2
<1>9. Unarrived'
  BY <1>2, <1>8 DEF Unarrived
<1>10. StoredOnce'
  <2> SUFFICES ASSUME NEW h \in Homes, NEW p \in PollNo PROVE chunks[h][p] + held'.samples[h][p] <= 1
    BY DEF StoredOnce, Copies
  <2>1. chunks[h][p] + held.samples[h][p] <= 1
    BY DEF StoreInv, StoredOnce, Copies
  <2> QED BY <2>1, <1>6
<1>11. \A id \in Ids, p \in PollNo : held'.samples[id][p] = held.samples[id][p]
  BY HomesAreApart
<1>12. UnusedIds'
  BY <1>11 DEF StoreInv, UnusedIds, Copies
<1>13. HistoryIsOwn'
  <2> SUFFICES ASSUME NEW id \in Ids, NEW p \in PollNo, table[id].key # NoKey,
                      chunks[id][p] + held'.samples[id][p] > 0
               PROVE  Fits(table[id].key, ReportOf(p)'.keys)
    BY DEF HistoryIsOwn, Fits, Copies
  <2>1. Copies(id, p) > 0 /\ Fits(table[id].key, ReportOf(p).keys)
    BY <1>11, OwnIsFitting DEF StoreInv, Copies
  <2>2. p \in Nat
    BY DEF PollNo
  <2>3. p <= Len(polls) + 1
    <3>1. id \in Homes
      BY HomesAreApart
    <3>2. ~(chunks[id][p] = 0 /\ held'.samples[id][p] = 0)
      OBVIOUS
    <3> QED BY <1>1, <1>8, <2>2, <3>1, <3>2
  <2>4. ReportOf(p)' = polls'[p]
    <3>1. p # Len(polls') + 1
      BY <1>1, <1>2, <2>2, <2>3
    <3> QED BY <3>1 DEF ReportOf, Current
  <2>5. CASE p <= Len(polls)
    <3>1. p # Current
      BY <1>1, <2>2, <2>5
    <3>2. ReportOf(p) = polls[p] /\ polls'[p] = polls[p]
      BY <1>3, <2>5, <3>1 DEF ReportOf
    <3> QED BY <2>1, <2>4, <3>2
  <2>6. CASE p = Current
    <3>1. chunks[id][p] = 0 /\ held.samples[id][p] > 0
      BY <1>1, <1>7, <2>1, <2>6, HomesAreApart DEF StoreInv, Unarrived, Copies
    <3>2. r = busy.report
      BY <3>1, <2>6, HomesAreApart
    <3> QED BY <1>3, <2>1, <2>4, <2>6, <3>2 DEF ReportOf
  <2> QED BY <1>1, <2>2, <2>3, <2>5, <2>6
<1> QED BY <1>2, <1>4, <1>5, <1>9, <1>10, <1>12, <1>13 DEF StoreInv, BeforeSound

LEMMA CommitInv ==
  ASSUME StoreInv, Commit
  PROVE  StoreInv'
<1>1. /\ Inserting /\ held' = Counted(held, busy.report, Current)
      /\ polls' = Append(polls, busy.report) /\ busy' = Idle
      /\ UNCHANGED <<table, nextId, cache, chunks>>
  BY DEF Commit, Inserting
<1>2. InsertSound /\ Current \in PollNo /\ busy.report \in Reports
  BY <1>1, InsertFacts DEF InsertSound
<1>3. Hardware \in Homes /\ HeldShape(held)
  BY HomesAreApart DEF StoreInv
<1> DEFINE H == IF busy.report.instance = NoGroup
                  THEN [held EXCEPT !.samples[Hardware][Current] = 1, !.rows = @ + 1]
                  ELSE [held EXCEPT !.rows = @ + Cardinality(busy.report.keys),
                                    !.polls[busy.report.instance] = Current]
<1>4. held' = [H EXCEPT !.bucket = IF @ = NoBucket \/ BucketOf(busy.report.ts) < @
                                    THEN BucketOf(busy.report.ts) ELSE @]
  BY <1>1 DEF Counted, NoteBucket
<1>5. CASE busy.report.instance = NoGroup
  <2>1. H = [held EXCEPT !.samples[Hardware][Current] = 1, !.rows = @ + 1]
    BY <1>5
  <2>2. HeldShape(H) /\ H.samples = [held.samples EXCEPT ![Hardware][Current] = 1]
    BY <1>2, <1>3, <2>1 DEF HeldShape, Samples
  <2> HIDE DEF H
  <2>3. HeldShape(held)' /\ held'.samples = H.samples
    BY <1>4, <2>2 DEF HeldShape
  <2>4. \A h \in Homes, p \in PollNo :
          \/ held'.samples[h][p] = held.samples[h][p]
          \/ h = Hardware /\ p = Current /\ held'.samples[h][p] = 1
    BY <1>2, <1>3, <2>2, <2>3 DEF HeldShape, Samples
  <2> QED BY <1>1, <1>2, <2>3, <2>4, ArrivedInv
<1>6. CASE busy.report.instance # NoGroup
  <2>1. H = [held EXCEPT !.rows = @ + Cardinality(busy.report.keys),
                         !.polls[busy.report.instance] = Current]
    BY <1>6
  <2>2. HeldShape(H) /\ H.samples = held.samples
    BY <1>3, <2>1 DEF HeldShape
  <2> HIDE DEF H
  <2>3. HeldShape(held)' /\ held'.samples = held.samples
    BY <1>4, <2>2 DEF HeldShape
  <2> QED BY <1>1, <1>2, <2>3, ArrivedInv
<1> QED BY <1>5, <1>6

\* The insert that fails had looked up nothing: nothing is left to roll back.
LEMMA InsertFailsInv ==
  ASSUME WholeInserts, StoreInv, InsertFails
  PROVE  StoreInv'
<1> DEFINE r == [busy.report EXCEPT !.keys = {}]
<1>1. /\ Inserting /\ busy.todo = busy.report.keys
      /\ table' = busy.before.table /\ nextId' = busy.before.nextId
      /\ polls' = Append(polls, r) /\ busy' = Idle
      /\ UNCHANGED <<cache, chunks, held>>
  BY DEF InsertFails, Inserting, WholeInserts
<1>2. InsertSound /\ Current \in PollNo /\ Current > Len(polls) /\ busy.report \in Reports
  BY <1>1, InsertFacts DEF InsertSound
<1>3. UNCHANGED <<table, nextId>>
  BY <1>1, <1>2 DEF InsertSound
<1>4. r \in Reports
  BY <1>2 DEF Reports
<1>5. \A h \in Homes : held.samples[h][Current] = 0
  BY <1>1, <1>2 DEF StoreInv, Unarrived
<1>6. HeldShape(held)'
  BY <1>1 DEF StoreInv, HeldShape
<1> HIDE DEF r
<1> QED BY <1>1, <1>3, <1>4, <1>5, <1>6, ArrivedInv

LEMMA CrashInv ==
  ASSUME StoreInv, Crash
  PROVE  StoreInv'
<1>1. /\ held' = Emptied(NoSeen) /\ cache' = [k \in Keys |-> NoId] /\ busy' = Idle
      /\ UNCHANGED <<polls, chunks>>
      /\ Inserting => table' = busy.before.table /\ nextId' = busy.before.nextId
      /\ ~Inserting => table' = table /\ nextId' = nextId
  BY DEF Crash, Inserting
<1>2. HeldShape(held)' /\ \A h \in Homes, p \in PollNo : held'.samples[h][p] = 0
  <2>1. NoSeen \in [Ids -> Times \cup {0}]
    BY DEF NoSeen
  <2>2. HeldShape(Emptied(NoSeen)) /\ \A h \in Homes, p \in PollNo : Emptied(NoSeen).samples[h][p] = 0
    BY <2>1, EmptiedShape
  <2> QED BY <1>1, <2>2 DEF HeldShape
<1>3. TableSound(table, nextId)'
  BY <1>1, InsertFacts DEF StoreInv, InsertSound, TableSound
<1>4. ~Inserting' /\ BusyShape' /\ CacheSound'
  BY <1>1 DEF Inserting, Idle, BusyShape, CacheSound
<1>5. Unarrived'
  BY <1>1, <1>2 DEF StoreInv, Unarrived
<1>6. StoredOnce'
  <2> SUFFICES ASSUME NEW h \in Homes, NEW p \in PollNo PROVE chunks[h][p] + 0 <= 1
    BY <1>1, <1>2 DEF StoredOnce, Copies
  <2>1. chunks[h][p] + held.samples[h][p] <= 1 /\ chunks[h][p] \in Nat /\ held.samples[h][p] \in Nat
    BY SampleTypes DEF StoreInv, StoredOnce, Copies
  <2> QED BY <2>1
<1>7. ASSUME NEW id \in Ids, NEW p \in PollNo, chunks[id][p] + held'.samples[id][p] > 0
      PROVE  /\ p \in Nat /\ p <= Len(polls) /\ id < nextId'
             /\ table'[id].key # NoKey => Fits(table'[id].key, polls[p].keys)
  <2>1. /\ id \in Homes /\ p \in Nat /\ Len(polls) \in Nat
        /\ chunks[id][p] > 0 /\ chunks[id][p] \in Nat /\ held.samples[id][p] \in Nat
    BY <1>2, <1>7, HomesAreApart, SampleTypes DEF StoreInv, PollNo
  <2>2. p <= Len(polls)
    BY <2>1 DEF StoreInv, Unarrived
  <2>3. CASE Inserting
    BY <1>1, <2>1, <2>2, <2>3 DEF StoreInv, BeforeSound
  <2>4. CASE ~Inserting
    <3>1. Copies(id, p) > 0
      BY <2>1 DEF Copies
    <3>2. ReportOf(p) = polls[p]
      BY <2>1, <2>2 DEF ReportOf, Current
    <3>3. id < nextId
      BY <3>1 DEF StoreInv, UnusedIds, TableSound, Ids
    <3> QED BY <1>1, <2>1, <2>2, <2>4, <3>1, <3>2, <3>3, OwnIsFitting DEF StoreInv
  <2> QED BY <2>3, <2>4
<1>8. UnusedIds'
  <2> SUFFICES ASSUME NEW id \in Ids, NEW p \in PollNo, id >= nextId'
               PROVE  chunks[id][p] + held'.samples[id][p] = 0
    BY <1>1 DEF UnusedIds, Copies
  <2>1. chunks[id][p] \in Nat /\ held'.samples[id][p] = 0
    BY <1>2, HomesAreApart, SampleTypes
  <2>2. id \in Nat /\ nextId' \in Nat
    BY <1>3 DEF TableSound, Ids
  <2> QED BY <1>7, <2>1, <2>2
<1>9. HistoryIsOwn'
  <2> SUFFICES ASSUME NEW id \in Ids, NEW p \in PollNo, table'[id].key # NoKey,
                      chunks[id][p] + held'.samples[id][p] > 0
               PROVE  Fits(table'[id].key, ReportOf(p)'.keys)
    BY <1>1 DEF HistoryIsOwn, Fits, Copies
  <2>1. p \in Nat /\ p <= Len(polls) /\ Fits(table'[id].key, polls[p].keys)
    BY <1>7
  <2>2. ReportOf(p)' = polls[p]
    BY <1>1, <2>1 DEF ReportOf, Current, StoreInv
  <2> QED BY <2>1, <2>2
<1> QED BY <1>1, <1>2, <1>3, <1>4, <1>5, <1>6, <1>8, <1>9 DEF StoreInv, BeforeSound

LEMMA NextInv ==
  ASSUME WholeInserts, StoreInv, Next
  PROVE  StoreInv'
<1>1. ASSUME NEW ts \in Times, NEW i \in Instances, NEW ks \in Reported, InsertBatch(i, ts, ks)
      PROVE  StoreInv'
  <2>1. ks \in SUBSET Keys /\ (\A k \in ks : k.instance = i) /\ Begin(i, ts, ks)
    BY <1>1, StatsDbAssumption DEF InsertBatch
  <2> QED BY <2>1, BeginInv
<1>2. ASSUME NEW ts \in Times, InsertHardware(ts)
      PROVE  StoreInv'
  BY <1>2, BeginInv DEF InsertHardware
<1>3. ASSUME NEW c \in Cutoffs, Prune(c)
      PROVE  StoreInv'
  BY <1>3, BeginFlushInv DEF Prune
<1>4. CASE Flush
  BY <1>4, BeginFlushInv DEF Flush
<1>5. ASSUME NEW k \in Keys, Intern(k)
      PROVE  StoreInv'
  BY <1>5, CachedInv, ExistingInv, RelabelInv, InsertInv DEF Intern
<1> QED BY <1>1, <1>2, <1>3, <1>4, <1>5, FlushIfDueInv, CommitInv, InsertFailsInv, WriteSeenInv,
           DeleteOldInv, CrashInv DEF Next

LEMMA StutterInv ==
  ASSUME StoreInv, UNCHANGED vars
  PROVE  StoreInv'
BY DEF vars, StoreInv, TableSound, CacheSound, HeldShape, BusyShape, InsertSound, Unarrived,
       BeforeSound, UnusedIds, StoredOnce, HistoryIsOwn, Inserting, Copies, ReportOf, Current

\* The invariant of the database holds in every state, if inserts fail whole.
THEOREM StoreIsSound ==
  ASSUME WholeInserts
  PROVE  Spec => []StoreInv
<1>1. Init => StoreInv
  BY InitInv
<1>2. StoreInv /\ [Next]_vars => StoreInv'
  BY NextInv, StutterInv
<1> QED BY <1>1, <1>2, PTL DEF Spec

\* Through flushes that fail, come early or never come, pruning and crashes, a
\* sample is held once or written once (flush_held, stats_db.rs).
THEOREM SamplesStoredOnce ==
  ASSUME WholeInserts
  PROVE  Spec => []StoredOnce
<1>1. StoreInv => StoredOnce
  BY DEF StoreInv
<1> QED BY <1>1, StoreIsSound, PTL

\* A series' history never holds a sample of another frequency or instance,
\* whatever is relabelled, pruned, cached or rolled back (series_id).
THEOREM HistoriesAreOwn ==
  ASSUME WholeInserts
  PROVE  Spec => []HistoryIsOwn
<1>1. StoreInv => HistoryIsOwn
  BY DEF StoreInv
<1> QED BY <1>1, StoreIsSound, PTL

-----------------------------------------------------------------------------
(***************************************************************************)
(* The newest poll.                                                        *)
(***************************************************************************)
\* Every poll held in memory has its instance's newest poll in memory with it, which is
\* not on disk; and the newest poll on disk is as new as every sample there, unless
\* pruning has taken it.
NewestInv ==
  /\ Len(polls) <= MaxPolls
  /\ held.polls \in [Instances -> PollNo \cup {0}]
  /\ lastPoll \in [Instances -> PollNo \cup {0}]
  /\ \A id \in Ids, p \in DOMAIN polls :
       /\ Copies(id, p) > 0 => polls[p].keys # {}
       /\ held.samples[id][p] > 0 => held.polls[polls[p].instance] # 0
       /\ chunks[id][p] > 0 /\ lastPoll[polls[p].instance] # 0 => p <= lastPoll[polls[p].instance]
  /\ \A i \in Instances : held.polls[i] # 0 =>
       /\ \A id \in Ids : chunks[id][held.polls[i]] = 0
       /\ \A p \in DOMAIN polls : polls[p].instance = i /\ polls[p].keys # {} => p <= held.polls[i]

\* What is being inserted is a poll of an instance, with series, or a hardware reading.
WholeReport == Inserting => (busy.report.instance = NoGroup <=> busy.report.keys = {})

ArrivalInv == StoreInv /\ NewestInv /\ WholeReport

LEMMA ReportInstance ==
  ASSUME NEW r \in Reports, r.keys # {}
  PROVE  r.instance \in Instances /\ r.instance # NoGroup
<1>1. PICK k \in r.keys : k \in Keys /\ k.instance = r.instance
  BY DEF Reports
<1> QED BY <1>1, StatsDbAssumption DEF Instances

LEMMA PollFacts ==
  ASSUME StoreInv, NewestInv
  PROVE  /\ Len(polls) \in Nat /\ DOMAIN polls = 1..Len(polls) /\ DOMAIN polls \subseteq PollNo
         /\ Current \notin DOMAIN polls
         /\ \A p \in DOMAIN polls :
              polls[p] \in Reports /\ (polls[p].keys # {} => polls[p].instance \in Instances)
<1>1. polls \in Seq(Reports)
  BY DEF StoreInv
<1>2. DOMAIN polls \subseteq PollNo /\ Current \notin DOMAIN polls
  BY <1>1, StatsDbAssumption DEF NewestInv, PollNo, Current
<1> QED BY <1>1, <1>2, ReportInstance

\* A step that takes no poll in and leaves the newest ones alone.
LEMMA QuietNewest ==
  ASSUME StoreInv, NewestInv, UNCHANGED <<polls, chunks, lastPoll>>, held'.polls = held.polls,
         \A id \in Ids, p \in PollNo : p # Current => held'.samples[id][p] = held.samples[id][p]
  PROVE  NewestInv'
<1>1. \A p \in DOMAIN polls : p \in PollNo /\ p # Current
  BY PollFacts
<1> QED BY <1>1 DEF NewestInv, Copies

\* Memory is emptied, in a crash or because writing keeps failing.
LEMMA LostNewest ==
  ASSUME StoreInv, NewestInv, UNCHANGED <<polls, chunks, lastPoll>>, NEW seen,
         held' = Emptied(seen)
  PROVE  NewestInv'
<1>1. /\ held'.polls = [i \in Instances |-> 0]
      /\ \A id \in Ids, p \in PollNo : held'.samples[id][p] = 0
  BY HomesAreApart DEF Emptied, NoSamples
<1>2. \A id \in Ids, p \in DOMAIN polls :
        held'.samples[id][p] = 0 /\ (Copies(id, p)' > 0 => Copies(id, p) > 0)
  <2> SUFFICES ASSUME NEW id \in Ids, NEW p \in DOMAIN polls
               PROVE  held'.samples[id][p] = 0 /\ (Copies(id, p)' > 0 => Copies(id, p) > 0)
    OBVIOUS
  <2>1. /\ p \in PollNo /\ id \in Homes
        /\ chunks[id][p] \in Nat /\ held.samples[id][p] \in Nat
    BY PollFacts, SampleTypes, HomesAreApart
  <2> QED BY <1>1, <2>1 DEF Copies
<1> QED BY <1>1, <1>2 DEF NewestInv

LEMMA FlushNewest ==
  ASSUME StoreInv, NewestInv, UNCHANGED polls, FlushDone \/ FlushFails
  PROVE  NewestInv'
<1>1. CASE UNCHANGED <<chunks, lastPoll, held>>
  BY <1>1, QuietNewest
<1>2. CASE FlushFails
  BY <1>1, <1>2, LostNewest DEF FlushFails, HeldAfterFailure
<1>3. CASE FlushDone /\ held.rows # 0
  <2>1. /\ chunks' = Written(chunks) /\ lastPoll' = [i \in Instances |-> NewestPoll(i)]
        /\ held'.polls = [i \in Instances |-> 0]
        /\ \A id \in Ids, p \in PollNo : held'.samples[id][p] = 0
    BY <1>3, HomesAreApart DEF FlushDone, Emptied, NoSamples
  <2>2. ASSUME NEW id \in Ids, NEW p \in DOMAIN polls
        PROVE  /\ chunks'[id][p] = Copies(id, p) /\ held'.samples[id][p] = 0
               /\ Copies(id, p)' = Copies(id, p)
               /\ chunks[id][p] \in Nat /\ held.samples[id][p] \in Nat
    BY <2>1, PollFacts, SampleTypes, HomesAreApart DEF Written, Copies
  <2>3. lastPoll' \in [Instances -> PollNo \cup {0}]
    BY <2>1 DEF NewestInv, NewestPoll
  <2>4. ASSUME NEW id \in Ids, NEW p \in DOMAIN polls, Copies(id, p) > 0,
               lastPoll'[polls[p].instance] # 0
        PROVE  p <= lastPoll'[polls[p].instance]
    <3>1. polls[p].keys # {} /\ polls[p].instance \in Instances
      BY <2>4, PollFacts DEF NewestInv
    <3>2. CASE held.polls[polls[p].instance] # 0
      BY <2>1, <3>1, <3>2 DEF NewestInv, NewestPoll
    <3>3. CASE held.polls[polls[p].instance] = 0
      <4>1. held.samples[id][p] = 0 /\ chunks[id][p] > 0
        BY <2>2, <2>4, <3>3 DEF NewestInv, Copies
      <4> QED BY <2>1, <2>4, <3>1, <3>3, <4>1 DEF NewestInv, NewestPoll
    <3> QED BY <3>2, <3>3
  <2> QED BY <2>1, <2>2, <2>3, <2>4 DEF NewestInv
<1> QED BY <1>1, <1>2, <1>3 DEF FlushDone

\* A poll arrives, whole or as a failure.
LEMMA ArrivedNewest ==
  ASSUME StoreInv, NewestInv, Inserting, NEW r \in Reports, polls' = Append(polls, r),
         UNCHANGED <<chunks, lastPoll>>,
         \A id \in Ids, p \in PollNo : held'.samples[id][p] = held.samples[id][p],
         \A id \in Ids : held.samples[id][Current] > 0 => r.keys # {},
         held'.polls = IF r.keys = {} THEN held.polls
                       ELSE [held.polls EXCEPT ![r.instance] = Current]
  PROVE  NewestInv'
<1>1. /\ Len(polls) \in Nat /\ Current \in PollNo /\ Current = Len(polls) + 1
      /\ polls \in Seq(Reports) /\ MaxPolls \in Nat
  BY InsertFacts, StatsDbAssumption DEF StoreInv
<1>2. /\ DOMAIN polls' = DOMAIN polls \cup {Current} /\ Len(polls') <= MaxPolls
      /\ polls'[Current] = r /\ \A p \in DOMAIN polls : polls'[p] = polls[p] /\ p # Current
      /\ \A p \in DOMAIN polls' : p \in PollNo /\ p <= Current
  BY <1>1 DEF PollNo
<1>3. \A id \in Ids : chunks[id][Current] = 0
  BY <1>1, HomesAreApart DEF StoreInv, Unarrived
<1>4. r.keys # {} => r.instance \in Instances
  BY ReportInstance
<1>5. held'.polls \in [Instances -> PollNo \cup {0}]
  <2>1. held.polls \in [Instances -> PollNo \cup {0}]
    BY DEF NewestInv
  <2>2. CASE r.keys = {}
    BY <2>1, <2>2
  <2>3. CASE r.keys # {}
    <3>1. held'.polls = [held.polls EXCEPT ![r.instance] = Current]
      BY <2>3
    <3> QED BY <1>1, <2>1, <3>1
  <2> QED BY <2>2, <2>3
<1>6. ASSUME NEW id \in Ids, NEW p \in DOMAIN polls'
      PROVE  /\ Copies(id, p)' > 0 => polls'[p].keys # {}
             /\ held'.samples[id][p] > 0 => held'.polls[polls'[p].instance] # 0
             /\ chunks'[id][p] > 0 /\ lastPoll'[polls'[p].instance] # 0
                  => p <= lastPoll'[polls'[p].instance]
  <2>1. CASE p = Current
    <3>1. Copies(id, p)' = held.samples[id][p] /\ chunks'[id][p] = 0
      BY <1>1, <1>3, <2>1, SampleTypes, HomesAreApart DEF Copies
    <3> QED BY <1>1, <1>2, <1>4, <2>1, <3>1 DEF NewestInv
  <2>2. CASE p # Current
    <3>1. p \in DOMAIN polls /\ polls'[p] = polls[p] /\ p \in PollNo /\ Copies(id, p)' = Copies(id, p)
      BY <1>2, <2>2 DEF Copies
    <3>2. chunks[id][p] \in Nat /\ held.samples[id][p] \in Nat
      BY <3>1, SampleTypes, HomesAreApart
    <3>3. held.samples[id][p] > 0 => Copies(id, p) > 0
      BY <3>2 DEF Copies
    <3>4. held.samples[id][p] > 0 => polls[p].instance \in Instances
      BY <3>1, <3>3, PollFacts DEF NewestInv
    <3> QED BY <1>1, <1>4, <3>1, <3>4 DEF NewestInv
  <2> QED BY <2>1, <2>2
<1>7. ASSUME NEW i \in Instances, held'.polls[i] # 0
      PROVE  /\ \A id \in Ids : chunks'[id][held'.polls[i]] = 0
             /\ \A p \in DOMAIN polls' :
                  polls'[p].instance = i /\ polls'[p].keys # {} => p <= held'.polls[i]
  <2>1. CASE r.keys # {} /\ r.instance = i
    BY <1>2, <1>3, <2>1 DEF NewestInv
  <2>2. CASE ~(r.keys # {} /\ r.instance = i)
    BY <1>2, <1>7, <2>2 DEF NewestInv
  <2> QED BY <2>1, <2>2
<1> QED BY <1>2, <1>5, <1>6, <1>7 DEF NewestInv

LEMMA CommitNewest ==
  ASSUME StoreInv, NewestInv, Commit, busy.report.instance = NoGroup <=> busy.report.keys = {}
  PROVE  NewestInv'
<1>1. /\ Inserting /\ held' = Counted(held, busy.report, Current)
      /\ polls' = Append(polls, busy.report) /\ UNCHANGED <<chunks, lastPoll>>
  BY DEF Commit, Inserting
<1>2. InsertSound /\ Current \in PollNo /\ busy.report \in Reports /\ HeldShape(held)
  BY <1>1, InsertFacts DEF InsertSound, StoreInv
<1>3. /\ \A id \in Ids, p \in PollNo : held'.samples[id][p] = held.samples[id][p]
      /\ held'.polls = IF busy.report.keys = {} THEN held.polls
                       ELSE [held.polls EXCEPT ![busy.report.instance] = Current]
  <2>1. CASE busy.report.keys = {}
    BY <1>1, <1>2, <2>1, HomesAreApart DEF Counted, NoteBucket, HeldShape, Samples
  <2>2. CASE busy.report.keys # {}
    BY <1>1, <1>2, <2>2 DEF Counted, NoteBucket, HeldShape
  <2> QED BY <2>1, <2>2
<1>4. ASSUME NEW id \in Ids, held.samples[id][Current] > 0
      PROVE  busy.report.keys # {}
  <2>1. Current > Len(polls) /\ id \in Homes
    BY <1>1, InsertFacts, HomesAreApart
  <2> QED BY <1>2, <1>4, <2>1 DEF StoreInv, Unarrived
<1> QED BY <1>1, <1>2, <1>3, <1>4, ArrivedNewest

LEMMA InsertFailsNewest ==
  ASSUME WholeInserts, StoreInv, NewestInv, InsertFails
  PROVE  NewestInv'
<1> DEFINE r == [busy.report EXCEPT !.keys = {}]
<1>1. /\ Inserting /\ busy.todo = busy.report.keys
      /\ polls' = Append(polls, r) /\ UNCHANGED <<chunks, lastPoll, held>>
  BY DEF InsertFails, Inserting, WholeInserts
<1>2. InsertSound /\ Current \in PollNo /\ Current > Len(polls) /\ busy.report \in Reports
  BY <1>1, InsertFacts DEF InsertSound
<1>3. r \in Reports /\ r.keys = {}
  BY <1>2 DEF Reports
<1>4. \A id \in Ids : held.samples[id][Current] = 0
  BY <1>1, <1>2, HomesAreApart DEF StoreInv, Unarrived
<1> HIDE DEF r
<1>5. held' = held /\ \A id \in Ids : ~(held.samples[id][Current] > 0)
  BY <1>1, <1>4
<1> QED BY <1>1, <1>3, <1>5, ArrivedNewest

LEMMA DeleteOldNewest ==
  ASSUME StoreInv, NewestInv, DeleteOld
  PROVE  NewestInv'
<1>1. UNCHANGED <<polls, held>>
  BY DEF DeleteOld
<1>2. CASE UNCHANGED <<chunks, lastPoll>>
  BY <1>1, <1>2, QuietNewest
<1>3. CASE ~UNCHANGED <<chunks, lastPoll>>
  <2>1. /\ chunks' = [h \in Homes |-> [p \in PollNo |->
                        IF Expired(h, p, busy.cutoff) THEN 0 ELSE chunks[h][p]]]
        /\ lastPoll' = [i \in Instances |->
                          IF lastPoll[i] # 0 /\ polls[lastPoll[i]].ts < Boundary(busy.cutoff)
                            THEN 0 ELSE lastPoll[i]]
    BY <1>3 DEF DeleteOld
  <2>2. /\ lastPoll' \in [Instances -> PollNo \cup {0}]
        /\ \A i \in Instances : lastPoll'[i] # 0 => lastPoll'[i] = lastPoll[i]
    BY <2>1 DEF NewestInv
  <2>3. \A id \in Ids, p \in PollNo : chunks'[id][p] \in {0, chunks[id][p]}
    BY <2>1, HomesAreApart
  <2>4. ASSUME NEW id \in Ids, NEW p \in DOMAIN polls
        PROVE  /\ Copies(id, p)' > 0 => polls[p].keys # {}
               /\ held.samples[id][p] > 0 => held.polls[polls[p].instance] # 0
               /\ chunks'[id][p] > 0 /\ lastPoll'[polls[p].instance] # 0
                    => p <= lastPoll'[polls[p].instance]
    <3>1. /\ p \in PollNo /\ chunks'[id][p] \in {0, chunks[id][p]}
          /\ chunks[id][p] \in Nat /\ held.samples[id][p] \in Nat
      BY <2>3, PollFacts, SampleTypes, HomesAreApart
    <3>2. Copies(id, p)' > 0 => Copies(id, p) > 0
      BY <1>1, <3>1 DEF Copies
    <3>3. chunks'[id][p] > 0 => chunks[id][p] > 0 /\ polls[p].instance \in Instances
      BY <3>1, PollFacts DEF NewestInv, Copies
    <3> QED BY <2>2, <3>2, <3>3 DEF NewestInv
  <2>5. ASSUME NEW i \in Instances, held.polls[i] # 0, NEW id \in Ids
        PROVE  chunks'[id][held.polls[i]] = 0
    BY <2>3, <2>5 DEF NewestInv
  <2> QED BY <1>1, <2>2, <2>4, <2>5 DEF NewestInv
<1> QED BY <1>2, <1>3

LEMMA InternNewest ==
  ASSUME StoreInv, NewestInv, WholeReport, NEW k \in Keys, Intern(k)
  PROVE  NewestInv' /\ WholeReport'
<1>1. PICK id \in Ids : Interning(k) /\ Hold(k, id)
  BY DEF Intern, Cached, Existing, Relabel, Insert, Rows, StoreInv, CacheSound
<1>2. Inserting /\ HeldShape(held)
  BY <1>1 DEF Interning, Inserting, StoreInv
<1>3. InsertSound /\ Current \in PollNo
  BY <1>2, InsertFacts
<1>4. /\ held' = [held EXCEPT !.samples[id][Current] = @ + 1, !.seen[id] = busy.report.ts]
      /\ busy' = [busy EXCEPT !.todo = @ \ {k}] /\ UNCHANGED <<polls, chunks, lastPoll>>
  BY <1>1 DEF Hold
<1>5. /\ held'.polls = held.polls
      /\ held'.samples = [held.samples EXCEPT ![id][Current] = @ + 1]
  BY <1>2, <1>4 DEF HeldShape
<1>6. \A j \in Ids, p \in PollNo : p # Current => held'.samples[j][p] = held.samples[j][p]
  BY <1>2, <1>5, HomesAreApart DEF HeldShape, Samples
<1>7. WholeReport'
  <2>1. busy'.report = busy.report /\ busy'.op = busy.op
    BY <1>3, <1>4 DEF InsertSound
  <2> QED BY <2>1 DEF WholeReport, Inserting
<1> QED BY <1>4, <1>5, <1>6, <1>7, QuietNewest

LEMMA BeginNewest ==
  ASSUME StoreInv, NewestInv, NEW i \in Instances \cup {NoGroup}, NEW ts \in Times, NEW ks,
         i = NoGroup <=> ks = {}, Begin(i, ts, ks)
  PROVE  NewestInv' /\ WholeReport'
<1>1. UNCHANGED polls /\ busy'.report = [instance |-> i, ts |-> ts, keys |-> ks]
  BY DEF Begin
<1>2. NewestInv'
  <2>1. CASE FlushDone \/ FlushFails
    BY <1>1, <2>1, FlushNewest
  <2>2. CASE UNCHANGED <<chunks, lastPoll, held>>
    BY <1>1, <2>2, QuietNewest
  <2> QED BY <2>1, <2>2 DEF Begin
<1> QED BY <1>1, <1>2 DEF WholeReport

LEMMA WriteSeenNewest ==
  ASSUME StoreInv, NewestInv, WriteSeen
  PROVE  NewestInv'
<1>1. UNCHANGED <<polls, chunks, lastPoll>>
  BY DEF WriteSeen
<1>2. held'.polls = held.polls /\ held'.samples = held.samples
  BY DEF WriteSeen, StoreInv, HeldShape
<1> QED BY <1>1, <1>2, QuietNewest

LEMMA NextNewest ==
  ASSUME WholeInserts, ArrivalInv, Next
  PROVE  NewestInv' /\ WholeReport'
<1> USE DEF ArrivalInv
<1>1. ASSUME NEW ts \in Times, NEW i \in Instances, NEW ks \in Reported, InsertBatch(i, ts, ks)
      PROVE  NewestInv' /\ WholeReport'
  <2>1. i # NoGroup /\ ks # {}
    BY StatsDbAssumption DEF Instances
  <2> QED BY <1>1, <2>1, BeginNewest DEF InsertBatch
<1>2. ASSUME NEW ts \in Times, InsertHardware(ts)
      PROVE  NewestInv' /\ WholeReport'
  BY <1>2, BeginNewest DEF InsertHardware
<1>3. ASSUME NEW ts \in Times, FlushIfDue(ts)
      PROVE  NewestInv' /\ WholeReport'
  BY <1>3, FlushNewest DEF FlushIfDue, WholeReport, Inserting, Idle
<1>4. ASSUME NEW op \in {"flush", "prune"}, NEW c, BeginFlush(op, c)
      PROVE  NewestInv' /\ WholeReport'
  BY <1>4, FlushNewest DEF BeginFlush, WholeReport, Inserting, Idle
<1>5. ASSUME NEW k \in Keys, Intern(k)
      PROVE  NewestInv' /\ WholeReport'
  BY <1>5, InternNewest
<1>6. CASE Commit
  BY <1>6, CommitNewest DEF Commit, WholeReport, Inserting, Idle
<1>7. CASE InsertFails
  BY <1>7, InsertFailsNewest DEF InsertFails, WholeReport, Inserting, Idle
<1>8. CASE WriteSeen
  <2>1. ~Inserting'
    BY <1>8 DEF WriteSeen, StoreInv, BusyShape, InsertSound, Inserting, Idle
  <2> QED BY <1>8, <2>1, WriteSeenNewest DEF WholeReport
<1>9. CASE DeleteOld
  BY <1>9, DeleteOldNewest DEF DeleteOld, WholeReport, Inserting, Idle
<1>10. CASE Crash
  BY <1>10, LostNewest DEF Crash, WholeReport, Inserting, Idle
<1>11. \A c \in Cutoffs : Prune(c) => \E op \in {"flush", "prune"} : BeginFlush(op, c)
  BY DEF Prune
<1>12. Flush => \E op \in {"flush", "prune"} : BeginFlush(op, 0)
  BY DEF Flush
<1> QED BY <1>1, <1>2, <1>3, <1>4, <1>5, <1>6, <1>7, <1>8, <1>9, <1>10, <1>11, <1>12 DEF Next

LEMMA InitNewest == Init => NewestInv /\ WholeReport
<1> SUFFICES ASSUME Init PROVE NewestInv /\ WholeReport
  OBVIOUS
<1>1. Len(polls) = 0 /\ DOMAIN polls = {} /\ 0 <= MaxPolls
  BY StatsDbAssumption DEF Init
<1>2. /\ held.polls = [i \in Instances |-> 0] /\ lastPoll = [i \in Instances |-> 0]
      /\ WholeReport
  BY DEF Init, Emptied, WholeReport, Inserting, Idle
<1> QED BY <1>1, <1>2 DEF NewestInv

\* Where no insert is under way, what a reader finds under a series is a poll of its instance.
LEMMA FoundPolls ==
  ASSUME ArrivalInv, busy = Idle, NEW k \in Keys, NEW id \in Rows(k), NEW p \in PollNo,
         Copies(id, p) > 0
  PROVE  /\ p \in DOMAIN polls /\ polls[p].instance = k.instance /\ polls[p].keys # {}
         /\ id \in Ids /\ chunks[id][p] \in Nat /\ held.samples[id][p] \in Nat
<1>1. id \in Ids /\ id \in Homes /\ table[id].key = k /\ k # NoKey /\ ~Inserting
  BY HomesAreApart, NoKeyIsNone DEF Rows, Inserting, Idle
<1>2. chunks[id][p] \in Nat /\ held.samples[id][p] \in Nat
  BY <1>1, SampleTypes DEF ArrivalInv
<1>3. p <= Len(polls)
  <2>1. Len(polls) \in Nat /\ p \in Nat
    BY DEF ArrivalInv, StoreInv, PollNo
  <2>2. ~(chunks[id][p] = 0 /\ held.samples[id][p] = 0)
    BY DEF Copies
  <2> QED BY <1>1, <2>1, <2>2 DEF ArrivalInv, StoreInv, Unarrived
<1>4. p \in DOMAIN polls /\ ReportOf(p) = polls[p]
  BY <1>3, PollFacts DEF ArrivalInv, PollNo, ReportOf, Current
<1>5. Fits(k, polls[p].keys)
  BY <1>1, <1>4, OwnIsFitting DEF ArrivalInv, StoreInv
<1>6. polls[p] \in Reports
  BY <1>4 DEF ArrivalInv, StoreInv
<1> QED BY <1>1, <1>2, <1>4, <1>5, <1>6 DEF Fits, Reports

LEMMA NewestIsLatest == ArrivalInv => LatestIsNewest
<1> SUFFICES ASSUME ArrivalInv, busy = Idle, NEW i \in Instances,
                    NEW n, n = IF held.polls[i] # 0 THEN held.polls[i] ELSE lastPoll[i],
                    n # 0
             PROVE  /\ Latest(i) = {k \in {k \in Keys : k.instance = i} : n \in History(k)}
                    /\ \A k \in {k \in Keys : k.instance = i} : \A p \in History(k) : p <= n
  BY DEF LatestIsNewest
<1>1. n \in PollNo
  BY DEF ArrivalInv, NewestInv
<1>2. ASSUME NEW k \in Keys, k.instance = i, NEW id \in Rows(k), NEW p \in PollNo,
             Copies(id, p) > 0
      PROVE  p <= n
  <2>1. /\ p \in DOMAIN polls /\ polls[p].instance = i /\ polls[p].keys # {}
        /\ id \in Ids /\ chunks[id][p] \in Nat /\ held.samples[id][p] \in Nat
    BY <1>2, FoundPolls
  <2>2. CASE held.polls[i] # 0
    BY <2>1, <2>2 DEF ArrivalInv, NewestInv
  <2>3. CASE held.polls[i] = 0
    <3>1. held.samples[id][p] = 0
      BY <2>1, <2>3 DEF ArrivalInv, NewestInv
    <3>2. chunks[id][p] > 0
      BY <1>2, <2>1, <3>1 DEF Copies
    <3> QED BY <2>1, <2>3, <3>2 DEF ArrivalInv, NewestInv
  <2> QED BY <2>2, <2>3
<1>3. ASSUME NEW k \in Keys, k.instance = i, NEW id \in Rows(k)
      PROVE  Copies(id, n) > 0 <=>
               IF held.polls[i] # 0 THEN held.samples[id][held.polls[i]] > 0
               ELSE lastPoll[i] # 0 /\ chunks[id][lastPoll[i]] > 0
  <2>1. id \in Ids /\ id \in Homes
    BY HomesAreApart DEF Rows
  <2>2. chunks[id][n] \in Nat /\ held.samples[id][n] \in Nat
    BY <1>1, <2>1, SampleTypes DEF ArrivalInv
  <2>3. CASE held.polls[i] # 0
    <3>1. n = held.polls[i] /\ chunks[id][n] = 0
      BY <2>1, <2>3 DEF ArrivalInv, NewestInv
    <3> QED BY <2>2, <2>3, <3>1 DEF Copies
  <2>4. CASE held.polls[i] = 0
    <3>1. n = lastPoll[i]
      BY <2>4
    <3>2. Copies(id, n) > 0 => held.samples[id][n] = 0
      <4> SUFFICES ASSUME Copies(id, n) > 0 PROVE held.samples[id][n] = 0
        OBVIOUS
      <4>1. n \in DOMAIN polls /\ polls[n].instance = i
        BY <1>1, <1>3, FoundPolls
      <4> QED BY <2>1, <2>2, <2>4, <4>1 DEF ArrivalInv, NewestInv
    <3> QED BY <2>2, <2>4, <3>1, <3>2 DEF Copies
  <2> QED BY <2>3, <2>4
<1>4. \A k \in Keys : k.instance = i => (k \in Latest(i) <=> n \in History(k))
  BY <1>1, <1>3 DEF Latest, History
<1>5. Latest(i) = {k \in {k \in Keys : k.instance = i} : n \in History(k)}
  BY <1>4 DEF Latest
<1> QED BY <1>2, <1>5 DEF History

LEMMA StutterNewest ==
  ASSUME NewestInv, WholeReport, UNCHANGED vars
  PROVE  NewestInv' /\ WholeReport'
BY DEF vars, NewestInv, WholeReport, Inserting, Copies

\* So does what it says of the newest polls, held and stored.
THEOREM ArrivalIsSound ==
  ASSUME WholeInserts
  PROVE  Spec => []ArrivalInv
<1>1. Init => ArrivalInv
  BY InitInv, InitNewest DEF ArrivalInv
<1>2. ArrivalInv /\ [Next]_vars => ArrivalInv'
  BY NextInv, StutterInv, NextNewest, StutterNewest DEF ArrivalInv
<1> QED BY <1>1, <1>2, PTL DEF Spec

\* `latest` shows the newest poll that `history` shows, and all of it, wherever that
\* poll is: held, written, or left by a flush that failed (latest, write_held).
THEOREM LatestIsTheNewest ==
  ASSUME WholeInserts
  PROVE  Spec => []LatestIsNewest
<1>1. ArrivalInv => LatestIsNewest
  BY NewestIsLatest
<1> QED BY <1>1, ArrivalIsSound, PTL

(***************************************************************************)
(* The refinement of SampleStore.  A step of the model is a step of the     *)
(* store, or a stutter: an insert's series become visible one by one, and   *)
(* count for the store when the whole report is in, so that what is taken   *)
(* back when the panel dies during an insert was never there.               *)
(***************************************************************************)

Alike(j, k) == j.instance = k.instance /\ j.group = k.group

Done == busy.report.keys \ busy.todo

\* A row that the insert in progress has given to another series: to one it reports that
\* had none, and if it was in use, as the only one of its frequency that went quiet.
Taken(id) ==
  LET before == busy.before.table
      old == before[id].key
  IN  /\ table[id].key \in Done
      /\ \A j \in Ids : before[j].key # table[id].key
      /\ old = NoKey => id >= busy.before.nextId
      /\ old # NoKey =>
           /\ old \notin busy.report.keys
           /\ Alike(old, table[id].key) /\ old.group # NoGroup
           /\ \A j \in Ids \ {id} :
                before[j].key # NoKey /\ Alike(before[j].key, old) => before[j].key \in busy.report.keys

\* What an insert has changed so far.
InsertProgress ==
  LET before == busy.before.table
      kept == busy.before.held
  IN  /\ HeldShape(kept) /\ held.rows = kept.rows
      /\ busy.before.nextId <= nextId
      /\ \A h \in Homes, p \in PollNo :
           /\ p > Len(polls) \/ (h \in Ids /\ h >= busy.before.nextId) => kept.samples[h][p] = 0
           /\ held.samples[h][p] = IF p = Current /\ h \in Ids /\ table[h].key \in Done
                                     THEN 1 ELSE kept.samples[h][p]
      /\ \A id \in Ids :
           /\ held.seen[id] = IF table[id].key \in Done THEN busy.report.ts ELSE kept.seen[id]
           /\ table[id].key # before[id].key => Taken(id)
           /\ before[id].key # NoKey => table[id].lastSeen = before[id].lastSeen
      /\ \A k \in Done : \E id \in Ids : table[id].key = k
      /\ IsFiniteSet(busy.report.keys)

NoneIn(samples) == \A h \in Homes, p \in PollNo : samples[h][p] = 0

\* Without rows to write there is nothing to write.
RowsSound == BaseHeld.rows \in Nat /\ (BaseHeld.rows = 0 => NoneIn(BaseHeld.samples))

\* A flush and a prune go on with nothing held.
Flushed ==
  busy.op \in {"flush", "prune"} =>
    /\ NoneIn(held.samples)
    /\ busy.op = "prune" => busy.cutoff \in Cutoffs
    /\ busy.at = "delete" => held.seen = NoSeen

ProgressInv == (Inserting => InsertProgress) /\ RowsSound /\ Flushed

LEMMA FlushRows ==
  ASSUME RowsSound, ~Inserting, ~Inserting', FlushDone \/ FlushFails
  PROVE  RowsSound' /\ (FlushDone => NoneIn(held'.samples))
<1>1. BaseHeld = held /\ BaseHeld' = held'
  BY DEF BaseHeld, Inserting
<1>2. Emptied(held.seen).rows = 0 /\ NoneIn(Emptied(held.seen).samples)
  BY DEF Emptied, NoneIn, NoSamples
<1>3. held' = held \/ held' = Emptied(held.seen)
  BY DEF FlushDone, FlushFails, HeldAfterFailure
<1>4. RowsSound'
  BY <1>1, <1>2, <1>3 DEF RowsSound
<1>5. FlushDone => NoneIn(held'.samples)
  BY <1>1, <1>2 DEF RowsSound, FlushDone
<1> QED BY <1>4, <1>5

LEMMA BeginProgress ==
  ASSUME StoreInv', RowsSound, NEW i, NEW ts, NEW ks, IsFiniteSet(ks), Begin(i, ts, ks)
  PROVE  ProgressInv'
<1>1. /\ busy = Idle /\ UNCHANGED <<polls, table, nextId, cache>>
      /\ busy' = [op |-> "insert", report |-> [instance |-> i, ts |-> ts, keys |-> ks],
                  todo |-> ks, before |-> [table |-> table, nextId |-> nextId, held |-> held']]
      /\ (FlushDone \/ FlushFails) \/ UNCHANGED <<chunks, lastPoll, held>>
  BY DEF Begin
<1>2. /\ ~Inserting /\ Inserting' /\ Done' = {} /\ BaseHeld = held /\ BaseHeld' = held'
      /\ busy'.before.table = table' /\ busy'.before.nextId = nextId' /\ busy'.before.held = held'
      /\ busy'.report.keys = ks
  BY <1>1 DEF Inserting, Idle, Done, BaseHeld
<1>3. \A h \in Homes, p \in PollNo : p > Len(polls') => held'.samples[h][p] = 0
  BY <1>1, <1>2 DEF StoreInv, Unarrived
<1>4. \A h \in Ids, p \in PollNo : h >= nextId' => held'.samples[h][p] = 0
  <2> SUFFICES ASSUME NEW h \in Ids, NEW p \in PollNo, h >= nextId' PROVE held'.samples[h][p] = 0
    OBVIOUS
  <2>1. chunks'[h][p] + held'.samples[h][p] = 0
    BY DEF StoreInv, UnusedIds, Copies
  <2>2. chunks'[h][p] \in Nat /\ held'.samples[h][p] \in Nat
    BY HomesAreApart DEF StoreInv, HeldShape, Samples
  <2> QED BY <2>1, <2>2
<1>5. HeldShape(held') /\ nextId' <= nextId'
  BY DEF StoreInv, HeldShape, TableSound
<1>6. InsertProgress'
  BY <1>1, <1>2, <1>3, <1>4, <1>5 DEF InsertProgress
<1>7. RowsSound'
  <2>1. CASE UNCHANGED held
    BY <1>2, <2>1 DEF RowsSound
  <2>2. CASE FlushDone \/ FlushFails
    <3>1. held' = held \/ (held'.rows = 0 /\ NoneIn(held'.samples))
      BY <2>2 DEF FlushDone, FlushFails, HeldAfterFailure, Emptied, NoneIn, NoSamples
    <3> QED BY <1>2, <3>1 DEF RowsSound
  <2> QED BY <1>1, <2>1, <2>2
<1> QED BY <1>1, <1>2, <1>6, <1>7 DEF ProgressInv, Flushed

LEMMA HoldProgress ==
  ASSUME StoreInv, StoreInv', ProgressInv, NEW k \in Keys, NEW id \in Ids,
         Interning(k), Hold(k, id), nextId <= nextId',
         table'[id].key = k, \A j \in Ids \ {id} : table'[j] = table[j],
         table[id].key \notin Done,
         k # busy.before.table[id].key => Taken(id)',
         busy.before.table[id].key # NoKey => table'[id].lastSeen = busy.before.table[id].lastSeen
  PROVE  ProgressInv'
<1>1. /\ chunks[id][Current] = 0 /\ held.samples[id][Current] = 0
      /\ \A h \in Homes, p \in PollNo :
           held'.samples[h][p] = IF h = id /\ p = Current THEN 1 ELSE held.samples[h][p]
      /\ busy' = [op |-> "insert", report |-> busy.report, todo |-> busy.todo \ {k},
                  before |-> busy.before]
      /\ k \in busy.report.keys /\ Inserting /\ UNCHANGED <<polls, chunks>>
  BY HoldMoves DEF Done
<1>2. InsertSound /\ Len(polls) \in Nat /\ Current \in PollNo /\ Current = Len(polls) + 1
  BY <1>1, InsertFacts
<1>3. /\ Inserting' /\ Current' = Current /\ busy'.report = busy.report
      /\ busy'.before = busy.before /\ Done' = Done \cup {k} /\ k \in Done'
  BY <1>1 DEF Inserting, Current, Done
<1>4. held' = [held EXCEPT !.samples[id][Current] = @ + 1, !.seen[id] = busy.report.ts]
  BY DEF Hold
<1>5. HeldShape(held)
  BY DEF StoreInv
<1>6. held'.seen = [held.seen EXCEPT ![id] = busy.report.ts] /\ held'.rows = held.rows
  BY <1>4, <1>5 DEF HeldShape
<1>7. \A j \in Ids : j # id => (table'[j].key \in Done' <=> table[j].key \in Done)
  <2>1. k # NoKey
    BY NoKeyIsNone
  <2>2. \A j \in Ids : j # id => table'[j].key # k
    BY <2>1 DEF StoreInv, TableSound
  <2> QED BY <1>3, <2>2
<1>8. InsertProgress
  BY <1>1 DEF ProgressInv
<1>9. ASSUME NEW h \in Homes, NEW p \in PollNo
      PROVE  held'.samples[h][p] = IF p = Current /\ h \in Ids /\ table'[h].key \in Done'
                                     THEN 1 ELSE busy.before.held.samples[h][p]
  <2>1. held.samples[h][p] = IF p = Current /\ h \in Ids /\ table[h].key \in Done
                               THEN 1 ELSE busy.before.held.samples[h][p]
    BY <1>8 DEF InsertProgress
  <2>2. CASE h = id /\ p = Current
    BY <1>1, <1>3, <2>2
  <2>3. CASE h = id /\ p # Current
    BY <1>1, <2>1, <2>3
  <2>4. CASE h # id
    BY <1>1, <1>7, <2>1, <2>4
  <2> QED BY <2>2, <2>3, <2>4
<1>10. ASSUME NEW j \in Ids
       PROVE  held'.seen[j] = IF table'[j].key \in Done' THEN busy.report.ts
                              ELSE busy.before.held.seen[j]
  <2>1. held.seen[j] = IF table[j].key \in Done THEN busy.report.ts ELSE busy.before.held.seen[j]
    BY <1>8 DEF InsertProgress
  <2>2. CASE j = id
    BY <1>3, <1>5, <1>6, <2>2 DEF HeldShape
  <2>3. CASE j # id
    BY <1>5, <1>6, <1>7, <2>1, <2>3 DEF HeldShape
  <2> QED BY <2>2, <2>3
<1>11. ASSUME NEW j \in Ids, table'[j].key # busy.before.table[j].key
       PROVE  Taken(j)'
  <2>1. CASE j = id
    BY <1>11, <2>1
  <2>2. CASE j # id
    <3>1. table'[j] = table[j]
      BY <2>2
    <3>2. Taken(j)
      BY <1>8, <1>11, <3>1 DEF InsertProgress
    <3> QED BY <1>3, <3>1, <3>2 DEF Taken
  <2> QED BY <2>1, <2>2
<1>12. ASSUME NEW j \in Ids, busy.before.table[j].key # NoKey
       PROVE  table'[j].lastSeen = busy.before.table[j].lastSeen
  BY <1>8, <1>12 DEF InsertProgress
<1>13. ASSUME NEW c \in Done' PROVE \E j \in Ids : table'[j].key = c
  <2>1. CASE c = k
    BY <2>1
  <2>2. CASE c # k
    <3>1. PICK j \in Ids : table[j].key = c
      BY <1>3, <1>8, <1>13, <2>2 DEF InsertProgress
    <3>2. j # id
      BY <1>3, <1>13, <2>2, <3>1
    <3> QED BY <3>1, <3>2
  <2> QED BY <2>1, <2>2
<1>14. InsertProgress'
  <2>1. busy.before.nextId <= nextId'
    BY <1>2, <1>8 DEF InsertSound, InsertProgress, StoreInv, TableSound
  <2> QED BY <1>1, <1>3, <1>6, <1>8, <1>9, <1>10, <1>11, <1>12, <1>13, <2>1 DEF InsertProgress, HeldShape
<1>15. RowsSound'
  <2>1. BaseHeld' = BaseHeld
    BY <1>1, <1>3 DEF BaseHeld, Inserting
  <2> QED BY <2>1 DEF ProgressInv, RowsSound
<1> QED BY <1>1, <1>14, <1>15 DEF ProgressInv, Flushed

\* A key that is being looked up has a row now if it had one before.
LEMMA NotTaken ==
  ASSUME StoreInv, ProgressInv, NEW k \in Keys, Interning(k), NEW id \in Ids
  PROVE  /\ Inserting /\ InsertProgress /\ InsertSound
         /\ k \in busy.report.keys /\ k \notin Done
         /\ busy.before.table[id].key = k => table[id].key = k
         /\ table[id].key \notin Done => busy.before.table[id].key = table[id].key
<1>1. Inserting /\ InsertProgress /\ InsertSound
  BY InsertFacts DEF Interning, Inserting, ProgressInv
<1>2. k \in busy.report.keys /\ k \notin Done /\ k # NoKey
  BY <1>1, NoKeyIsNone DEF Interning, InsertSound, Done
<1> QED BY <1>1, <1>2 DEF InsertProgress, Taken

LEMMA OwnProgress ==
  ASSUME StoreInv, StoreInv', ProgressInv, NEW k \in Keys, NEW id \in Ids,
         Interning(k), Hold(k, id), table[id].key = k, UNCHANGED <<table, nextId>>
  PROVE  ProgressInv'
<1>1. /\ k \notin Done /\ busy.before.table[id].key = k /\ InsertProgress
  BY NotTaken
<1>2. nextId <= nextId' /\ k # NoKey
  BY NoKeyIsNone DEF StoreInv, TableSound
<1>3. table'[id].lastSeen = busy.before.table[id].lastSeen
  BY <1>1, <1>2 DEF InsertProgress
<1> QED BY <1>1, <1>2, <1>3, HoldProgress

LEMMA RelabelProgress ==
  ASSUME StoreInv, StoreInv', ProgressInv, NEW k \in Keys, Relabel(k)
  PROVE  ProgressInv'
<1>1. Interning(k) /\ Rows(k) = {} /\ k.group # NoGroup /\ nextId' = nextId
  BY DEF Relabel
<1>2. PICK id \in Ids : /\ Candidates(k) = {id}
                       /\ table' = [table EXCEPT ![id].key = k]
                       /\ Hold(k, id)
  BY DEF Relabel
<1>3. /\ Alike(table[id].key, k) /\ table[id].key \notin busy.report.keys
      /\ \A j \in Ids \ {id} : Alike(table[j].key, k) => table[j].key \in busy.report.keys
  BY <1>2 DEF Candidates, Alike
<1>4. table[id].key # NoKey /\ table[id].key \notin Done
  BY <1>3, StatsDbAssumption DEF NoKey, Done, Alike
<1>5. /\ Inserting /\ InsertProgress /\ InsertSound /\ k \in busy.report.keys
      /\ busy.before.table[id].key = table[id].key
  BY <1>1, <1>4, NotTaken
<1>6. table \in [Ids -> RowType] /\ table[id] \in RowType
  BY DEF StoreInv, TableSound
<1>7. /\ table'[id].key = k /\ table'[id].lastSeen = table[id].lastSeen
      /\ \A j \in Ids \ {id} : table'[j] = table[j]
  BY <1>2, <1>6 DEF RowType
<1>8. \A j \in Ids : busy.before.table[j].key # k
  BY <1>1, NotTaken DEF Rows
<1>9. ASSUME NEW j \in Ids \ {id}, busy.before.table[j].key # NoKey,
             Alike(busy.before.table[j].key, table[id].key)
      PROVE  busy.before.table[j].key \in busy.report.keys
  <2>1. CASE table[j].key = busy.before.table[j].key
    BY <1>3, <1>9, <2>1 DEF Alike
  <2>2. CASE table[j].key # busy.before.table[j].key
    <3>1. Taken(j)
      BY <1>5, <2>2 DEF InsertProgress
    <3>2. Alike(table[id].key, busy.before.table[j].key)
      BY <1>9 DEF Alike
    <3> QED BY <1>3, <1>4, <1>5, <1>9, <3>1, <3>2 DEF Taken
  <2> QED BY <2>1, <2>2
<1>10. Taken(id)'
  <2>1. busy' = [busy EXCEPT !.todo = @ \ {k}]
    BY <1>2 DEF Hold
  <2>2. /\ busy'.before = busy.before /\ busy'.report = busy.report /\ k \in Done'
    BY <1>5, <2>1 DEF InsertSound, Done
  <2>3. busy.before.table[id].key.group # NoGroup
    BY <1>1, <1>3, <1>5 DEF Alike
  <2> QED BY <1>3, <1>4, <1>5, <1>7, <1>8, <1>9, <2>2, <2>3 DEF Taken
<1>11. nextId <= nextId'
  BY <1>1 DEF StoreInv, TableSound
<1>12. table'[id].lastSeen = busy.before.table[id].lastSeen
  BY <1>4, <1>5, <1>7 DEF InsertProgress
<1> QED BY <1>1, <1>2, <1>4, <1>7, <1>10, <1>11, <1>12, HoldProgress

LEMMA InsertRowProgress ==
  ASSUME StoreInv, StoreInv', ProgressInv, NEW k \in Keys, Insert(k)
  PROVE  ProgressInv'
<1>0. PICK id \in Ids : id = nextId
  BY DEF Insert
<1>1. /\ Interning(k) /\ Rows(k) = {} /\ nextId = id
      /\ table' = [table EXCEPT ![id] = [key |-> k, lastSeen |-> busy.report.ts]]
      /\ nextId' = nextId + 1
      /\ Hold(k, id)
  BY <1>0 DEF Insert
<1>2. /\ table'[id].key = k /\ \A j \in Ids \ {id} : table'[j] = table[j]
  BY <1>1 DEF StoreInv, TableSound
<1>3. table[id].key = NoKey /\ nextId <= nextId' /\ nextId \in Nat
  BY <1>1 DEF StoreInv, TableSound, Ids
<1>4. /\ Inserting /\ InsertProgress /\ InsertSound /\ k \in busy.report.keys
  BY <1>1, NotTaken
<1>5. table[id].key \notin Done
  BY <1>3, <1>4, InsertFacts, NoKeyIsNone DEF Done
<1>6. busy.before.table[id].key = NoKey /\ id >= busy.before.nextId
  <2>1. busy.before.nextId <= nextId /\ busy.before.nextId \in Nat
    BY <1>4 DEF InsertProgress, InsertSound, TableSound
  <2> QED BY <1>1, <1>3, <1>4, <1>5, <2>1, NotTaken
<1>7. \A j \in Ids : busy.before.table[j].key # k
  BY <1>1, NotTaken DEF Rows
<1>8. Taken(id)'
  <2>1. busy' = [busy EXCEPT !.todo = @ \ {k}]
    BY <1>1 DEF Hold
  <2>2. /\ busy'.before = busy.before /\ busy'.report = busy.report /\ k \in Done'
    BY <1>4, <2>1 DEF InsertSound, Done
  <2> QED BY <1>2, <1>6, <1>7, <2>2 DEF Taken
<1> QED BY <1>1, <1>2, <1>3, <1>5, <1>6, <1>8, HoldProgress
LEMMA FlushProgress ==
  ASSUME ProgressInv, ~Inserting, ~Inserting', FlushDone \/ FlushFails,
         NEW op \in {"flush", "prune"}, NEW c, op = "prune" => c \in Cutoffs,
         busy' = Idle \/ (FlushDone /\ busy' = [op |-> op, at |-> "seen", cutoff |-> c])
  PROVE  ProgressInv'
<1>1. RowsSound' /\ (FlushDone => NoneIn(held'.samples))
  BY FlushRows DEF ProgressInv
<1>2. Flushed'
  BY <1>1 DEF Flushed, Idle
<1> QED BY <1>1, <1>2 DEF ProgressInv

LEMMA CommitProgress ==
  ASSUME StoreInv, WholeReport, ProgressInv, Commit
  PROVE  ProgressInv'
<1>1. /\ Inserting /\ ~Inserting' /\ busy' = Idle /\ held' = Counted(held, busy.report, Current)
  BY DEF Commit, Inserting, Idle
<1>2. /\ InsertProgress /\ HeldShape(held) /\ BaseHeld = busy.before.held /\ BaseHeld' = held'
      /\ held.rows \in Nat
  BY <1>1 DEF ProgressInv, StoreInv, RowsSound, BaseHeld, Inserting, InsertProgress
<1>3. held'.rows \in Nat /\ held'.rows # 0
  <2>1. CASE busy.report.instance = NoGroup
    <3>1. held'.rows = held.rows + 1
      BY <1>1, <1>2, <2>1 DEF Counted, NoteBucket, HeldShape
    <3> QED BY <1>2, <3>1
  <2>2. CASE busy.report.instance # NoGroup
    <3>1. held'.rows = held.rows + Cardinality(busy.report.keys)
      BY <1>1, <1>2, <2>2 DEF Counted, NoteBucket, HeldShape
    <3>2. IsFiniteSet(busy.report.keys) /\ busy.report.keys # {}
      BY <1>1, <1>2, <2>2 DEF InsertProgress, WholeReport
    <3>3. Cardinality(busy.report.keys) \in Nat /\ Cardinality(busy.report.keys) # 0
      BY <3>2, FS_CardinalityType, FS_EmptySet
    <3> QED BY <1>2, <3>1, <3>3
  <2> QED BY <2>1, <2>2
<1> QED BY <1>1, <1>2, <1>3 DEF ProgressInv, RowsSound, Flushed, Idle

LEMMA InsertFailsProgress ==
  ASSUME WholeInserts, StoreInv, ProgressInv, InsertFails
  PROVE  /\ ProgressInv' /\ held.seen = BaseHeld.seen /\ held.samples = BaseHeld.samples
         /\ UNCHANGED <<chunks, held>> /\ BaseTable' = BaseTable
<1>1. /\ Inserting /\ busy.todo = busy.report.keys /\ table' = busy.before.table
      /\ busy' = Idle /\ UNCHANGED <<chunks, held>>
  BY DEF InsertFails, Inserting, WholeInserts
<1>2. InsertProgress /\ Done = {} /\ BaseHeld = busy.before.held
  BY <1>1 DEF ProgressInv, Done, BaseHeld, Inserting
<1>3. \A h \in Homes, p \in PollNo : held.samples[h][p] = BaseHeld.samples[h][p]
  BY <1>2 DEF InsertProgress
<1>4. HeldShape(held) /\ HeldShape(BaseHeld)
  BY <1>2 DEF StoreInv, InsertProgress
<1>5. held.samples = BaseHeld.samples
  BY <1>3, <1>4 DEF HeldShape, Samples
<1>6. held.seen = BaseHeld.seen
  BY <1>2, <1>4 DEF InsertProgress, HeldShape
<1>7. held.rows = BaseHeld.rows
  BY <1>2 DEF InsertProgress
<1>8. ~Inserting' /\ BaseHeld' = held /\ BaseTable' = BaseTable
  BY <1>1 DEF Inserting, Idle, BaseHeld, BaseTable
<1>9. RowsSound'
  BY <1>5, <1>7, <1>8 DEF ProgressInv, RowsSound
<1>10. Flushed'
  BY <1>1 DEF Flushed, Idle
<1> QED BY <1>1, <1>5, <1>6, <1>8, <1>9, <1>10 DEF ProgressInv

LEMMA WriteSeenProgress ==
  ASSUME StoreInv, ProgressInv, WriteSeen
  PROVE  ProgressInv'
<1>1. /\ busy.op \in {"flush", "prune"} /\ busy # Idle /\ ~Inserting
      /\ busy = [op |-> busy.op, at |-> busy.at, cutoff |-> busy.cutoff]
  BY DEF WriteSeen, StoreInv, Idle, BusyShape, InsertSound, Inserting
<1>2. \/ busy' = Idle
      \/ busy' = [op |-> "prune", at |-> "delete", cutoff |-> busy.cutoff]
         /\ busy.op = "prune" /\ held' = [held EXCEPT !.seen = NoSeen]
  BY <1>1 DEF WriteSeen
<1>3. held'.samples = held.samples /\ held'.rows = held.rows
      /\ (held' = [held EXCEPT !.seen = NoSeen] => held'.seen = NoSeen)
  BY DEF WriteSeen, StoreInv, HeldShape
<1>4. ~Inserting' /\ BaseHeld = held /\ BaseHeld' = held'
  BY <1>1, <1>2 DEF Inserting, Idle, BaseHeld
<1>5. Flushed'
  BY <1>1, <1>2, <1>3 DEF ProgressInv, Flushed, Idle, NoneIn
<1> QED BY <1>3, <1>4, <1>5 DEF ProgressInv, RowsSound

LEMMA IdleProgress ==
  ASSUME ProgressInv, ~Inserting, busy' = Idle, held' = held \/ held' = Emptied(NoSeen)
  PROVE  ProgressInv'
<1>1. Emptied(NoSeen).rows = 0 /\ NoneIn(Emptied(NoSeen).samples)
  BY DEF Emptied, NoneIn, NoSamples
<1>2. ~Inserting' /\ BaseHeld = held /\ BaseHeld' = held'
  BY DEF Inserting, Idle, BaseHeld
<1> QED BY <1>1, <1>2 DEF ProgressInv, RowsSound, Flushed, Idle

LEMMA CrashProgress ==
  ASSUME Crash
  PROVE  ProgressInv'
<1>1. Emptied(NoSeen).rows = 0 /\ NoneIn(Emptied(NoSeen).samples)
  BY DEF Emptied, NoneIn, NoSamples
<1>2. ~Inserting' /\ BaseHeld' = Emptied(NoSeen) /\ busy' = Idle
  BY DEF Crash, Inserting, Idle, BaseHeld
<1> QED BY <1>1, <1>2 DEF ProgressInv, RowsSound, Flushed, Idle

LEMMA InitProgress == Init => ProgressInv
<1> SUFFICES ASSUME Init PROVE ProgressInv
  OBVIOUS
<1>1. Emptied(NoSeen).rows = 0 /\ NoneIn(Emptied(NoSeen).samples)
  BY DEF Emptied, NoneIn, NoSamples
<1>2. ~Inserting /\ BaseHeld = Emptied(NoSeen) /\ busy = Idle
  BY DEF Init, Inserting, Idle, BaseHeld
<1> QED BY <1>1, <1>2 DEF ProgressInv, RowsSound, Flushed, Idle

LEMMA InternProgress ==
  ASSUME StoreInv, StoreInv', ProgressInv, NEW k \in Keys, Intern(k)
  PROVE  ProgressInv'
<1>1. CASE Cached(k)
  <2>1. PICK id \in Ids : id = cache[k] /\ table[id].key = k
    BY <1>1 DEF Cached, StoreInv, CacheSound
  <2>2. Interning(k) /\ Hold(k, id) /\ UNCHANGED <<table, nextId>>
    BY <1>1, <2>1 DEF Cached
  <2> QED BY <2>1, <2>2, OwnProgress
<1>2. CASE Existing(k)
  BY <1>2, OwnProgress DEF Existing, Rows
<1> QED BY <1>1, <1>2, RelabelProgress, InsertRowProgress DEF Intern

LEMMA NextProgress ==
  ASSUME WholeInserts, ArrivalInv, StoreInv', ProgressInv, Next
  PROVE  ProgressInv'
<1> USE DEF ArrivalInv
<1>1. ASSUME NEW ts \in Times, NEW i \in Instances, NEW ks \in Reported, InsertBatch(i, ts, ks)
      PROVE  ProgressInv'
  BY <1>1, StatsDbAssumption, BeginProgress DEF InsertBatch, ProgressInv
<1>2. ASSUME NEW ts \in Times, InsertHardware(ts)
      PROVE  ProgressInv'
  BY <1>2, FS_EmptySet, BeginProgress DEF InsertHardware, ProgressInv
<1>3. ASSUME NEW ts \in Times, FlushIfDue(ts)
      PROVE  ProgressInv'
  BY <1>3, FlushProgress DEF FlushIfDue, Inserting, Idle
<1>4. ASSUME NEW op \in {"flush", "prune"}, NEW c, BeginFlush(op, c), op = "prune" => c \in Cutoffs
      PROVE  ProgressInv'
  BY <1>4, FlushProgress DEF BeginFlush, Inserting, Idle
<1>5. ASSUME NEW k \in Keys, Intern(k)
      PROVE  ProgressInv'
  BY <1>5, InternProgress
<1>6. CASE DeleteOld
  BY <1>6, IdleProgress DEF DeleteOld, Inserting
<1>7. \A c \in Cutoffs : Prune(c) => BeginFlush("prune", c)
  BY DEF Prune
<1>8. Flush => BeginFlush("flush", 0)
  BY DEF Flush
<1>9. ASSUME NEW c \in Cutoffs, Prune(c) PROVE ProgressInv'
  BY <1>4, <1>7, <1>9
<1>10. CASE Flush
  BY <1>4, <1>8, <1>10
<1> QED BY <1>1, <1>2, <1>3, <1>5, <1>6, <1>9, <1>10, CommitProgress, InsertFailsProgress,
           WriteSeenProgress, CrashProgress DEF Next
-----------------------------------------------------------------------------
(* The refinement of SampleStore. *)

LEMMA BucketsAreWhole ==
  ASSUME NEW len \in Nat \ {0}, NEW ts \in Nat, NEW c \in Nat
  PROVE  ts < (c \div len) * len <=> ts \div len < c \div len
<1> DEFINE a == ts \div len
           q == c \div len
<1>1. a \in Nat /\ q \in Nat /\ a * len <= ts /\ ts < (a + 1) * len
  OBVIOUS
<1>2. \A m, n \in Nat : m <= n => m * len <= n * len
  OBVIOUS
<1> HIDE DEF a, q
<1>3. CASE a < q
  <2>1. (a + 1) * len <= q * len
    BY <1>1, <1>2, <1>3
  <2> QED BY <1>1, <1>3, <2>1 DEF a, q
<1>4. CASE a >= q
  <2>1. q * len <= a * len
    BY <1>1, <1>2, <1>4
  <2> QED BY <1>1, <1>4, <2>1 DEF a, q
<1> QED BY <1>1, <1>3, <1>4

BaseSound ==
  /\ BaseTable \in [Ids -> RowType]
  /\ \A i, j \in Ids : BaseTable[i].key = BaseTable[j].key /\ BaseTable[i].key # NoKey => i = j
  /\ HeldShape(held)

HeardSound ==
  \A k \in Keys :
    /\ \A id \in Ids : BaseTable[id].key = k => BaseHome(k) = {id} /\ HeardBar[k] = LastHeard(id)
    /\ (\A id \in Ids : BaseTable[id].key # k) => BaseHome(k) = {} /\ HeardBar[k] = 0

LEMMA TheTable == StoreInv => BaseSound
BY InsertFacts DEF BaseSound, StoreInv, TableSound, InsertSound, BaseTable, Inserting

LEMMA OneRow == StoreInv => HeardSound
<1> SUFFICES ASSUME StoreInv, NEW k \in Keys
             PROVE  /\ \A id \in Ids : BaseTable[id].key = k =>
                         BaseHome(k) = {id} /\ HeardBar[k] = LastHeard(id)
                    /\ (\A id \in Ids : BaseTable[id].key # k) => BaseHome(k) = {} /\ HeardBar[k] = 0
  BY DEF HeardSound
<1>1. k # NoKey
  BY NoKeyIsNone
<1>2. BaseHome(k) = {id \in Ids : BaseTable[id].key = k}
  BY <1>1 DEF BaseHome
<1>3. ASSUME NEW id \in Ids, BaseTable[id].key = k
      PROVE  BaseHome(k) = {id} /\ HeardBar[k] = LastHeard(id)
  <2>1. BaseHome(k) = {id}
    BY <1>1, <1>2, <1>3, TheTable DEF BaseSound
  <2>2. (CHOOSE j \in BaseHome(k) : TRUE) = id
    BY <2>1
  <2> QED BY <2>1, <2>2 DEF HeardBar
<1>4. ASSUME \A id \in Ids : BaseTable[id].key # k
      PROVE  BaseHome(k) = {} /\ HeardBar[k] = 0
  <2>1. BaseHome(k) = {}
    BY <1>2, <1>4
  <2> QED BY <2>1 DEF HeardBar
<1> QED BY <1>3, <1>4

LEMMA RowsNext == StoreInv' => BaseSound' /\ HeardSound'
BY TheTable, OneRow, PTL

\* While the base stays what it is, so does what readers see.
LEMMA SameBase ==
  ASSUME UNCHANGED chunks, BaseTable' = BaseTable,
         BaseHeld'.samples = BaseHeld.samples, BaseHeld'.seen = BaseHeld.seen
  PROVE  LogBar' = LogBar /\ SafeBar' = SafeBar /\ HeardBar' = HeardBar
<1>1. \A k \in Logged : BaseHome(k)' = BaseHome(k)
  BY DEF BaseHome
<1>2. LogBar' = LogBar /\ SafeBar' = SafeBar
  BY <1>1 DEF LogBar, SafeBar
<1>3. \A k \in Keys : BaseHome(k)' = BaseHome(k) /\ (\A id : LastHeard(id)' = LastHeard(id))
  BY <1>1 DEF Logged, LastHeard
<1>4. HeardBar' = HeardBar
  BY <1>3 DEF HeardBar
<1> QED BY <1>2, <1>4

LEMMA HomesOf ==
  /\ \A k \in Logged : BaseHome(k) \subseteq Homes
  /\ \A k \in Keys : BaseHome(k) \subseteq Ids
  /\ BaseHome(NoKey) = {Hardware}
  /\ Keys \subseteq Logged /\ NoKey \in Logged
BY HomesAreApart, NoKeyIsNone DEF BaseHome, Logged

\* Whatever is written is what was held; losing what is held leaves what was written.
LEMMA FlushMaps ==
  ASSUME StoreInv, StoreInv', ~Inserting, BaseTable' = table, BaseHeld' = held', UNCHANGED polls,
         FlushDone \/ FlushFails
  PROVE  [Store!Next]_(Store!vars)
<1>1. BaseTable = table /\ BaseHeld = held
  BY DEF BaseTable, BaseHeld, Inserting
<1>2. \A k \in Logged : BaseHome(k)' = BaseHome(k)
  BY <1>1 DEF BaseHome
<1>3. CASE UNCHANGED <<chunks, held>>
  BY <1>1, <1>3, SameBase DEF Store!vars
<1>4. \A h \in Homes, p \in PollNo : Emptied(held.seen).samples[h][p] = 0
  BY DEF Emptied, NoSamples
<1>5. Emptied(held.seen).seen = held.seen
  BY DEF Emptied
<1>6. CASE FlushDone /\ held.rows # 0
  <2>1. chunks' = Written(chunks) /\ held' = Emptied(held.seen)
    BY <1>6 DEF FlushDone
  <2>2. \A h \in Homes, p \in PollNo :
          /\ chunks'[h][p] = chunks[h][p] + held.samples[h][p]
          /\ chunks'[h][p] + held'.samples[h][p] = chunks[h][p] + held.samples[h][p]
    BY <1>4, <2>1, SampleTypes DEF Written
  <2>3. LogBar' = LogBar /\ SafeBar' = LogBar
    BY <1>1, <1>2, <2>2, HomesOf DEF LogBar, SafeBar
  <2>4. \A id \in Ids : LastHeard(id)' = LastHeard(id)
    BY <1>1, <1>5, <2>1 DEF LastHeard
  <2>5. HeardBar' = HeardBar
    BY <1>1, <1>2, <2>4, OneRow, RowsNext DEF HeardSound, HeardBar
  <2> QED BY <2>3, <2>5 DEF Store!Next, Store!Persist
<1>7. CASE UNCHANGED chunks /\ held' = Emptied(held.seen)
  <2>1. \A h \in Homes, p \in PollNo : chunks[h][p] + held'.samples[h][p] = chunks[h][p]
    BY <1>4, <1>7, SampleTypes
  <2>2. LogBar' = SafeBar /\ SafeBar' = SafeBar
    BY <1>1, <1>2, <1>7, <2>1, HomesOf DEF LogBar, SafeBar
  <2>3. HeardBar' \in [Keys -> Times \cup {0}]
    BY <1>1, RowsNext DEF HeardSound, HeardBar, LastHeard, BaseSound, HeldShape, RowType
  <2> QED BY <2>2, <2>3 DEF Store!Next, Store!Lose
<1> QED BY <1>3, <1>6, <1>7 DEF FlushDone, FlushFails, HeldAfterFailure

LEMMA CrashMaps ==
  ASSUME StoreInv, StoreInv', Crash
  PROVE  [Store!Next]_(Store!vars)
<1>1. /\ busy' = Idle /\ held' = Emptied(NoSeen) /\ UNCHANGED <<polls, chunks>>
      /\ BaseTable' = BaseTable /\ BaseHeld' = held'
  BY DEF Crash, BaseTable, BaseHeld, Idle
<1>2. \A k \in Logged : BaseHome(k)' = BaseHome(k)
  BY <1>1 DEF BaseHome
<1>3. \A h \in Homes, p \in PollNo : chunks[h][p] + held'.samples[h][p] = chunks[h][p]
  BY <1>1, SampleTypes DEF Emptied, NoSamples
<1>4. LogBar' = SafeBar /\ SafeBar' = SafeBar
  BY <1>1, <1>2, <1>3, HomesOf DEF LogBar, SafeBar
<1>5. HeardBar' \in [Keys -> Times \cup {0}]
  BY <1>1, RowsNext DEF HeardSound, HeardBar, LastHeard, BaseSound, HeldShape, RowType
<1> QED BY <1>1, <1>4, <1>5 DEF Store!Next, Store!Lose

LEMMA WriteSeenMaps ==
  ASSUME StoreInv, StoreInv', WriteSeen
  PROVE  UNCHANGED Store!vars
<1>1. /\ busy.op \in {"flush", "prune"} /\ busy # Idle /\ ~Inserting /\ UNCHANGED <<polls, chunks>>
      /\ busy = [op |-> busy.op, at |-> busy.at, cutoff |-> busy.cutoff]
  BY DEF WriteSeen, StoreInv, Idle, BusyShape, InsertSound, Inserting
<1>2. ~Inserting'
  BY <1>1 DEF WriteSeen, Inserting, Idle
<1>3. BaseTable = table /\ BaseTable' = table' /\ BaseHeld = held /\ BaseHeld' = held'
  BY <1>1, <1>2 DEF BaseTable, BaseHeld, Inserting
<1>4. CASE UNCHANGED <<table, held>>
  BY <1>1, <1>3, <1>4, SameBase DEF Store!vars
<1>5. CASE /\ table' = [id \in Ids |-> IF held.seen[id] # 0 /\ table[id] # NoRow
                                         THEN [table[id] EXCEPT !.lastSeen = held.seen[id]]
                                         ELSE table[id]]
           /\ held' = [held EXCEPT !.seen = NoSeen]
  <2>1. HeldShape(held) /\ table \in [Ids -> RowType]
    BY DEF StoreInv, TableSound
  <2>2. held'.samples = held.samples /\ held'.seen = NoSeen
    BY <1>5, <2>1 DEF HeldShape
  <2>3. \A id \in Ids : /\ table'[id].key = table[id].key
                        /\ table[id].key # NoKey =>
                             table'[id].lastSeen = IF held.seen[id] # 0 THEN held.seen[id]
                                                   ELSE table[id].lastSeen
    BY <1>5, <2>1 DEF RowType, NoRow
  <2>4. \A k \in Logged : BaseHome(k)' = BaseHome(k)
    BY <1>3, <2>3 DEF BaseHome
  <2>5. LogBar' = LogBar /\ SafeBar' = SafeBar
    BY <1>1, <1>3, <2>2, <2>4 DEF LogBar, SafeBar
  <2>6. \A id \in Ids : table[id].key # NoKey => LastHeard(id)' = LastHeard(id)
    BY <1>3, <2>2, <2>3 DEF LastHeard, NoSeen
  <2>7. HeardBar' = HeardBar
    BY <1>3, <2>3, <2>6, NoKeyIsNone, OneRow, RowsNext DEF HeardSound, HeardBar
  <2> QED BY <1>1, <2>5, <2>7 DEF Store!vars
<1> QED BY <1>4, <1>5 DEF WriteSeen

LEMMA InternMaps ==
  ASSUME StoreInv, NEW k \in Keys, Intern(k)
  PROVE  UNCHANGED Store!vars
<1>1. PICK id \in Ids : Interning(k) /\ Hold(k, id)
  BY DEF Intern, Cached, Existing, Relabel, Insert, Rows, StoreInv, CacheSound
<1>2. Inserting /\ InsertSound
  BY <1>1, InsertFacts DEF Interning, Inserting
<1>3. busy' = [busy EXCEPT !.todo = @ \ {k}] /\ UNCHANGED <<polls, chunks>>
  BY <1>1 DEF Hold
<1>4. busy'.op = busy.op /\ busy'.before = busy.before
  BY <1>2, <1>3 DEF InsertSound
<1>5. BaseTable' = BaseTable /\ BaseHeld' = BaseHeld
  BY <1>2, <1>4 DEF BaseTable, BaseHeld, Inserting
<1> QED BY <1>3, <1>5, SameBase DEF Store!vars
LEMMA DeleteOldMaps ==
  ASSUME StoreInv, StoreInv', ProgressInv, DeleteOld
  PROVE  [Store!Next]_(Store!vars)
<1>0. PICK c : c = busy.cutoff
  OBVIOUS
<1>1. /\ busy.op = "prune" /\ busy.at = "delete" /\ busy' = Idle
      /\ ~Inserting /\ ~Inserting' /\ UNCHANGED <<polls, held>>
  BY DEF DeleteOld, Inserting, Idle
<1>2. BaseTable = table /\ BaseTable' = table' /\ BaseHeld = held /\ BaseHeld' = held'
  BY <1>1 DEF BaseTable, BaseHeld, Inserting
<1>3. NoneIn(held.samples) /\ held.seen = NoSeen /\ c \in Cutoffs
  BY <1>0, <1>1 DEF ProgressInv, Flushed
<1>4. CASE UNCHANGED <<chunks, table>>
  BY <1>1, <1>2, <1>4, SameBase DEF Store!vars
<1>5. CASE ~UNCHANGED <<chunks, table>>
  <2>1. /\ chunks' = [h \in Homes |-> [p \in PollNo |-> IF Expired(h, p, c) THEN 0 ELSE chunks[h][p]]]
        /\ table' = [id \in Ids |-> IF Forgotten(id, c) THEN NoRow ELSE table[id]]
    BY <1>0, <1>5 DEF DeleteOld
  <2>2. \A h \in Homes, p \in PollNo :
          /\ chunks[h][p] \in Nat /\ held.samples[h][p] = 0 /\ held'.samples[h][p] = 0
          /\ chunks'[h][p] = IF Expired(h, p, c) THEN 0 ELSE chunks[h][p]
          /\ chunks[h][p] > 0 => p \in DOMAIN polls
    <3> SUFFICES ASSUME NEW h \in Homes, NEW p \in PollNo
                 PROVE  /\ chunks[h][p] \in Nat /\ held.samples[h][p] = 0 /\ held'.samples[h][p] = 0
                        /\ chunks'[h][p] = IF Expired(h, p, c) THEN 0 ELSE chunks[h][p]
                        /\ chunks[h][p] > 0 => p \in DOMAIN polls
      OBVIOUS
    <3>1. chunks[h][p] \in Nat /\ held.samples[h][p] = 0 /\ held'.samples[h][p] = 0
      BY <1>1, <1>3, SampleTypes DEF NoneIn
    <3>2. chunks[h][p] > 0 => p \in DOMAIN polls
      BY DEF StoreInv, Unarrived, PollNo
    <3> QED BY <2>1, <3>1, <3>2
  <2>3. LogBar = SafeBar /\ LogBar' = SafeBar'
    <3>1. \A h \in Homes, p \in PollNo :
            /\ chunks[h][p] + held.samples[h][p] = chunks[h][p]
            /\ chunks'[h][p] + held'.samples[h][p] = chunks'[h][p]
      BY <2>2
    <3>2. \A k \in Logged : BaseHome(k) \subseteq Homes /\ BaseHome(k)' \subseteq Homes
      BY HomesAreApart DEF BaseHome
    <3> QED BY <1>2, <3>1, <3>2 DEF LogBar, SafeBar
  <2>4. \A id \in Ids : table[id].key # NoKey => LastHeard(id) = table[id].lastSeen /\ table[id] # NoRow
    BY <1>2, <1>3 DEF LastHeard, NoSeen, NoRow
  <2>5. \A id \in Ids : table'[id].key # NoKey =>
          LastHeard(id)' = table[id].lastSeen /\ table'[id] = table[id] /\ ~Forgotten(id, c)
    BY <1>1, <1>2, <1>3, <2>1 DEF LastHeard, NoSeen, NoRow
  <2>6. ASSUME NEW k \in Keys
        PROVE  /\ HeardBar'[k] = IF HeardBar[k] < Boundary(c) THEN 0 ELSE HeardBar[k]
               /\ HeardBar[k] < Boundary(c) => BaseHome(k)' = {}
               /\ ~(HeardBar[k] < Boundary(c)) => BaseHome(k)' = BaseHome(k)
    <3>1. k # NoKey
      BY NoKeyIsNone
    <3>2. CASE \A id \in Ids : table[id].key # k
      <4>1. \A id \in Ids : table'[id].key # k
        BY <2>1, <3>1, <3>2 DEF NoRow
      <4> QED BY <1>2, <3>2, <4>1, OneRow, RowsNext DEF HeardSound
    <3>3. ASSUME NEW id \in Ids, table[id].key = k
          PROVE  /\ HeardBar'[k] = IF HeardBar[k] < Boundary(c) THEN 0 ELSE HeardBar[k]
                 /\ HeardBar[k] < Boundary(c) => BaseHome(k)' = {}
                 /\ ~(HeardBar[k] < Boundary(c)) => BaseHome(k)' = BaseHome(k)
      <4>1. BaseHome(k) = {id} /\ HeardBar[k] = table[id].lastSeen
        BY <1>2, <2>4, <3>1, <3>3, OneRow DEF HeardSound
      <4>2. Forgotten(id, c) <=> HeardBar[k] < Boundary(c)
        BY <2>4, <3>1, <3>3, <4>1 DEF Forgotten
      <4>3. CASE Forgotten(id, c)
        <5>1. \A j \in Ids : table'[j].key # k
          BY <2>1, <2>5, <3>1, <3>3, <4>3, TheTable, <1>2 DEF NoRow, BaseSound
        <5> QED BY <1>2, <4>2, <4>3, <5>1, RowsNext DEF HeardSound
      <4>4. CASE ~Forgotten(id, c)
        <5>1. table'[id] = table[id]
          BY <2>1, <4>4
        <5> QED BY <1>2, <2>5, <3>1, <3>3, <4>1, <4>2, <4>4, <5>1, RowsNext DEF HeardSound
      <4> QED BY <4>3, <4>4
    <3> QED BY <3>2, <3>3
  <2>7. HeardBar' = [k \in Keys |-> IF HeardBar[k] < Store!Boundary(c) THEN 0 ELSE HeardBar[k]]
    <3>1. Store!Boundary(c) = Boundary(c)
      BY DEF Store!Boundary, Boundary, Store!BucketOf, BucketOf
    <3>2. HeardBar' = [k \in Keys |-> HeardBar'[k]]
      BY DEF HeardBar
    <3> QED BY <2>6, <3>1, <3>2
  <2>8. ASSUME NEW p \in DOMAIN polls
        PROVE  polls[p].ts < Boundary(c) <=> ~(BucketOf(polls[p].ts) >= BucketOf(c))
    <3>1. polls[p] \in Reports /\ c \in Nat /\ BucketLen \in Nat \ {0}
      BY <1>3, StatsDbAssumption DEF StoreInv
    <3>2. polls[p].ts \in Nat
      BY <3>1, StatsDbAssumption DEF Reports
    <3>3. polls[p].ts \div BucketLen \in Int /\ c \div BucketLen \in Int
      BY <3>1, <3>2
    <3>4. polls[p].ts < (c \div BucketLen) * BucketLen <=> polls[p].ts \div BucketLen < c \div BucketLen
      BY <3>1, <3>2, BucketsAreWhole
    <3> QED BY <3>3, <3>4 DEF Boundary, BucketOf
  <2>9. ASSUME NEW k \in Logged
        PROVE  SafeBar'[k] = Store!Kept(k, c)
    <3>1. /\ Store!Boundary(c) = Boundary(c)
          /\ \A t : Store!BucketOf(t) = BucketOf(t)
      BY DEF Store!Boundary, Boundary, Store!BucketOf, BucketOf
    <3>2. LogBar[k] = {p \in PollNo : \E h \in BaseHome(k) : chunks[h][p] > 0}
      BY <2>3 DEF SafeBar
    <3>3. SafeBar'[k] = {p \in PollNo : \E h \in BaseHome(k)' : chunks'[h][p] > 0}
      BY DEF SafeBar
    <3>4. \A p \in LogBar[k] : p \in DOMAIN polls
      BY <2>2, <3>2, HomesOf
    <3>5. CASE k = NoKey
      <4>1. BaseHome(k) = {Hardware} /\ BaseHome(k)' = {Hardware}
        BY <3>5 DEF BaseHome
      <4>2. \A p \in DOMAIN polls : Expired(Hardware, p, c) <=> polls[p].ts < c
        BY DEF Expired
      <4>3. \A p \in DOMAIN polls : polls[p].ts \in Int /\ c \in Int
        <5>1. \A p \in DOMAIN polls : polls[p] \in Reports
          BY DEF StoreInv
        <5>2. c \in Int
          BY <1>3, StatsDbAssumption
        <5>3. \A r \in Reports : r.ts \in Times
          BY DEF Reports
        <5>4. Times \subseteq Int
          BY StatsDbAssumption
        <5> QED BY <5>1, <5>2, <5>3, <5>4
      <4>4. SafeBar'[k] = {p \in LogBar[k] : polls[p].ts >= c}
        BY <2>2, <3>2, <3>3, <3>4, <4>1, <4>2, <4>3, HomesAreApart
      <4> QED BY <3>5, <4>4 DEF Store!Kept
    <3>6. CASE k # NoKey /\ HeardBar[k] < Boundary(c)
      <4>1. k \in Keys /\ BaseHome(k)' = {}
        BY <2>6, <3>6 DEF Logged
      <4>2. SafeBar'[k] = {}
        BY <3>3, <4>1
      <4> QED BY <3>1, <3>6, <4>2 DEF Store!Kept
    <3>7. CASE k # NoKey /\ ~(HeardBar[k] < Boundary(c))
      <4>1. k \in Keys /\ BaseHome(k)' = BaseHome(k) /\ BaseHome(k) \subseteq Ids
        BY <2>6, <3>7, HomesOf DEF Logged
      <4>2. \A h \in BaseHome(k), p \in DOMAIN polls :
              Expired(h, p, c) <=> ~(BucketOf(polls[p].ts) >= BucketOf(c))
        BY <2>8, <4>1, HomesAreApart DEF Expired
      <4>3. SafeBar'[k] = {p \in LogBar[k] : BucketOf(polls[p].ts) >= BucketOf(c)}
        BY <2>2, <3>2, <3>3, <3>4, <4>1, <4>2, HomesAreApart
      <4> QED BY <3>1, <3>7, <4>3 DEF Store!Kept
    <3> QED BY <3>5, <3>6, <3>7
  <2>10. LogBar' = [k \in DOMAIN LogBar |-> Store!Kept(k, c)]
    <3>1. DOMAIN LogBar = Logged /\ LogBar' = [k \in Logged |-> SafeBar'[k]]
      BY <2>3 DEF LogBar, SafeBar
    <3> QED BY <2>9, <3>1
  <2> QED BY <1>1, <1>3, <2>3, <2>7, <2>10 DEF Store!Next, Store!Prune
<1> QED BY <1>4, <1>5

LEMMA ReportFits ==
  ASSUME NEW r \in Reports, r.instance = NoGroup <=> r.keys = {}
  PROVE  r \in Store!Reports /\ r = [instance |-> r.instance, ts |-> r.ts, keys |-> r.keys]
<1>1. r = [instance |-> r.instance, ts |-> r.ts, keys |-> r.keys] /\ r.ts \in Times
      /\ r.keys \in SUBSET Keys /\ (\A k \in r.keys : k.instance = r.instance)
      /\ r.instance \in Instances \cup {NoGroup}
  BY DEF Reports
<1>2. CASE r.keys = {}
  BY <1>1, <1>2 DEF Store!Reports
<1>3. CASE r.keys # {}
  BY <1>1, <1>3 DEF Store!Reports
<1> QED BY <1>1, <1>2, <1>3

LEMMA InsertFailsMaps ==
  ASSUME WholeInserts, StoreInv, WholeReport, ProgressInv, InsertFails
  PROVE  [Store!Next]_(Store!vars)
<1>1. /\ Inserting /\ busy.report.keys # {} /\ ~Inserting'
      /\ polls' = Append(polls, [busy.report EXCEPT !.keys = {}])
  BY DEF InsertFails, Inserting, Idle
<1>2. busy.report \in Store!Reports
  BY <1>1, InsertFacts, ReportFits DEF InsertSound, WholeReport
<1>3. /\ held.seen = BaseHeld.seen /\ held.samples = BaseHeld.samples
      /\ UNCHANGED <<chunks, held>> /\ BaseTable' = BaseTable
  BY InsertFailsProgress
<1>4. BaseHeld' = held'
  BY <1>1 DEF BaseHeld, Inserting
<1>5. LogBar' = LogBar /\ SafeBar' = SafeBar /\ HeardBar' = HeardBar
  BY <1>3, <1>4, SameBase
<1>6. Store!Refuse(busy.report)
  BY <1>1, <1>5 DEF Store!Refuse
<1> QED BY <1>2, <1>6 DEF Store!Next
\* The samples of a poll that has arrived, by home.
LEMMA CommitFacts ==
  ASSUME StoreInv, WholeReport, ProgressInv, Commit, NEW r, r = busy.report
  PROVE  /\ Inserting /\ InsertProgress /\ InsertSound /\ Done = r.keys
         /\ polls' = Append(polls, r) /\ UNCHANGED <<chunks, table>>
         /\ BaseTable = busy.before.table /\ BaseHeld = busy.before.held
         /\ BaseTable' = table /\ BaseHeld' = held' /\ held'.seen = held.seen
         /\ r \in Reports /\ r \in Store!Reports /\ Current \in PollNo /\ Current = Len(polls) + 1
         /\ \A h \in Homes, p \in PollNo :
              held'.samples[h][p] =
                IF p = Current /\ ((h \in Ids /\ table[h].key \in r.keys) \/ (h = Hardware /\ r.keys = {}))
                  THEN 1 ELSE BaseHeld.samples[h][p]
         /\ \A h \in Homes : chunks[h][Current] = 0 /\ BaseHeld.samples[h][Current] = 0
<1>1. /\ Inserting /\ busy.todo = {} /\ busy' = Idle /\ UNCHANGED <<table, chunks>>
      /\ held' = Counted(held, busy.report, Current) /\ polls' = Append(polls, r)
  BY DEF Commit, Inserting
<1>2. /\ InsertProgress /\ InsertSound /\ r \in Reports
      /\ Len(polls) \in Nat /\ Current \in PollNo /\ Current = Len(polls) + 1
  BY <1>1, InsertFacts DEF ProgressInv, InsertSound
<1>3. Done = r.keys
  BY <1>1 DEF Done
<1>4. BaseTable = busy.before.table /\ BaseHeld = busy.before.held /\ BaseTable' = table /\ BaseHeld' = held'
  BY <1>1 DEF BaseTable, BaseHeld, Inserting, Idle
<1>5. r.instance = NoGroup <=> r.keys = {}
  BY <1>1 DEF WholeReport
<1>6. HeldShape(held)
  BY DEF StoreInv
<1>7. /\ held'.seen = held.seen
      /\ \A h \in Homes, p \in PollNo :
           held'.samples[h][p] = IF h = Hardware /\ p = Current /\ r.keys = {} THEN 1
                                 ELSE held.samples[h][p]
  <2>1. CASE r.keys = {}
    <3>1. held' = NoteBucket([held EXCEPT !.samples[Hardware][Current] = 1, !.rows = @ + 1], r.ts)
      BY <1>1, <1>5, <2>1 DEF Counted
    <3>2. held'.seen = held.seen /\ held'.samples = [held.samples EXCEPT ![Hardware][Current] = 1]
      BY <1>6, <3>1 DEF NoteBucket, HeldShape
    <3> QED BY <1>2, <1>6, <2>1, <3>2, HomesAreApart DEF HeldShape, Samples
  <2>2. CASE r.keys # {}
    <3>1. held' = NoteBucket([held EXCEPT !.rows = @ + Cardinality(r.keys), !.polls[r.instance] = Current], r.ts)
      BY <1>1, <1>5, <2>2 DEF Counted
    <3>2. held'.seen = held.seen /\ held'.samples = held.samples
      BY <1>6, <3>1 DEF NoteBucket, HeldShape
    <3> QED BY <2>2, <3>2
  <2> QED BY <2>1, <2>2
<1>8. ASSUME NEW h \in Homes, NEW p \in PollNo
      PROVE  held'.samples[h][p] =
                IF p = Current /\ ((h \in Ids /\ table[h].key \in r.keys) \/ (h = Hardware /\ r.keys = {}))
                  THEN 1 ELSE BaseHeld.samples[h][p]
  BY <1>2, <1>3, <1>4, <1>7, HomesAreApart DEF InsertProgress
<1>9. ASSUME NEW h \in Homes
      PROVE  chunks[h][Current] = 0 /\ BaseHeld.samples[h][Current] = 0
  <2>1. Current > Len(polls)
    BY <1>2
  <2> QED BY <1>2, <1>4, <2>1 DEF InsertProgress, StoreInv, Unarrived
<1>10. r \in Store!Reports
  BY <1>2, <1>5, ReportFits
<1> QED BY <1>1, <1>2, <1>3, <1>4, <1>7, <1>8, <1>9, <1>10

LEMMA CommitMaps ==
  ASSUME StoreInv, StoreInv', WholeReport, ProgressInv, Commit
  PROVE  [Store!Next]_(Store!vars)
<1>0. PICK r, old : r = busy.report /\ old = busy.before.table
  OBVIOUS
<1> DEFINE heirs == {n \in r.keys : \E id \in Ids : table[id].key = n /\ old[id].key # n /\ old[id].key # NoKey}
           RowOf(n) == CHOOSE id \in Ids : table[id].key = n
           from == [n \in heirs |-> old[RowOf(n)].key]
<1>1. /\ Inserting /\ InsertProgress /\ InsertSound /\ Done = r.keys
      /\ polls' = Append(polls, r) /\ UNCHANGED <<chunks, table>>
      /\ BaseTable = old /\ BaseHeld = busy.before.held
      /\ BaseTable' = table /\ BaseHeld' = held' /\ held'.seen = held.seen
      /\ r \in Reports /\ r \in Store!Reports /\ Current \in PollNo /\ Current = Len(polls) + 1
  BY <1>0, CommitFacts
<1>2. /\ \A h \in Homes, p \in PollNo :
           held'.samples[h][p] =
             IF p = Current /\ ((h \in Ids /\ table[h].key \in r.keys) \/ (h = Hardware /\ r.keys = {}))
               THEN 1 ELSE BaseHeld.samples[h][p]
      /\ \A h \in Homes : chunks[h][Current] = 0 /\ BaseHeld.samples[h][Current] = 0
  BY <1>0, CommitFacts
<1>3. /\ old \in [Ids -> RowType] /\ table \in [Ids -> RowType]
      /\ \A i, j \in Ids : old[i].key = old[j].key /\ old[i].key # NoKey => i = j
      /\ \A i, j \in Ids : table[i].key = table[j].key /\ table[i].key # NoKey => i = j
      /\ r.keys \subseteq Keys /\ NoKey \notin Keys
  BY <1>1, TheTable, NoKeyIsNone DEF BaseSound, StoreInv, TableSound, Reports
<1>4. \A id \in Ids : table[id].key # old[id].key =>
        /\ table[id].key \in r.keys
        /\ \A j \in Ids : old[j].key # table[id].key
        /\ old[id].key = NoKey => id >= busy.before.nextId
        /\ old[id].key # NoKey =>
             /\ old[id].key \notin r.keys
             /\ Alike(old[id].key, table[id].key) /\ old[id].key.group # NoGroup
             /\ \A j \in Ids \ {id} :
                  old[j].key # NoKey /\ Alike(old[j].key, old[id].key) => old[j].key \in r.keys
  BY <1>0, <1>1 DEF InsertProgress, Taken
<1>5. \A k \in r.keys : \E id \in Ids : table[id].key = k
  BY <1>1 DEF InsertProgress
<1>6. ASSUME NEW n \in heirs
      PROVE  \E id \in Ids : /\ table[id].key = n /\ old[id].key # n /\ old[id].key \in Keys
                             /\ from[n] = old[id].key
  <2>1. PICK id \in Ids : table[id].key = n /\ old[id].key # n /\ old[id].key # NoKey
    OBVIOUS
  <2>2. n \in r.keys
    OBVIOUS
  <2>3. \A j \in Ids : table[j].key = n => j = id
    BY <1>3, <2>1, <2>2
  <2>4. RowOf(n) = id
    BY <2>1, <2>3
  <2>5. old[id].key \in Keys
    BY <1>3, <2>1 DEF RowType
  <2> HIDE DEF RowOf
  <2> QED BY <2>1, <2>4, <2>5
<1>7. heirs \in SUBSET r.keys /\ DOMAIN from = heirs
  OBVIOUS
<1>8. \A n \in r.keys, id \in Ids : table[id].key = n /\ old[id].key # n /\ old[id].key # NoKey => n \in heirs
  OBVIOUS
<1>9. from \in [heirs -> Keys]
  BY <1>6
<1> HIDE DEF heirs, from
<1>10. \A k \in Keys : /\ BaseHome(k) = {id \in Ids : old[id].key = k}
                       /\ BaseHome(k)' = {id \in Ids : table[id].key = k}
  BY <1>1, <1>3 DEF BaseHome
<1>11. BaseHome(NoKey) = {Hardware} /\ BaseHome(NoKey)' = {Hardware}
  BY DEF BaseHome
<1>12. \A k \in Keys : BaseHome(k) = {} => LogBar[k] = {}
  BY DEF LogBar, Logged
<1>13. ASSUME NEW n \in heirs
       PROVE  Store!MayInherit(n, from[n], r.keys)
  <2>1. PICK id \in Ids : /\ table[id].key = n /\ old[id].key # n /\ old[id].key \in Keys
                          /\ from[n] = old[id].key
    BY <1>6
  <2>2. n \in r.keys /\ n \in Keys
    BY <1>3, <1>7
  <2>3. BaseHome(n) = {}
    BY <1>4, <1>10, <2>1, <2>2
  <2>4. /\ from[n] \in Keys \ r.keys /\ Alike(from[n], n) /\ n.group # NoGroup
    BY <1>3, <1>4, <2>1 DEF Alike
  <2>5. ASSUME NEW k \in Keys \ (r.keys \cup {from[n]}), Store!Same(n, k)
        PROVE  LogBar[k] = {}
    <3>1. \A j \in Ids : old[j].key # k
      BY <1>3, <1>4, <2>1, <2>4, <2>5 DEF Store!Same, Alike
    <3> QED BY <1>10, <1>12, <3>1
  <2> QED BY <1>12, <2>2, <2>3, <2>4, <2>5 DEF Store!MayInherit, Store!Same, Alike
<1>14. ASSUME NEW m \in heirs, NEW n \in heirs, from[m] = from[n]
       PROVE  m = n
  <2>1. PICK i \in Ids : table[i].key = m /\ old[i].key \in Keys /\ from[m] = old[i].key
    BY <1>6
  <2>2. PICK j \in Ids : table[j].key = n /\ old[j].key \in Keys /\ from[n] = old[j].key
    BY <1>6
  <2> QED BY <1>3, <1>14, <2>1, <2>2
<1>15. ASSUME NEW k \in heirs
       PROVE  BaseHome(k)' = BaseHome(from[k])
  <2>1. PICK id \in Ids : /\ table[id].key = k /\ old[id].key # k /\ old[id].key \in Keys
                          /\ from[k] = old[id].key
    BY <1>6
  <2>2. k \in Keys /\ from[k] \in Keys
    BY <1>3, <1>7, <2>1
  <2>3. \A j \in Ids : table[j].key = k <=> j = id
    BY <1>3, <2>1, <2>2
  <2>4. \A j \in Ids : old[j].key = from[k] <=> j = id
    BY <1>3, <2>1, <2>2
  <2>5. BaseHome(k)' = {id} /\ BaseHome(from[k]) = {id}
    BY <1>10, <2>2, <2>3, <2>4
  <2> QED BY <2>5
<1>16. ASSUME NEW k \in Keys, NEW n \in heirs, from[n] = k
       PROVE  k \notin heirs /\ k \notin r.keys /\ BaseHome(k)' = {}
  <2>1. PICK id \in Ids : /\ table[id].key = n /\ old[id].key # n /\ old[id].key \in Keys
                          /\ from[n] = old[id].key
    BY <1>6
  <2>2. old[id].key = k /\ k \notin r.keys
    BY <1>3, <1>4, <1>16, <2>1
  <2>3. \A j \in Ids : table[j].key # k
    <3> SUFFICES ASSUME NEW j \in Ids, table[j].key = k PROVE FALSE
      OBVIOUS
    <3>1. old[j].key = k
      BY <1>4, <2>2
    <3>2. j = id
      BY <1>3, <2>2, <3>1
    <3> QED BY <2>1, <2>2, <3>2
  <2> QED BY <1>7, <1>10, <2>2, <2>3
<1>17. ASSUME NEW k \in Keys \ heirs, ~\E n \in heirs : from[n] = k
       PROVE  \/ BaseHome(k)' = BaseHome(k)
              \/ /\ BaseHome(k) = {} /\ k \in r.keys
                 /\ \A id \in BaseHome(k)' : id >= busy.before.nextId
  <2>1. \A id \in Ids : old[id].key = k => table[id].key = k
    <3> SUFFICES ASSUME NEW id \in Ids, old[id].key = k, table[id].key # k PROVE FALSE
      OBVIOUS
    <3>1. table[id].key \in r.keys /\ old[id].key # NoKey
      BY <1>3, <1>4
    <3>2. table[id].key \in heirs
      BY <1>8, <3>1
    <3>3. PICK j \in Ids : table[j].key = table[id].key /\ from[table[id].key] = old[j].key
      BY <1>6, <3>2
    <3>4. j = id
      BY <1>3, <3>1, <3>3
    <3> QED BY <1>17, <3>2, <3>3, <3>4
  <2>2. ASSUME NEW id \in Ids, table[id].key = k, old[id].key # k
        PROVE  id >= busy.before.nextId /\ k \in r.keys /\ \A j \in Ids : old[j].key # k
    BY <1>4, <1>8, <2>2
  <2>3. CASE \E id \in Ids : table[id].key = k /\ old[id].key # k
    <3>1. k \in r.keys /\ \A j \in Ids : old[j].key # k
      BY <2>2, <2>3
    <3> QED BY <1>10, <2>2, <3>1
  <2>4. CASE ~\E id \in Ids : table[id].key = k /\ old[id].key # k
    BY <1>10, <2>1, <2>4
  <2> QED BY <2>3, <2>4
<1>18. ASSUME NEW f \in [Homes -> SUBSET PollNo],
              \A id \in Ids : id >= busy.before.nextId => f[id] = {}
       PROVE  [k \in Logged |-> {p \in PollNo : \E h \in BaseHome(k)' : p \in f[h]}]
                = Store!Moved([k \in Logged |-> {p \in PollNo : \E h \in BaseHome(k) : p \in f[h]}], from)
  <2> DEFINE Seen(homes) == {p \in PollNo : \E h \in homes : p \in f[h]}
             l == [k \in Logged |-> Seen(BaseHome(k))]
  <2>1. DOMAIN l = Logged /\ Keys \subseteq Logged /\ heirs \subseteq Keys /\ Seen({}) = {}
    BY <1>3, <1>7 DEF Logged
  <2>2. \A k \in Logged : l[k] = Seen(BaseHome(k))
    OBVIOUS
  <2>3. ASSUME NEW k \in Logged
        PROVE  Seen(BaseHome(k)') = IF k \in heirs THEN l[from[k]]
                                    ELSE IF \E n \in heirs : from[n] = k THEN {} ELSE l[k]
    <3>1. CASE k \in heirs
      <4>1. from[k] \in Logged /\ BaseHome(k)' = BaseHome(from[k])
        BY <1>9, <1>15, <2>1, <3>1
      <4> QED BY <2>2, <3>1, <4>1
    <3>2. CASE k = NoKey
      <4>1. k \notin heirs /\ ~\E n \in heirs : from[n] = k
        BY <1>3, <1>9, <2>1, <3>2
      <4>2. BaseHome(k)' = BaseHome(k)
        BY <1>11, <3>2
      <4> QED BY <2>2, <4>1, <4>2
    <3>3. CASE k \in Keys \ heirs /\ \E n \in heirs : from[n] = k
      <4>1. BaseHome(k)' = {}
        BY <1>16, <3>3
      <4> QED BY <2>1, <3>3, <4>1
    <3>4. CASE k \in Keys \ heirs /\ ~\E n \in heirs : from[n] = k
      <4>1. CASE BaseHome(k)' = BaseHome(k)
        BY <2>2, <3>4, <4>1
      <4>2. CASE BaseHome(k) = {} /\ \A id \in BaseHome(k)' : id >= busy.before.nextId
        <5>1. \A h \in BaseHome(k)' : f[h] = {}
          BY <1>10, <1>18, <3>4, <4>2
        <5>2. Seen(BaseHome(k)') = {} /\ l[k] = {}
          BY <2>1, <2>2, <4>2, <5>1
        <5> QED BY <3>4, <5>2
      <4> QED BY <1>17, <3>4, <4>1, <4>2
    <3> QED BY <3>1, <3>2, <3>3, <3>4 DEF Logged
  <2>4. Store!Moved(l, from) = [k \in Logged |-> IF k \in heirs THEN l[from[k]]
                                ELSE IF \E n \in heirs : from[n] = k THEN {} ELSE l[k]]
    BY <1>9, <2>1 DEF Store!Moved
  <2>5. [k \in Logged |-> Seen(BaseHome(k)')] = Store!Moved(l, from)
    <3> HIDE DEF l, Seen
    <3> QED BY <2>3, <2>4
  <2> QED BY <2>5
<1>19. \A id \in Ids, p \in PollNo : id >= busy.before.nextId =>
         chunks[id][p] = 0 /\ BaseHeld.samples[id][p] = 0
  <2> SUFFICES ASSUME NEW id \in Ids, NEW p \in PollNo, id >= busy.before.nextId
               PROVE  chunks[id][p] = 0 /\ BaseHeld.samples[id][p] = 0
    OBVIOUS
  <2>1. id \in Homes /\ chunks[id][p] \in Nat /\ id \in Nat /\ busy.before.nextId \in Nat
    BY <1>1, HomesAreApart, SampleTypes DEF InsertSound, TableSound, Ids
  <2>2. ~(chunks[id][p] > 0)
    BY <1>1, <2>1 DEF StoreInv, BeforeSound
  <2>3. BaseHeld.samples[id][p] = 0
    BY <1>1, <2>1 DEF InsertProgress
  <2> QED BY <2>1, <2>2, <2>3
<1>20. SafeBar' = Store!Moved(SafeBar, from)
  <2> DEFINE f == [h \in Homes |-> {p \in PollNo : chunks[h][p] > 0}]
  <2>1. f \in [Homes -> SUBSET PollNo] /\ \A id \in Ids : id >= busy.before.nextId => f[id] = {}
    BY <1>19, HomesAreApart
  <2>2. \A h \in Homes, p \in PollNo : p \in f[h] <=> chunks[h][p] > 0
    OBVIOUS
  <2>3. \A k \in Logged : BaseHome(k) \subseteq Homes /\ BaseHome(k)' \subseteq Homes
    BY HomesAreApart DEF BaseHome
  <2> HIDE DEF f
  <2>4. SafeBar = [k \in Logged |-> {p \in PollNo : \E h \in BaseHome(k) : p \in f[h]}]
    BY <2>2, <2>3 DEF SafeBar
  <2>5. SafeBar' = [k \in Logged |-> {p \in PollNo : \E h \in BaseHome(k)' : p \in f[h]}]
    BY <1>1, <2>2, <2>3 DEF SafeBar
  <2> QED BY <1>18, <2>1, <2>4, <2>5
<1> DEFINE f == [h \in Homes |-> {p \in PollNo : chunks[h][p] + BaseHeld.samples[h][p] > 0}]
           moved == Store!Moved(LogBar, from)
<1>21. moved = [k \in Logged |-> {p \in PollNo : \E h \in BaseHome(k)' : p \in f[h]}]
  <2>1. f \in [Homes -> SUBSET PollNo] /\ \A id \in Ids : id >= busy.before.nextId => f[id] = {}
    BY <1>19, HomesAreApart
  <2>2. \A h \in Homes, p \in PollNo : p \in f[h] <=> chunks[h][p] + BaseHeld.samples[h][p] > 0
    OBVIOUS
  <2>3. \A k \in Logged : BaseHome(k) \subseteq Homes
    BY HomesAreApart DEF BaseHome
  <2> HIDE DEF f
  <2>4. LogBar = [k \in Logged |-> {p \in PollNo : \E h \in BaseHome(k) : p \in f[h]}]
    BY <2>2, <2>3 DEF LogBar
  <2> QED BY <1>18, <2>1, <2>4
<1>22. \A h \in Homes : /\ \A p \in PollNo : p \in f[h] <=> chunks[h][p] + BaseHeld.samples[h][p] > 0
                        /\ Current \notin f[h]
  BY <1>2
<1> HIDE DEF f, moved
<1>23. ASSUME NEW k \in Logged
       PROVE  LogBar'[k] = moved[k] \cup
                (IF k \in r.keys \/ (k = NoKey /\ r.keys = {}) THEN {Len(polls) + 1} ELSE {})
  <2>1. LogBar'[k] = {p \in PollNo : \E h \in BaseHome(k)' : chunks[h][p] + held'.samples[h][p] > 0}
    BY <1>1 DEF LogBar
  <2>2. moved[k] = {p \in PollNo : \E h \in BaseHome(k)' : p \in f[h]}
    BY <1>21
  <2>3. BaseHome(k)' \subseteq Homes
    BY HomesAreApart DEF BaseHome
  <2>4. \A p \in PollNo : p # Current => (p \in LogBar'[k] <=> p \in moved[k])
    BY <1>2, <1>22, <2>1, <2>2, <2>3
  <2>5. Current \notin moved[k]
    BY <1>22, <2>2, <2>3
  <2>6. Current \in LogBar'[k] <=> k \in r.keys \/ (k = NoKey /\ r.keys = {})
    <3>1. Current \in LogBar'[k] <=>
            \E h \in BaseHome(k)' : (h \in Ids /\ table[h].key \in r.keys) \/ (h = Hardware /\ r.keys = {})
      BY <1>1, <1>2, <2>1, <2>3
    <3>2. CASE k = NoKey
      BY <1>3, <1>11, <3>1, <3>2, HomesAreApart
    <3>3. CASE k \in Keys
      BY <1>3, <1>5, <1>10, <3>1, <3>3, HomesAreApart
    <3> QED BY <3>2, <3>3 DEF Logged
  <2>7. LogBar'[k] \subseteq PollNo /\ moved[k] \subseteq PollNo
    BY <2>1, <2>2
  <2> QED BY <1>1, <2>4, <2>5, <2>6, <2>7
<1>24. LogBar' = [k \in DOMAIN LogBar |-> Store!Moved(LogBar, from)[k] \cup
                   (IF k \in r.keys \/ (k = NoKey /\ r.keys = {}) THEN {Len(polls) + 1} ELSE {})]
  <2>1. DOMAIN LogBar = Logged /\ LogBar' = [k \in Logged |-> LogBar'[k]]
    BY DEF LogBar
  <2> QED BY <1>23, <2>1 DEF moved
<1>25. ASSUME NEW k \in Keys
       PROVE  HeardBar'[k] = IF k \in r.keys THEN r.ts
                             ELSE IF \E n \in heirs : from[n] = k THEN 0 ELSE HeardBar[k]
  <2>1. CASE k \in r.keys
    <3>1. PICK id \in Ids : table[id].key = k
      BY <1>5, <2>1
    <3>2. held.seen[id] = r.ts /\ r.ts # 0
      <4>1. r.ts \in Times /\ 0 \notin Times
        BY <1>1, StatsDbAssumption DEF Reports
      <4> QED BY <1>0, <1>1, <2>1, <3>1, <4>1 DEF InsertProgress
    <3>3. HeardBar'[k] = LastHeard(id)'
      BY <1>1, <3>1, RowsNext DEF HeardSound
    <3> QED BY <1>1, <2>1, <3>2, <3>3 DEF LastHeard
  <2>2. CASE k \notin r.keys /\ \E n \in heirs : from[n] = k
    <3>1. BaseHome(k)' = {}
      BY <1>16, <2>2
    <3>2. \A id \in Ids : table[id].key # k
      BY <1>10, <3>1
    <3> QED BY <1>1, <2>2, <3>2, RowsNext DEF HeardSound
  <2>3. CASE k \notin r.keys /\ ~\E n \in heirs : from[n] = k
    <3>1. BaseHome(k)' = BaseHome(k)
      BY <1>7, <1>17, <2>3
    <3>2. CASE BaseHome(k) = {}
      <4>1. \A id \in Ids : table[id].key # k /\ old[id].key # k
        BY <1>10, <3>1, <3>2
      <4> QED BY <1>1, <2>3, <4>1, OneRow, RowsNext DEF HeardSound
    <3>3. CASE BaseHome(k) # {}
      <4>1. PICK id \in Ids : old[id].key = k /\ table[id].key = k
        BY <1>10, <3>1, <3>3
      <4>2. HeardBar'[k] = LastHeard(id)' /\ HeardBar[k] = LastHeard(id)
        BY <1>1, <4>1, OneRow, RowsNext DEF HeardSound
      <4>3. held.seen[id] = BaseHeld.seen[id] /\ table[id].lastSeen = old[id].lastSeen
        BY <1>0, <1>1, <1>3, <2>3, <4>1 DEF InsertProgress
      <4>4. LastHeard(id)' = LastHeard(id)
        BY <1>1, <4>3 DEF LastHeard
      <4> QED BY <2>3, <4>2, <4>4
    <3> QED BY <3>2, <3>3
  <2> QED BY <2>1, <2>2, <2>3
<1>26. HeardBar' = [k \in Keys |-> IF k \in r.keys THEN r.ts
                                   ELSE IF \E n \in heirs : from[n] = k THEN 0 ELSE HeardBar[k]]
  <2>1. HeardBar' = [k \in Keys |-> HeardBar'[k]]
    BY DEF HeardBar
  <2> QED BY <1>25, <2>1
<1>27. Store!Report(r)
  BY <1>1, <1>7, <1>9, <1>13, <1>14, <1>20, <1>24, <1>26 DEF Store!Report
<1> QED BY <1>1, <1>27 DEF Store!Next
LEMMA InitMaps == Init => Store!Init
<1> SUFFICES ASSUME Init PROVE Store!Init
  OBVIOUS
<1>1. BaseTable = table /\ BaseHeld = held /\ polls = <<>>
  BY DEF Init, BaseTable, BaseHeld, Idle
<1>2. \A h \in Homes, p \in PollNo : chunks[h][p] = 0 /\ held.samples[h][p] = 0
  BY DEF Init, Emptied, NoSamples
<1>3. \A id \in Ids : table[id].key = NoKey
  BY DEF Init, NoRow
<1>4. LogBar = [k \in Logged |-> {}] /\ SafeBar = [k \in Logged |-> {}]
  BY <1>1, <1>2, HomesOf DEF LogBar, SafeBar
<1>5. HeardBar = [k \in Keys |-> 0]
  BY <1>1, <1>3, NoKeyIsNone, InitInv, OneRow DEF HeardSound, HeardBar
<1> QED BY <1>1, <1>4, <1>5 DEF Store!Init, Logged

LEMMA BeginMaps ==
  ASSUME StoreInv, StoreInv', NEW i, NEW ts, NEW ks, Begin(i, ts, ks)
  PROVE  [Store!Next]_(Store!vars)
<1>1. /\ busy = Idle /\ UNCHANGED <<polls, table>>
      /\ busy'.op = "insert" /\ busy'.before.table = table /\ busy'.before.held = held'
      /\ (FlushDone \/ FlushFails) \/ UNCHANGED <<chunks, lastPoll, held>>
  BY DEF Begin
<1>2. /\ ~Inserting /\ BaseTable = table /\ BaseHeld = held
      /\ BaseTable' = table /\ BaseHeld' = held'
  BY <1>1 DEF Inserting, Idle, BaseTable, BaseHeld
<1>3. CASE UNCHANGED <<chunks, lastPoll, held>>
  BY <1>1, <1>2, <1>3, SameBase DEF Store!vars
<1> QED BY <1>1, <1>2, <1>3, FlushMaps

LEMMA FlushStepMaps ==
  ASSUME StoreInv, StoreInv', busy = Idle, busy'.op # "insert", UNCHANGED <<polls, table>>,
         FlushDone \/ FlushFails
  PROVE  [Store!Next]_(Store!vars)
<1>1. ~Inserting /\ BaseTable' = table /\ BaseHeld' = held'
  BY DEF Inserting, Idle, BaseTable, BaseHeld
<1> QED BY <1>1, FlushMaps

\* Every step of the database is one of the store, or changes nothing that readers see.
LEMMA NextMaps ==
  ASSUME WholeInserts, ArrivalInv, ProgressInv, StoreInv', Next
  PROVE  [Store!Next]_(Store!vars)
<1> USE DEF ArrivalInv
<1>1. ASSUME NEW ts \in Times, NEW i \in Instances, NEW ks \in Reported, InsertBatch(i, ts, ks)
      PROVE  [Store!Next]_(Store!vars)
  BY <1>1, BeginMaps DEF InsertBatch
<1>2. ASSUME NEW ts \in Times, InsertHardware(ts)
      PROVE  [Store!Next]_(Store!vars)
  BY <1>2, BeginMaps DEF InsertHardware
<1>3. ASSUME NEW ts \in Times, FlushIfDue(ts)
      PROVE  [Store!Next]_(Store!vars)
  BY <1>3, FlushStepMaps DEF FlushIfDue, Idle
<1>4. ASSUME NEW op \in {"flush", "prune"}, NEW c, BeginFlush(op, c)
      PROVE  [Store!Next]_(Store!vars)
  <2>1. busy'.op # "insert"
    BY <1>4 DEF BeginFlush, Idle
  <2> QED BY <1>4, <2>1, FlushStepMaps DEF BeginFlush
<1>5. ASSUME NEW k \in Keys, Intern(k)
      PROVE  [Store!Next]_(Store!vars)
  BY <1>5, InternMaps
<1>6. ASSUME NEW c \in Cutoffs, Prune(c)
      PROVE  [Store!Next]_(Store!vars)
  BY <1>4, <1>6 DEF Prune
<1>7. CASE Flush
  BY <1>4, <1>7 DEF Flush
<1> QED BY <1>1, <1>2, <1>3, <1>5, <1>6, <1>7, CommitMaps, InsertFailsMaps, WriteSeenMaps,
           DeleteOldMaps, CrashMaps DEF Next

\* What an insert has done so far, and what is held, are as they should be.
THEOREM ProgressIsSound ==
  ASSUME WholeInserts
  PROVE  Spec => []ProgressInv
<1>1. Init => ProgressInv
  BY InitProgress
<1>2. ArrivalInv /\ StoreInv' /\ ProgressInv /\ [Next]_vars => ProgressInv'
  <2>1. ASSUME ProgressInv, UNCHANGED vars PROVE ProgressInv'
    BY <2>1 DEF vars, ProgressInv, InsertProgress, RowsSound, Flushed, HeldShape, Taken, Done,
                Inserting, Current, BaseHeld
  <2> QED BY <2>1, NextProgress
<1>3. ArrivalInv => StoreInv
  BY DEF ArrivalInv
<1> QED BY <1>1, <1>2, <1>3, ArrivalIsSound, PTL DEF Spec

\* The database is a store that polls enter when they arrive, whole, under the series they
\* report; that hands a series' history on when its channel is relabelled; and that loses
\* only what was not written yet, whichever flushes and prunes fail and whenever it dies.
THEOREM StoreIsImplemented ==
  ASSUME WholeInserts
  PROVE  Spec => ImplementsSampleStore
<1>1. Init => Store!Init
  BY InitMaps
<1>2. ArrivalInv /\ StoreInv' /\ ProgressInv /\ [Next]_vars => [Store!Next]_(Store!vars)
  <2>1. ASSUME UNCHANGED vars PROVE UNCHANGED Store!vars
    <3>1. BaseTable' = BaseTable /\ BaseHeld' = BaseHeld /\ UNCHANGED <<polls, chunks>>
      BY <2>1 DEF vars, BaseTable, BaseHeld
    <3> QED BY <3>1, SameBase DEF Store!vars
  <2> QED BY <2>1, NextMaps
<1>3. ArrivalInv => StoreInv
  BY DEF ArrivalInv
<1> QED BY <1>1, <1>2, <1>3, ArrivalIsSound, ProgressIsSound, PTL DEF Spec, ImplementsSampleStore, Store!Spec

=============================================================================
