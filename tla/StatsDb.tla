------------------------------- MODULE StatsDb -------------------------------
(***************************************************************************)
(* The statistics database (panel/src/stats_db.rs): polls are held in      *)
(* memory, written once per bucket in one transaction, pruned by bucket,   *)
(* and filed under a series id that is interned once, cached, and carried  *)
(* over when a channel is relabelled.                                      *)
(*                                                                         *)
(* Every operation holds the connection's mutex throughout, so operations  *)
(* do not interleave; what can happen between the steps of one is that it  *)
(* fails or that the panel dies.                                           *)
(***************************************************************************)
EXTENDS Integers, Sequences, FiniteSets

CONSTANTS
  Keys,       \* series identities: [instance, group, label]; group is (metric, freq)
  NoGroup,    \* the group of a series without a freq label
  Reported,   \* the sets of series a poll may report
  Times,      \* the seconds at which polls and ticks may happen
  Cutoffs,    \* the seconds before which samples may be pruned
  BucketLen,  \* BUCKET_MS
  MaxPolls,   \* bound: polls and hardware readings in a behaviour
  MaxIds,     \* bound: series rows ever inserted
  MaxHeldRows,\* MAX_HELD_ROWS
  CanFail,    \* the steps that may fail: "flush", "seen", "delete"; "insert", or
              \* only "begin", its first statement
  Crashes     \* whether the panel may die

Instances == {k.instance : k \in Keys}
PollNo == 1..MaxPolls
Ids == 1..MaxIds
NoKey == [instance |-> NoGroup, group |-> NoGroup, label |-> NoGroup]
NoId == 0
Hardware == 0            \* stands for the hardware_samples table among the rows
Homes == Ids \cup {Hardware}

ASSUME StatsDbAssumption ==
  /\ Reported \subseteq (SUBSET Keys) \ {{}}
  /\ Times \subseteq Nat \ {0}
  /\ Cutoffs \subseteq Nat
  /\ BucketLen \in Nat \ {0}
  /\ MaxPolls \in Nat
  /\ MaxIds \in Nat
  /\ MaxHeldRows \in Nat
  /\ \A k \in Keys : k.instance # NoGroup
  /\ \A ks \in Reported : IsFiniteSet(ks)
  /\ Crashes \in BOOLEAN

VARIABLES
  polls,     \* history: what was reported, in order of arrival
  table,     \* series: the row of an id
  nextId,    \* sqlite_sequence (AUTOINCREMENT)
  cache,     \* series_ids
  chunks,    \* sample_chunks and hardware_samples: copies of a poll in a row
  lastPoll,  \* instance_last_poll, by poll number
  held,      \* Held
  busy       \* the operation that holds conn

vars == <<polls, table, nextId, cache, chunks, lastPoll, held, busy>>

Idle == [op |-> "none"]
NoRow == [key |-> NoKey, lastSeen |-> 0]
NoSamples == [h \in Homes |-> [p \in PollNo |-> 0]]
NoSeen == [id \in Ids |-> 0]
NoBucket == -1

\* Held::default(), keeping `seen`.
Emptied(seen) ==
  [bucket |-> NoBucket, samples |-> NoSamples,
   polls |-> [i \in Instances |-> 0], rows |-> 0, seen |-> seen]

BucketOf(ts) == ts \div BucketLen

\* Held::due.
Due(ts) ==
  /\ held.bucket # NoBucket
  /\ BucketOf(ts) > held.bucket \/ BucketOf(ts) < held.bucket - 1

\* Held::note_bucket.
NoteBucket(h, ts) ==
  [h EXCEPT !.bucket = IF @ = NoBucket \/ BucketOf(ts) < @ THEN BucketOf(ts) ELSE @]
-----------------------------------------------------------------------------
Init ==
  /\ polls = <<>>
  /\ table = [id \in Ids |-> NoRow]
  /\ nextId = 1
  /\ cache = [k \in Keys |-> NoId]
  /\ chunks = NoSamples
  /\ lastPoll = [i \in Instances |-> 0]
  /\ held = Emptied(NoSeen)
  /\ busy = Idle

\* write_held: every held run is appended to its chunk.
Written(c) == [h \in Homes |-> [p \in PollNo |-> c[h][p] + held.samples[h][p]]]

\* Mutant: the stored newest poll is inserted but never updated.
NewestInserted(i) == IF lastPoll[i] = 0 THEN held.polls[i] ELSE lastPoll[i]

\* INSERT .. ON CONFLICT DO UPDATE into instance_last_poll.
NewestPoll(i) == IF held.polls[i] # 0 THEN held.polls[i] ELSE lastPoll[i]

\* flush_held succeeds, or had nothing to write.
FlushDone ==
  IF held.rows = 0
    THEN UNCHANGED <<chunks, lastPoll, held>>
    ELSE /\ chunks' = Written(chunks)
         /\ lastPoll' = [i \in Instances |-> NewestPoll(i)]
         /\ held' = Emptied(held.seen)

\* After a failed flush: everything stays held, up to the limit.
HeldAfterFailure ==
  IF held.rows > MaxHeldRows THEN Emptied(held.seen) ELSE held

\* Mutant: what was written before the failure is not rolled back.
FlushFailsHalfway ==
  /\ "flush" \in CanFail
  /\ held.rows > 0
  /\ chunks' = Written(chunks)
  /\ held' = HeldAfterFailure
  /\ UNCHANGED lastPoll

\* flush_held fails: the transaction leaves nothing behind.
FlushFails ==
  /\ "flush" \in CanFail
  /\ held.rows > 0
  /\ held' = HeldAfterFailure
  /\ UNCHANGED <<chunks, lastPoll>>
-----------------------------------------------------------------------------
(* insert_batch and insert_hardware *)

\* The second at which two polls of one instance would coincide is used once.
FreshTime(i, ts) == \A p \in DOMAIN polls : polls[p].instance = i => polls[p].ts # ts

Begin(i, ts, ks) ==
  /\ busy = Idle
  /\ Len(polls) < MaxPolls
  /\ FreshTime(i, ts)
  /\ IF Due(ts) THEN FlushDone \/ FlushFails ELSE UNCHANGED <<chunks, lastPoll, held>>
  /\ busy' = [op |-> "insert", report |-> [instance |-> i, ts |-> ts, keys |-> ks],
              todo |-> ks, before |-> [table |-> table, nextId |-> nextId, held |-> held']]
  /\ UNCHANGED <<polls, table, nextId, cache>>

InsertBatch(i, ts, ks) ==
  /\ \A k \in ks : k.instance = i
  /\ Begin(i, ts, ks)

InsertHardware(ts) == Begin(NoGroup, ts, {})

Current == Len(polls) + 1

Rows(k) == {id \in Ids : table[id].key = k}

\* Mutant: the frequency is not compared.
CandidatesAnyFreq(k) ==
  {id \in Ids : /\ table[id].key.instance = k.instance
                /\ table[id].key \notin busy.report.keys}

\* The series of k's instance and group that this poll does not report.
Candidates(k) ==
  {id \in Ids : /\ table[id].key.instance = k.instance
                /\ table[id].key.group = k.group
                /\ table[id].key \notin busy.report.keys}

\* Hold the sample of the current poll under id.
Hold(k, id) ==
  /\ held' = [held EXCEPT !.samples[id][Current] = @ + 1, !.seen[id] = busy.report.ts]
  /\ busy' = [busy EXCEPT !.todo = @ \ {k}]
  /\ UNCHANGED <<polls, chunks, lastPoll>>

Interning(k) == busy.op = "insert" /\ k \in busy.todo

Cached(k) ==
  /\ Interning(k)
  /\ cache[k] # NoId
  /\ Hold(k, cache[k])
  /\ UNCHANGED <<table, nextId, cache>>

Existing(k) ==
  /\ Interning(k)
  /\ cache[k] = NoId
  /\ \E id \in Rows(k) :
       /\ cache' = [cache EXCEPT ![k] = id]
       /\ Hold(k, id)
  /\ UNCHANGED <<table, nextId>>

\* Exactly one series of that frequency went quiet: its row takes the new labels,
\* and whatever was cached for it is forgotten.
Uncache(id) == [k \in Keys |-> IF cache[k] = id THEN NoId ELSE cache[k]]

Relabel(k) ==
  /\ Interning(k)
  /\ cache[k] = NoId
  /\ Rows(k) = {}
  /\ k.group # NoGroup
  /\ \E id \in Ids :
       /\ Candidates(k) = {id}
       /\ table' = [table EXCEPT ![id].key = k]
       /\ cache' = [Uncache(id) EXCEPT ![k] = id]
       /\ Hold(k, id)
  /\ UNCHANGED nextId

Insert(k) ==
  /\ Interning(k)
  /\ cache[k] = NoId
  /\ Rows(k) = {}
  /\ k.group = NoGroup \/ Cardinality(Candidates(k)) # 1
  /\ nextId \in Ids
  /\ table' = [table EXCEPT ![nextId] = [key |-> k, lastSeen |-> busy.report.ts]]
  /\ nextId' = nextId + 1
  /\ cache' = [cache EXCEPT ![k] = nextId]
  /\ Hold(k, nextId)

\* A poll counts as held: its rows, its bucket and the instance's newest poll.
Counted(h, r, p) ==
  NoteBucket(IF r.instance = NoGroup
               THEN [h EXCEPT !.samples[Hardware][p] = 1, !.rows = @ + 1]
               ELSE [h EXCEPT !.rows = @ + Cardinality(r.keys), !.polls[r.instance] = p],
             r.ts)

Commit ==
  /\ busy.op = "insert"
  /\ busy.todo = {}
  /\ held' = Counted(held, busy.report, Current)
  /\ polls' = Append(polls, busy.report)
  /\ busy' = Idle
  /\ UNCHANGED <<table, nextId, cache, chunks, lastPoll>>

\* A statement or the commit fails: the series rows and their ids are rolled
\* back; the cache and what was pushed into `held` so far are not.
InsertFails ==
  /\ busy.op = "insert"
  /\ busy.report.keys # {}
  /\ \/ "insert" \in CanFail
     \/ "begin" \in CanFail /\ busy.todo = busy.report.keys     \* no series looked up yet
  /\ table' = busy.before.table
  /\ nextId' = busy.before.nextId
  /\ polls' = Append(polls, [busy.report EXCEPT !.keys = {}])
  /\ busy' = Idle
  /\ UNCHANGED <<cache, chunks, lastPoll, held>>
-----------------------------------------------------------------------------
(* flush, flush_if_due and prune_before *)

FlushIfDue(now) ==
  /\ busy = Idle
  /\ Due(now)
  /\ FlushDone \/ FlushFails
  /\ UNCHANGED <<polls, table, nextId, cache, busy>>

\* `flush` and `prune_before` both write everything held first, due or not.
BeginFlush(op, cutoff) ==
  /\ busy = Idle
  /\ \/ FlushDone /\ busy' = [op |-> op, at |-> "seen", cutoff |-> cutoff]
     \/ FlushFails /\ UNCHANGED busy
  /\ UNCHANGED <<polls, table, nextId, cache>>

Flush == BeginFlush("flush", 0)
Prune(cutoff) == BeginFlush("prune", cutoff)

\* write_seen.
WriteSeen ==
  /\ busy.op \in {"flush", "prune"}
  /\ busy.at = "seen"
  /\ \/ /\ table' = [id \in Ids |-> IF held.seen[id] # 0 /\ table[id] # NoRow
                                      THEN [table[id] EXCEPT !.lastSeen = held.seen[id]]
                                      ELSE table[id]]
        /\ held' = [held EXCEPT !.seen = NoSeen]
        /\ busy' = IF busy.op = "prune" THEN [busy EXCEPT !.at = "delete"] ELSE Idle
     \/ /\ "seen" \in CanFail
        /\ held.seen # NoSeen
        /\ busy' = Idle
        /\ UNCHANGED <<table, held>>
  /\ UNCHANGED <<polls, nextId, cache, chunks, lastPoll>>

Boundary(cutoff) == BucketOf(cutoff) * BucketLen

\* Whole buckets of samples go, hardware rows by the second.
Expired(h, p, cutoff) ==
  /\ p \in DOMAIN polls
  /\ polls[p].ts < (IF h = Hardware THEN cutoff ELSE Boundary(cutoff))

Forgotten(id, cutoff) == table[id] # NoRow /\ table[id].lastSeen < Boundary(cutoff)

\* Mutant: ids of deleted series stay cached.
CacheKept(gone) == cache

\* What DeleteOld leaves of the cache: nothing once a series is gone.
CacheAfter(gone) == IF gone # {} THEN [k \in Keys |-> NoId] ELSE cache

DeleteOld ==
  /\ busy.op = "prune"
  /\ busy.at = "delete"
  /\ LET c == busy.cutoff
         gone == {id \in Ids : Forgotten(id, c)}
     IN  \/ /\ chunks' = [h \in Homes |-> [p \in PollNo |->
                            IF Expired(h, p, c) THEN 0 ELSE chunks[h][p]]]
            /\ lastPoll' = [i \in Instances |->
                              IF lastPoll[i] # 0 /\ polls[lastPoll[i]].ts < Boundary(c)
                                THEN 0 ELSE lastPoll[i]]
            /\ table' = [id \in Ids |-> IF id \in gone THEN NoRow ELSE table[id]]
            /\ cache' = CacheAfter(gone)
         \/ /\ "delete" \in CanFail
            /\ UNCHANGED <<chunks, lastPoll, table, cache>>
  /\ busy' = Idle
  /\ UNCHANGED <<polls, nextId, held>>

\* The panel dies and starts again: memory is gone, an open transaction is
\* rolled back.
Crash ==
  /\ Crashes
  /\ held' = Emptied(NoSeen)
  /\ cache' = [k \in Keys |-> NoId]
  /\ table' = IF busy.op = "insert" THEN busy.before.table ELSE table
  /\ nextId' = IF busy.op = "insert" THEN busy.before.nextId ELSE nextId
  /\ busy' = Idle
  /\ UNCHANGED <<polls, chunks, lastPoll>>
-----------------------------------------------------------------------------
Intern(k) == Cached(k) \/ Existing(k) \/ Relabel(k) \/ Insert(k)

Next ==
  \/ \E ts \in Times :
       \/ \E i \in Instances, ks \in Reported : InsertBatch(i, ts, ks)
       \/ InsertHardware(ts)
       \/ FlushIfDue(ts)
  \/ \E k \in Keys : Intern(k)
  \/ Commit \/ InsertFails
  \/ \E c \in Cutoffs : Prune(c)
  \/ Flush \/ WriteSeen \/ DeleteOld
  \/ Crash

Spec == Init /\ [][Next]_vars
-----------------------------------------------------------------------------
(* Properties *)

Reports ==
  {r \in [instance : Instances \cup {NoGroup}, ts : Times, keys : SUBSET Keys] :
     \A k \in r.keys : k.instance = r.instance}

Samples == [Homes -> [PollNo -> Nat]]
RowType == [key : Keys \cup {NoKey}, lastSeen : Times \cup {0}]
HeldType ==
  [bucket : Nat \cup {NoBucket}, samples : Samples, polls : [Instances -> PollNo \cup {0}],
   rows : Nat, seen : [Ids -> Times \cup {0}]]
BusyType ==
  {Idle}
    \cup [op : {"insert"}, report : Reports, todo : SUBSET Keys,
          before : [table : [Ids -> RowType], nextId : 1..(MaxIds + 1), held : HeldType]]
    \cup [op : {"flush", "prune"}, at : {"seen", "delete"}, cutoff : Cutoffs \cup {0}]

\* The variables have the types of the structures they stand for.
TypeOK ==
  /\ polls \in Seq(Reports) /\ Len(polls) <= MaxPolls
  /\ table \in [Ids -> RowType]
  /\ nextId \in 1..(MaxIds + 1)
  /\ cache \in [Keys -> Ids \cup {NoId}]
  /\ chunks \in Samples
  /\ lastPoll \in [Instances -> PollNo \cup {0}]
  /\ held \in HeldType
  /\ busy \in BusyType

Copies(id, p) == chunks[id][p] + held.samples[id][p]

\* What `history` returns for a series, and `hardware_history` for the readings.
History(k) == {p \in PollNo : \E id \in Rows(k) : Copies(id, p) > 0}

\* What `latest` returns: the series with a sample of the instance's newest poll,
\* looked up in memory if the instance has a poll there and on disk otherwise.
Latest(i) ==
  {k \in Keys :
     /\ k.instance = i
     /\ \E id \in Rows(k) :
          IF held.polls[i] # 0
            THEN held.samples[id][held.polls[i]] > 0
            ELSE lastPoll[i] # 0 /\ chunks[id][lastPoll[i]] > 0}

\* A sample is held once or written once, never both and never twice: flushes
\* that fail, run early or follow a crash neither repeat nor split a write.
StoredOnce == \A h \in Homes, p \in PollNo : Copies(h, p) <= 1

\* The report that poll p stands for, the one in progress included.
ReportOf(p) == IF p = Current THEN busy.report ELSE polls[p]

\* A series' history holds only samples of its own instance and frequency, or of
\* itself where it has no frequency, through relabelling, pruning, re-creation
\* and the cache that remembers ids across all of them (series_id).
HistoryIsOwn ==
  \A id \in Ids, p \in PollNo :
    LET key == table[id].key
    IN  key # NoKey /\ Copies(id, p) > 0 =>
          \E k \in ReportOf(p).keys :
            /\ k.instance = key.instance /\ k.group = key.group
            /\ k.group = NoGroup => k = key

\* `latest` never shows a poll older than one that `history` shows, and it shows
\* all of that poll, whether it is held, written or partly pruned.
LatestIsNewest ==
  busy = Idle =>
    \A i \in Instances :
      LET newest == IF held.polls[i] # 0 THEN held.polls[i] ELSE lastPoll[i]
          series == {k \in Keys : k.instance = i}
      IN  newest # 0 =>
            /\ Latest(i) = {k \in series : newest \in History(k)}
            /\ \A k \in series : \A p \in History(k) : p <= newest

\* Every series of an instance's newest poll can be read back as long as nothing
\* was lost or pruned ("Readers see every poll, stored or held").
ReadersSeeEveryPoll ==
  busy = Idle =>
    \A p \in DOMAIN polls : \A k \in polls[p].keys :
      (\A q \in DOMAIN polls : q > p => polls[q].instance # k.instance) => p \in History(k)

\* The state readers agree on while an insert is in progress.
BaseTable == IF busy.op = "insert" THEN busy.before.table ELSE table
BaseHeld == IF busy.op = "insert" THEN busy.before.held ELSE held
BaseHome(k) == IF k = NoKey THEN {Hardware} ELSE {id \in Ids : BaseTable[id].key = k}
Logged == Keys \cup {NoKey}

\* What readers see of a series, the part of it that is on disk, and when the series
\* was last heard from.
LogBar ==
  [k \in Logged |->
     LET homes == BaseHome(k)  samples == BaseHeld.samples
     IN  {p \in PollNo : \E h \in homes : chunks[h][p] + samples[h][p] > 0}]

SafeBar ==
  [k \in Logged |->
     LET homes == BaseHome(k)
     IN  {p \in PollNo : \E h \in homes : chunks[h][p] > 0}]

LastHeard(id) == IF BaseHeld.seen[id] # 0 THEN BaseHeld.seen[id] ELSE BaseTable[id].lastSeen

HeardBar ==
  [k \in Keys |->
     LET homes == BaseHome(k)
     IN  IF homes = {} THEN 0 ELSE LastHeard(CHOOSE id \in homes : TRUE)]

Store == INSTANCE SampleStore WITH
  Hardware <- NoKey, log <- LogBar, safe <- SafeBar, heard <- HeardBar

\* Held, written and pruned samples together are a store that polls enter when
\* they arrive and that loses only what was not yet written (stats_db.rs:8-13).
ImplementsSampleStore == Store!Spec
=============================================================================
