---------------------------- MODULE StatsBaseline ----------------------------
(***************************************************************************)
(* From an instance's stats file to the Overview totals and the error log's *)
(* counter events: the poller, StatsService (panel/src/stats.rs), the file  *)
(* reader (airband-supervisor/src/stats.rs) and EventLog's counters         *)
(* (panel/src/events.rs), racing restarts and live applies of the instance. *)
(*                                                                          *)
(* The process has one summed counter and its CPU seconds.  `total` and     *)
(* `run` in a sample are history: all increments so far, and which process  *)
(* they were read from.                                                     *)
(***************************************************************************)
EXTENDS Integers

CONSTANTS
  MaxWork,     \* bound: increments of the counter and CPU seconds in a behaviour
  MaxRuns,     \* bound: processes of the unit
  PollFailures \* what may fail: "read", "insert", "mirror"

ASSUME StatsBaselineAssumption ==
  /\ MaxWork \in Nat /\ MaxRuns \in Nat \ {0}
  /\ PollFailures \subseteq {"read", "insert", "mirror"}

VARIABLES
  proc,      \* the process and its counters
  file,      \* the stats file
  unread,    \* whether its mtime differs from the remembered one (last_mtime)
  poll,      \* the poller, at one of the steps of a poll
  latest,    \* StatsService::latest, the cached poll
  stored,    \* db.latest
  base,      \* StatsService::baselines; once cleared only its total is left, as history
  mirror,    \* summary_baselines in SQLite
  heldBack,  \* PendingCounter::delta
  window,    \* whether the counter's REPEAT_WINDOW is still running
  written,   \* history: the sum of the counter events recorded, counted from the
             \* total at the first poll ever cached
  call       \* the handler that restarts or live-applies

statsVars ==
  <<proc, file, unread, poll, latest, stored, base, mirror, heldBack, window, written,
    call>>

None == [run |-> 0, cpu |-> 0, count |-> 0, total |-> 0]
IsSample(s) == s.run # 0
Uncounted == -1

StatsInit ==
  /\ proc = [run |-> 1, cpu |-> 0, count |-> 0, total |-> 0, work |-> 0]
  /\ file = None
  /\ unread = FALSE
  /\ poll = [at |-> "idle"]
  /\ latest = None /\ stored = None
  /\ base = None /\ mirror = None
  /\ heldBack = 0 /\ window = FALSE /\ written = Uncounted
  /\ call = [at |-> "idle"]
-----------------------------------------------------------------------------
(* RTLSDR-Airband, as its stats file shows it *)

fileOnly == <<poll, latest, stored, base, mirror, heldBack, window, written, call>>

\* The stats file is rewritten with whatever was counted since.
WriteStats ==
  /\ \E cpu, more \in 0..1 :
       /\ proc.work + cpu + more <= MaxWork
       /\ proc' = [proc EXCEPT !.cpu = @ + cpu, !.count = @ + more, !.total = @ + more,
                               !.work = @ + cpu + more]
  /\ file' = [run |-> proc.run, cpu |-> proc'.cpu, count |-> proc'.count,
              total |-> proc'.total]
  /\ unread' = TRUE
  /\ UNCHANGED fileOnly

Fresh == [proc EXCEPT !.run = @ + 1, !.cpu = 0, !.count = 0]

OutsideRestart ==
  proc.run < MaxRuns /\ proc' = Fresh /\ UNCHANGED <<file, unread, fileOnly>>
-----------------------------------------------------------------------------
(* The poller *)

pollOnly == <<proc, file, base, mirror, call>>

\* read_file remembers the mtime before it reads; an unchanged file ends the poll.
Stat ==
  /\ poll.at = "idle"
  /\ unread
  /\ unread' = FALSE
  /\ poll' = [at |-> "read"]
  /\ UNCHANGED <<pollOnly, latest, stored, heldBack, window, written>>

ReadFile ==
  /\ poll.at = "read"
  /\ poll' = [at |-> "store", sample |-> file]
  /\ UNCHANGED <<pollOnly, unread, latest, stored, heldBack, window, written>>

ReadFileFails ==
  /\ "read" \in PollFailures
  /\ poll.at = "read"
  /\ poll' = [at |-> "idle"]
  /\ UNCHANGED <<pollOnly, unread, latest, stored, heldBack, window, written>>

StorePoll ==
  /\ poll.at = "store"
  /\ stored' = poll.sample
  /\ poll' = [at |-> "reset", sample |-> poll.sample]
  /\ UNCHANGED <<pollOnly, unread, latest, heldBack, window, written>>

\* insert_batch fails before the poll is held, or after, when only the flush failed.
StorePollFails ==
  /\ "insert" \in PollFailures
  /\ poll.at = "store"
  /\ stored' \in {stored, poll.sample}
  /\ poll' = [at |-> "idle"]
  /\ UNCHANGED <<pollOnly, unread, latest, heldBack, window, written>>

\* Mutant: a counter that has not moved counts as reset.
NotAbove(s, b) == s.cpu <= b.cpu \/ s.count <= b.count

\* BaselineIndex::reset_by.
WentBack(s, b) == s.cpu < b.cpu \/ s.count < b.count
ResetBy(b, s) == IsSample(b) /\ WentBack(s, b)

Cleared(b) == [None EXCEPT !.total = b.total]

\* check_reset: the decision and the change in memory are under the lock, the
\* change in the database comes after.
CheckReset ==
  /\ poll.at = "reset"
  /\ IF ResetBy(base, poll.sample)
       THEN /\ base' = Cleared(base)
            /\ poll' = [at |-> "mirror", sample |-> poll.sample, base |-> base']
       ELSE poll' = [at |-> "count", sample |-> poll.sample] /\ UNCHANGED base
  /\ UNCHANGED <<proc, file, unread, mirror, call, latest, stored, heldBack, window,
                 written>>

MirrorReset ==
  /\ poll.at = "mirror"
  /\ \/ mirror' = poll.base
     \/ "mirror" \in PollFailures /\ UNCHANGED mirror
  /\ poll' = [at |-> "count", sample |-> poll.sample]
  /\ UNCHANGED <<proc, file, unread, base, call, latest, stored, heldBack, window,
                 written>>

\* Mutant: after a reset the difference is taken all the same.
JumpMagnitude(prev, s) ==
  IF ~IsSample(prev) THEN 0
  ELSE IF s.count < prev.count THEN prev.count - s.count ELSE s.count - prev.count

\* What record_poll returns: the increase since the cached poll, or all of it
\* after a reset.
Jump(prev, s) ==
  IF ~IsSample(prev) THEN 0
  ELSE IF s.cpu < prev.cpu \/ s.count < prev.count THEN s.count
  ELSE s.count - prev.count

\* History: counting starts at the first poll ever cached.
StartCount(s) ==
  written' = IF written = Uncounted /\ IsSample(s) THEN s.total ELSE written

RecordPoll ==
  /\ poll.at = "count"
  /\ latest' = poll.sample
  /\ StartCount(poll.sample)
  /\ poll' = [at |-> "merge", jump |-> Jump(latest, poll.sample)]
  /\ UNCHANGED <<pollOnly, unread, stored, heldBack, window>>

\* take_ready: at most one event per window, unless forced.
Ready(delta, force) ==
  IF delta > 0 /\ (force \/ ~window)
    THEN [out |-> delta, held |-> 0, window |-> TRUE]
    ELSE [out |-> 0, held |-> delta, window |-> window]

\* counter_poll: merged under the lock, and what is ready is recorded.
CounterPoll ==
  /\ poll.at = "merge"
  /\ LET r == Ready(heldBack + poll.jump, FALSE)
     IN  heldBack' = r.held /\ window' = r.window /\ written' = written + r.out
  /\ poll' = [at |-> "idle"]
  /\ UNCHANGED <<pollOnly, unread, latest, stored>>

CounterWindowPasses ==
  /\ window
  /\ window' = FALSE
  /\ UNCHANGED <<pollOnly, unread, poll, latest, stored, heldBack, written>>

\* The config no longer names a stats source.
Forget ==
  /\ poll.at = "idle"
  /\ IsSample(latest)
  /\ latest' = None
  /\ UNCHANGED <<pollOnly, unread, poll, stored, heldBack, window, written>>
-----------------------------------------------------------------------------
(* The handler's restart, and its observers in the order build registers them *)

callOnly == <<file, unread, poll, stored>>

Restart ==
  /\ call.at = "idle"
  /\ \/ proc.run < MaxRuns /\ proc' = Fresh      \* restart
     \/ UNCHANGED proc                           \* live apply
  /\ call' = [at |-> "events"]
  /\ UNCHANGED <<callOnly, latest, base, mirror, heldBack, window, written>>

\* EventLog::restarted: what was held back goes ahead of the marker.
TakeHeld ==
  /\ call.at = "events"
  /\ LET r == Ready(heldBack, TRUE)
     IN  heldBack' = r.held /\ window' = r.window /\ written' = written + r.out
  /\ call' = [at |-> "latest"]
  /\ UNCHANGED <<callOnly, proc, latest, base, mirror>>

\* StatsService::latest, which caches a poll it found in the database.
LatestPoll == IF IsSample(latest) THEN latest ELSE stored
CacheLatestPoll ==
  /\ latest' = LatestPoll
  /\ StartCount(LatestPoll)

\* mark_baseline.
TakeLatest ==
  /\ call.at = "latest"
  /\ CacheLatestPoll
  /\ call' = [at |-> "mirror", base |-> LatestPoll]
  /\ UNCHANGED <<callOnly, proc, base, mirror, heldBack, window>>

MirrorMark ==
  /\ call.at = "mirror"
  /\ \/ mirror' = call.base /\ call' = [at |-> "memory", base |-> call.base]
     \/ "mirror" \in PollFailures /\ call' = [at |-> "idle"] /\ UNCHANGED mirror
  /\ UNCHANGED <<callOnly, proc, latest, base, heldBack, window, written>>

Mark ==
  /\ call.at = "memory"
  /\ base' = call.base
  /\ call' = [at |-> "idle"]
  /\ UNCHANGED <<callOnly, proc, latest, mirror, heldBack, window, written>>
-----------------------------------------------------------------------------
(* A summary, and a clean restart of the panel *)

\* since_baseline.
Above(b, s) ==
  IF ResetBy(b, s) THEN s.count ELSE s.count - b.count

\* The total that summaries shows.
Shown == Above(base, LatestPoll)

Summarise ==
  /\ CacheLatestPoll
  /\ UNCHANGED <<proc, file, unread, poll, stored, base, mirror, heldBack, window, call>>

\* Memory is gone; everything stored was flushed.
PanelRestart ==
  /\ poll.at = "idle" /\ call.at = "idle"
  /\ latest' = None
  /\ base' = mirror
  /\ heldBack' = 0 /\ window' = FALSE
  /\ unread' = IsSample(file)
  /\ UNCHANGED <<proc, file, poll, stored, mirror, written, call>>
-----------------------------------------------------------------------------
PollStep ==
  \/ Stat \/ ReadFile \/ ReadFileFails \/ StorePoll \/ StorePollFails
  \/ CheckReset \/ MirrorReset \/ RecordPoll \/ CounterPoll
CallStep == TakeHeld \/ TakeLatest \/ MirrorMark \/ Mark

StatsNext ==
  \/ WriteStats \/ OutsideRestart
  \/ PollStep \/ CounterWindowPasses \/ Forget
  \/ Restart \/ CallStep
  \/ Summarise
  \/ PanelRestart

StatsSpec == StatsInit /\ [][StatsNext]_statsVars
-----------------------------------------------------------------------------
(* Properties *)

InFlight == IF poll.at = "merge" THEN poll.jump ELSE 0

\* No increase is counted twice: what was recorded, is held back or on its way
\* there is at most what the polls since the first one have seen, whatever the
\* poller, a restart's forced write and a cold read of the database do in between.
NoJumpTwice ==
  written # Uncounted => written + heldBack + InFlight <= LatestPoll.total

\* A poll has dropped the baseline and is not yet the latest one.
Dropping == poll.at \in {"mirror", "count"} /\ ~IsSample(base)

\* The Overview's total is what the counter rose by since the baseline's poll: exactly,
\* while the process is the same, and never more, across any number of restarts
\* (mark_baseline, check_reset, summaries).
TotalSinceBaseline ==
  IsSample(LatestPoll) /\ ~Dropping =>
    LET rise == LatestPoll.total - base.total
    IN  IF LatestPoll.run = base.run THEN Shown = rise ELSE Shown <= rise
=============================================================================
