# rtl-airband-panel in TLA+

rtl-airband-panel is a web panel (Rust, axum/tokio) for instances of
[RTLSDR-Airband](https://github.com/rtl-airband/RTLSDR-Airband).  The user edits
configs in a browser; the panel validates them, writes them, renders a systemd
unit per instance, restarts units or applies a change to the running process
over a control socket (`reload_diff`, a fork's extension), and keeps statistics
and an error log in SQLite.

This directory holds the TLA+ specifications of the panel's own logic, the TLC
configurations that check them on small instances, and the TLAPS proofs that
hold for every instance.

* [Inventory](#inventory)
* [Plan](#plan)
* [The core: Instances and InstancesFaults](#the-core-instances-and-instancesfaults)
* [The lock: KeyedMutex and NameLock](#the-lock-keyedmutex-and-namelock)
* [The statistics database: StatsDb and SampleStore](#the-statistics-database-statsdb-and-samplestore)
* [The other parts](#the-other-parts)
* [Runs](#runs)
* [Proofs](#proofs)
* [What the code does differently from what is written about it](#what-the-code-does-differently-from-what-is-written-about-it)
* [Not modelled](#not-modelled)

## Inventory

Paths are relative to `src/crates`.

| Component | State it keeps | Operations | What is hard about it | What makes it correct |
|---|---|---|---|---|
| InstanceService (`panel/src/service.rs`) | none of its own; one `KeyedMutex` entry per name | save, save and restart, live apply, options, restart, restart pending, create, rename, delete, import | every operation is a chain of 5 to 15 awaited steps over six stores and systemd, each of which may fail, be cancelled with its HTTP connection or be cut by a crash | an instance that is not marked pending runs its file; the baseline is what the process has; conditional saves lose nothing; a rename never runs two units nor loses a config; every call returns |
| Stores (`panel/src/store.rs`) | `<name>.conf`; `.pending-restarts.json`; `.options.json`; `.running/<name>.started.conf` and `.applied.conf`; the first three mirrored in memory | read, write, mark, clear, set, rename, remove | memory is changed before the file; two files of one baseline are written one after the other | memory and file agree whenever nothing failed; a reload after a crash loses no mark |
| KeyedMutex (`airband-supervisor/src/keyed_mutex.rs`) | a map from key to a reference-counted async mutex | lock, drop | entries are dropped while other calls look them up; FIFO hand-over; cancelled waiters | at most one holder per key, although the entry is re-created; the map does not grow |
| systemd adapter (`airband-supervisor/src/systemd.rs`, `unit_file.rs`, `command.rs`) | unit files, enabled and active units (in systemd) | start, stop, restart, enable, disable, install, remove, daemon-reload | `systemctl` runs as a child process that is killed when the call is dropped | |
| Control socket client (`airband-supervisor/src/control_socket.rs`) | none | reload_diff, list, query | the daemon may have carried out what timed out; its answer leaves things out | an answer of "complete" is trusted only together with the planner's |
| Change planner (`airband-supervisor/src/plan.rs`) | none | plan_change | per-setting rules over two baselines | never says live for what needs a restart, however many live applies ago the process was started |
| Statistics database (`panel/src/stats_db.rs`, `stats_chunk.rs`) | SQLite tables; samples held in memory for a bucket; cached series ids; last-seen times | insert_batch, insert_hardware, flush, prune, history, latest | samples pass through memory, one transaction and an append-only chunk; flushes fail and are retried; series are relabelled, pruned and re-created under the held samples | a sample is stored once or held once, never both and never neither (up to the stated row limit and a crash) |
| Statistics service and poller (`panel/src/stats.rs`, `airband-supervisor/src/stats.rs`) | latest poll per instance; counter baselines in memory and SQLite; mtime per stats file | poll, mark_baseline, check_reset, summaries | polls race restarts and live applies; counters reset | totals count from the last restart or live apply; no jump is counted twice |
| Error log and watchers (`panel/src/events.rs`, `airband-supervisor/src/log_classify.rs`) | repeat windows per instance and line; expected-restart notes; last unit state | record, counter_poll, unit and journal watchers | the unit watcher polls while the panel restarts the unit | an unexpected restart is reported once, the panel's own never; no occurrence is lost from the counts |
| Hardware readings (`panel/src/hardware.rs`) | previous counters, for rates | snapshot | snapshots of different clients overlap | a rate relates two successive readings |
| HTTP API, WebSocket feed (`panel/src/http`) | subscriptions, rate-limit buckets | the routes; the event feed | a client joins while events are published; clients vanish | a client that has its snapshot misses no later event; the hardware watcher runs exactly while someone watches |
| Secrets (`panel/src/secrets.rs`) | none | redact, restore | restored by position in lists the user may have edited | a round trip returns the stored secrets |
| Rate limits (`panel/src/http/middleware.rs`) | windows per client and route | hit | the table is cut down under running windows | a client's burst is bounded; nobody is refused for another's requests |
| Config model and its text (`airband-config`) | none | to_domain, from_domain | forms of numbers; duplicates and unknown settings | saving keeps what every setting means; what is accepted can be read back |
| Validator (`airband-validate`, `airband-wasm`) | none | pure checks | settings inherited from three levels; disabled parts | what is accepted fits together |
| Front end (`frontend/`), packaging, scripts | browser state; shell | | | |

How they interact: HTTP handlers call InstanceService inside the handler's own
future, so a handler dropped by axum when the client goes away stops at its
current await.  InstanceService calls the stores and the systemd adapter, tells
restart observers (StatsService, EventLog) of every restart, and reads
reload_diff answers from the control socket.  The poller, the unit watcher and
the journal watcher are tasks of their own that take no instance lock and read
what the operations are halfway through writing.  The panel process may end
between any two steps; only files survive.  systemd and the daemon go on
without it.

`PROJECT.json` lists each part as a component and, under `hazards`, the lines
where the code is hard to test with the property that covers it.

## Plan

The modules, in the order in which they were written:

| Module | Models | Composes / refines | Theorems |
|---|---|---|---|
| `Instances` | InstanceService, the stores, units, processes, reload_diff | | type correctness, conditional saves, no config lost in a rename and never two units, nothing left of what is removed, units follow options, pending marks and baselines sound |
| `InstancesFaults` | the same with cancelled handlers, crashes, reboots and restarts behind the panel | extends `Instances` | containment of damage |
| `KeyedMutex`, `NameLock` | the reference-counted lock map; a plain lock per key | `KeyedMutex` implements `NameLock` | mutual exclusion, the map bounded, the refinement |
| `StatsDb`, `SampleStore` | held samples, flush, prune, series ids and relabelling, crash; a store of samples | `StatsDb` implements `SampleStore` | samples stored once, histories their own, the latest poll, the refinement |
| `StatsBaseline` | the poller, baselines, summaries and counter events, racing restarts | composes the stats file, StatsService and EventLog's counters | increases counted once, totals since the baseline |
| `UnitWatch` | the unit watcher against the panel's own restarts | | starts reported once, own restarts quiet |
| `Journal` | journal followers and repeated lines | | counts outlast eviction, one copy per window |
| `WsFeed` | the event feed, the health and hardware watchers | | nobody stays stale, subscribers counted |
| `HardwareRates` | overlapping snapshots of counters | | rates never overstated |
| `RateLimiter` | the request limits | | bursts bounded, no refusal for another's requests |
| `Lists` | what an iterator's filter and collect make of a list | used by the two below | the lemmas that their proofs share |
| `LivePlan` | plan_change over its three baselines, against reload_diff | | what was applied is what runs, no change is none |
| `ConfText` | the config mapper in both directions, whole-number check | | a save changes no meaning, what is accepted is read back as sent, but for what is panel-only |
| `Checks` | the validator's checks | | accepted configs fit together; of a config with a part disabled the validator says nothing new |

`MCInstances`, `MCFaults`, `MCStatsDb` and `MCParts` hold what only the
model-checking runs need: values of constants, symmetry sets and, in `MCParts`,
the choice of a part (below).

Modules meant for proofs declare no RECURSIVE operator and keep invariants as
conjunctions of named parts.  An abstract specification of an instance as its
user sees it (saved, running, pending) was considered and dropped: every step of
`Instances` that a failure can reach would have to be a step of it too, and what
is left of it is `PendingSound`, `BaselineSound` and `DamageContained`.

## The core: Instances and InstancesFaults

### State

| Variable | Code |
|---|---|
| `disk[n]` | `<name>.conf` in the instances directory (ConfigStore) |
| `pending`, `pendingFile` | PendingRestartStore's set in memory and `.pending-restarts.json` |
| `started[n]`, `applied[n]` | BaselineStore's two files |
| `options[n]` | InstanceOptionsStore (memory and file as one, except in `Halfway`) |
| `unit[n]` | the installed, enabled unit file, by the options it renders |
| `proc[n]` | what the process of the unit runs: the config parts it loaded and the unit options it was started with |
| `lock[n]` | the holder of the name's KeyedMutex entry |
| `req[r]` | the call `r`: its operation, arguments, what it read at its check (`prev`) and the step it is at (`pc`) |
| `damaged` (InstancesFaults) | history, see below |

A config text has two parts: `live`, which reload_diff can change in a running
process, and `fixed`, which only a start loads.  `Socketed` are the fixed parts
that configure a control socket.  Parsing, validation and every other detail of
a text are abstracted to a free choice (`Reject`).

### Actions

A call is submitted (`Submit`), waits for its locks (`Lock`, `LockSecond` - a
rename takes both names in sorted order), checks its preconditions (`Check`, or
`Reject` with 404/409/422), and then goes through its awaited steps one action at
a time.  `Then(op, pc)` is the order of those steps, read from the bodies of
`validate_and_write`, `update_config`, `apply_live`, `update_options`,
`restart_for`, `create_instance`, `rename_instance` and `delete_instance`:

    save          base base2 write mark
    saveRestart   base base2 write mark restart clear record record2
    live          base base2 write mark reload clear applied
    options       opts install mark restart clear record record2
    restart       restart clear record record2
    create        write install start record record2
    rename        stop write install start teardown conf clear opts forget record record2
    delete        stop teardown conf clear opts forget

`base`/`base2` and `record`/`record2` are the two files of a baseline.
`restartAll` lists the pending instances without a lock and then runs `restart`
for each.  `options` always restarts: the only caller,
`http/mod.rs:update_options`, passes `restart = true`.  Adjacent steps that
touch only one store and cannot be told apart from outside (unit file install,
daemon-reload, enable) are one action.

`Fail` lets a step fail: the error is returned, except where the code rolls
back (`RollsBack`, `Undo`).  `Halfway` is what a step that did not complete
leaves changed - the JSON stores change memory before the file, a failed
restart may have stopped the unit.  `CanFail` chooses the steps that fail by
themselves; `stop`, `restart` and `teardown` of a missing unit fail whatever it
says.  `Exit` is the process ending on its own (units have `Restart=no`).

InstancesFaults adds, as chosen by `Events`: `Cancel` (a handler dropped at any
await), `Crash` (the panel restarts; memory is read back from files), `Reboot`
(and systemd starts the enabled units), `OutsideRestart` (`systemctl restart`
typed by an operator).  `damaged` is a history variable: the names of which a
call ended early, or that were restarted behind the panel's back while pending.
A restart through the panel that completes takes its name out again (`Healed`).

### Properties

`PendingSound` and `BaselineSound` are what the pending chip, the restart banner
and plan_change rest on: between calls, an instance that is not pending runs
exactly its file, and the baseline is what the process started with.  They hold
only with the failures that leave them intact; TLC was used to try each step of
`CanFail`, first by itself:

| Property | Broken by a failing... |
|---|---|
| PendingSound, BaselineSound | clear, applied, record or record2; of a rename also write, install, start or opts (its rollback starts the old unit, which loads the file) |
| BaselineSound | teardown or conf of a rename, if forget can fail too |
| PendingSound | mark or restart of an options change, if an instance was adopted and so may have no baseline |
| NothingLeftBehind | clear, opts, teardown or forget (a removal that stops half-way) |
| UnitRendersOptions | install, clear, opts, teardown or conf |

That they hold with every other failure is proved (`RecordsComplete`,
`RemovalCompletes`, `OptionsComplete` below).  For these the statement that
remains is `DamageContained`: whatever fails, is cancelled or crashes, only the
instance it happened to can be wrong, and only until the next restart through
the panel that completes.

So the runs that check the properties of the table let none of the steps that
break them fail: `lifecycle` fails no removal step, and what a delete that stops
half-way does is in `faults`, under `DamageContained`.  `single` has no rename and no
adopted instance: what a rename's rollback does to `BaselineSound` is the run
`rename_rollback`, what a save cut off before its mark does to `PendingSound` is
`cancelled_save`, and an instance without a baseline is in `faults` and `contained`.
The proofs cover renames and adopted instances, under the assumptions that they name.

The other properties (`NeverBothRunning`,
`ConfNeverLost`, `NoLostUpdate`, `EveryCallReturns`) are stated in the module
above their definitions.

### Fairness

`FairSpec` asks two things.  Weak fairness of each call's own steps: every
awaited operation completes or fails.  Of the socket the code sees to that, with a
timeout of 8 s; of `systemctl` it does not: `command.rs:17-45` waits for the child
and only kills it when the call is dropped, so that it returns is assumed of
systemd (whose jobs have timeouts of their own), as it is of the file system.  Strong
fairness of taking a lock: tokio's mutex is FIFO, so a waiter cannot be passed
over for ever, and each lock is released again and again as calls return.
Clients need not submit anything.

## The lock: KeyedMutex and NameLock

`Instances` takes a name's lock in one step.  `KeyedMutex` is why it may.  A call
of `lock()` is five steps: `Find` (retain, or_default and clone, under the std
mutex, so one step), `Queue` (the first poll of `lock_owned`), `Enter`, `Release`
(the permit goes to the first waiter or is free) and `Forget` (the Arc is
dropped, after the permit).  `Abandon` is a call dropped at any await before it
holds the lock; one that was handed the permit and has not woken passes it on.

| Variable | Code |
|---|---|
| `entry[k]` | the HashMap: the mutex of a key |
| `at[c]` | a call's stage, key and Arc; `InUse(m)` is `strong_count > 1` |
| `owner[m]`, `waiting[m]` | tokio's mutex: the permit, the FIFO queue (external) |

`NameLock` is the abstract lock: `holder[k]`, taken when free, given back.  A
call holds a key in it from `Enter` to `Release`.  `EveryWaiterIsServed` needs
weak fairness of every step but `Find` and `Abandon`; that of `Release` is
`EveryCallReturns` of `Instances`.

## The statistics database: StatsDb and SampleStore

Every operation of `stats_db.rs` holds the connection's mutex from its first
statement to its last, so operations do not interleave; what can come between
two steps of one is a failure or the end of the panel.

| Variable | Code |
|---|---|
| `polls` | history: what was reported, in order of arrival; a poll is its number in it |
| `table`, `nextId` | the rows of `series` (`NoRow`: none) and its AUTOINCREMENT counter |
| `cache` | `series_ids` |
| `chunks[id][p]` | copies of poll `p`'s sample in `sample_chunks`; `Hardware` stands for `hardware_samples` |
| `lastPoll` | `instance_last_poll` |
| `held` | `Held`: bucket, samples, newest poll per instance, row count, last-seen times |
| `busy` | the operation that holds `conn`, with what a rollback would restore |

`InsertBatch` and `InsertHardware` flush what is due and open a transaction; each
series of the poll is then looked up by exactly one of `Cached`, `Existing`,
`Relabel` and `Insert` - the branches of `series_id`, in an order left open, as
it is to the poll; `Commit` counts the poll as held.  `InsertFails` rolls back
the rows but neither the cache nor what was pushed into `held`, as the code.
`FlushIfDue`, `Flush` and `Prune` write what is held (`FlushDone`, or
`FlushFails`, which drops everything above `MaxHeldRows`), `WriteSeen` the
last-seen times, and `DeleteOld` is the deleting transaction of a prune.

`SampleStore` is what stats_db.rs:8-13 promises: a poll enters the histories of
the series it reports when it arrives, only pruning takes samples out, and losing
the memory takes out no more than was not yet written.  The mapping takes a
series' history from its row, held or written (`LogBar`), what is written of it
(`SafeBar`) and when it was last heard (`HeardBar`, from memory if it is there);
while an insert is in progress it shows the state before it.  A flush is `Persist`, a
crash or an overflow `Lose`, a relabelled series inherits (`Moved`).

A sample's value, its chunk's encoding and the downsampling of a history are left
out: a sample is there once, twice or not at all, and in one history or another.

## The other parts

They share no state with InstanceService's handlers beyond being told of a
restart, and none with each other, so each is a module with its own variables and
`MCParts` checks them in one run: the variable `part` says which one a behaviour
is about, the others rest.  There is no interleaving between parts to miss.

**StatsBaseline.**  From the stats file to the Overview's totals and the error
log's counter events.  The poller's steps are `Stat` (the mtime is remembered
before the file is read), `ReadFile`, `StorePoll`, `CheckReset`, `MirrorReset`,
`RecordPoll`, `CounterPoll`; the handler's, after a restart or a live apply, are
its observers in the order in which they are registered: `TakeHeld` (EventLog),
`TakeLatest`, `MirrorMark`, `Mark` (mark_baseline).  `Summarise` is a reader that
caches the poll it finds in the database, `PanelRestart` a clean restart of the
panel.  A process has one counter and its CPU seconds, which is what a reset is
recognised by; `run` and `total` in a sample are history.  `NoJumpTwice` and
`TotalSinceBaseline` relate the database, memory and the process over all these
steps.  `Dropping` excludes the moment between check_reset and record_poll, in
which a summary shows the old process's whole count.

**UnitWatch.**  One unit, its `ActiveEnterTimestamp` as the number of its start;
the panel's restart in three steps (systemd stops the unit, starts it, the
observer notes it); the watcher in two (`Read`, `Judge`).  The grace period is
counted in polls of the watcher, of which it covers at least two.

**Journal.**  `Rescan` compares followers with the configs, `Open`, `Close` and
`Wake` are a follower's life with its backoff, `Line` is `log_line`: the table is
cut down if it is full, then the line is stored or counted.  Ages are in windows.
`owed` and `since` are history: occurrences without a stored copy, and the time
since one.

**WsFeed.**  A client subscribes (`Join`), reads its snapshot, is sent it, and
then takes events from its receiver, of which a full one loses the oldest and is
closed (`Lag`).  It may vanish at any await (`Disconnect`); `Leave` is the drop
guard.  The health watcher reads a status in one step and publishes it in another.
`CountIsSubscribers` is the counter by which the hardware watcher runs; a
hardware frame is sent while it is above zero.

**HardwareRates.**  `Reply` is a caller's answer from the control socket, `Record`
the comparison with the remembered reading under the lock, in any order.  The
process may exit, be started again, or its instance be deleted and made again.

**RateLimiter.**  `Ask` and `AskRoute` are the global budget and that of a route
that changes state, hit by a request one after the other.  `hits` and `passed`
are history: the last `Window` ticks of one key, `subject`, which the initial
state chooses.

**LivePlan.**  `PlanChange` is plan_change, rule by rule, over the config the
process was started with, the one applied last and the next one; `Reload` and
`FreshProcess` are what reload_diff and a start do, which is the fork's code and
here what plan.rs says of it (external).  A behaviour starts a process with any
config of a `focus` (hand-edited ones included) and applies others, one after the
other; `Edits` is the constant that says which, and the configs of `MCParts` vary one
focus at a time.  What becomes of a process that took
a part of an apply is not followed (`tainted`); `no_change` shows the first
consequence.  Only the new config's socket is asked.  In the model a MHz has five
Hz and floats are in tenths, so that a frequency between two Hz and a change too
small for a signature (four tenths here, six digits there) occur.

**ConfText.**  For each kind of group, which settings `to_domain` reads and in
which form (`Reads`), which `from_domain` writes (`Writes`), what happens to
settings the panel does not know, and which numbers the whole-number check lets
through.  A nested group is a token; numbers are in tenths.  An `rdio_scanner` block
has a switch that is the panel's only (`domain.rs:373-375`): a file output whose
upload is switched off keeps the block in the JSON model and is written without it.
In the file output's model such a block is a value of its own, `disabled`; in the
block's own, `disable` is a setting that is not written (`PanelOnly`).
`SavedIsReadBack` names both, and leaves out a file output of which the text had two
blocks and the first was switched off (`SecondUpload`, below).  What is read and written
are constants: `Texts` and `Models` are the inputs, `Order` is the order in which the
settings are written, of which the model uses only that each has one place.

**Checks.**  The validator's errors and warnings as sets of codes, over whole
configs.  Frequencies are in kHz, times and tones in tenths, a modulation is a
token.  Its three properties are what no single check says: the split times that
an output *ends up with* fit, no two frequencies share a bin, and of a config with
something disabled the validator says nothing new.  The last is about what the
validator says, and `DisablingIsSafe` says where that is not enough.  By the hints,
rtl_airband will not start with an output into a mixer that is disabled, nor with a
mixer that nothing routes into (`Unstartable`, from `Fed` and `MixersInUse`; external).
The checks of both count what is disabled (`mixer_references` the mixers,
`mixer_unused` the outputs), so the property names the two edits
that lead there, `DisablesFedMixer` and `DisablesLastFeeder`, and says of all others that
they add nothing of the kind.  The run has both edits: without either exception
TLC finds the property violated.

These two are functions of an input, and every input is an initial state without
successors: `config` and `build` in `Checks`, `input` in `ConfText`.

### Fairness

`UnitFairness`: the unit watcher polls on an interval and judges what it read.
`JournalFairness`: rescans come on an interval (`events.rs:387`) and a sleep
ends; nothing is asked of the journal, which may close every stream.
`FeedFairness`: the health watcher ticks and publishes, a client's task runs, its
socket takes what it is sent.  Nothing else is assumed to happen: units need not
restart, clients need not join, status need not change.

## Runs

| Run | Instance | What it shows |
|---|---|---|
| `single` | 1 name, 2 calls, 2x2 texts all with a socket, every operation but rename, all tolerated steps failing | PendingSound, BaselineSound: the lock and the step order keep six stores in agreement |
| `lifecycle` | 2 names, 2 calls, 2 options, create/rename/delete/options, failing stop, start, write, restart, record | TypeOK, NothingLeftBehind, UnitRendersOptions, NeverBothRunning, ConfNeverLost |
| `returns` | 2 names, 2 calls, renames both ways, restart-pending loops, failing starts, `FairSpec` | EveryCallReturns; no deadlock |
| `faults` | 1 adopted name, 2 calls, texts with and without a socket, any If-Match; saves, live applies, creates and deletes with every step failing, all events | DamageContained (healing), NoLostUpdate |
| `contained` | 2 names sharing the pending file, 1 call, all events | DamageContained (the neighbour) |
| `keyed_mutex` | 4 keys, 3 calls, 4 mutexes, `FairSpec` | MutualExclusion, MapBounded, EveryWaiterIsServed, ImplementsNameLock |
| `stats_db` | 3 polls of 4 series at 3 times, 4 ids, failing inserts (at their first statement), flushes, last-seen writes and deletes, crashes | StoredOnce, HistoryIsOwn, LatestIsNewest, ImplementsSampleStore |
| `parts` | each part by itself, bounds below | the 21 properties of the other parts |
| `rename_rollback`, `no_change`, `cancelled_save`, `stats_db_full` | smallest instances | disagreements, see below |

Two names are enough for everything a call can touch (a rename has two), and
two calls are the fewest that interleave; the sets of texts hold two values of
each part where the property compares them, so that "old", "new" and "other"
differ.  `single` uses one name because no operation but rename relates two, and
`lifecycle` drops the text values because its properties do not look at them.
`faults` leaves out the operations whose steps are those of another (options and
restart are parts of saveRestart); renames fail in `lifecycle`, and the proof of
the property covers every operation.  In `keyed_mutex` three calls are a holder, a waiter
and one that cleans up; with a fourth key and a fourth mutex the map could hold
more entries than there are calls.
Nothing of these needs a counter bound: the state is finite.  Calls are symmetric,
names are not (locks are taken in their order).  `returns` and `parts` use no
symmetry, because they check liveness.

`stats_db` has three labels of one frequency and a series without a frequency; a
poll reports one or two of the labels (a relabelling, and one with two quiet
candidates) or the other.  The times 2, 4 and 7 lie in three buckets of two
seconds, and the cutoff 5 takes whole buckets of samples but hardware readings by
the second; two polls of two series exceed `MaxHeldRows`.  Three polls are enough
to report a series, relabel it or prune it, and report it again; four ids let
rows be made again.  A crash may come between any two steps.  The labels are
symmetric.  `MaxPolls` and `MaxIds` bound the behaviours.

`parts`, by part:

| Part | Bounds | Why they are enough |
|---|---|---|
| stats | `MaxWork` 2, `MaxRuns` 2; reads, inserts and mirror writes failing | one increment before and one after a baseline or a reset, one process before and one after a restart |
| unit | `MaxStarts` 2, `Grace` 2 | one start of the panel's own and one from outside, in either order; the shortest grace period there is |
| journal | 1 name, 2 lines, `MaxLines` 1, `Retain` 2, `MaxBackoff` 2, `MaxOwed` 2 | the table overflows with the second line; an entry is dropped one window after it could no longer suppress |
| feed | 2 clients, `MaxStatus` 2, `Capacity` 1 | one client joins while another watches; the second event overruns a queue |
| hardware | 2 requests, `MaxClock` 2, `MaxEvents` 2 | two snapshots overlap and finish in either order, with a restart in between |
| limiter | 2 hosts, `Window` 2, `GlobalMax` 2, `MutatingMax` 1, `MaxWindows` 1 | the table overflows with the second key, and a window is neither fresh nor expired |
| plan | two or three values per setting, one focus at a time | every rule's both sides; process, applied and next config may all differ |
| config | texts: every setting of every kind, with every form of literal, followed by a duplicate or an unknown setting; models: every setting, with every value of its form (an upload switched on and off), followed in the same way | a setting's treatment does not depend on others but for those of its own name |
| checks | split times, bins, disabling: values on both sides of every limit compared | |

Deadlock is not checked in `parts` and `stats_db`: their bounds end behaviours,
and the parts without steps have none.

Every property has a mutant in `PROJECT.json`: a definition of the model changed
as a slip in the code would change it, under which the run finds it violated.

## Proofs

Eight modules, for every value of the constants:

| Module | About | Theorems |
|---|---|---|
| `Instances_proofs` | `Instances` | TypeCorrect, ConditionalSaves, OneOfARename, NoConfIsLost, RemovalIsComplete, UnitsFollowOptions, NothingPendingIsRunning, BaselineIsWhatRuns |
| `InstancesFaults_proofs` | `InstancesFaults` | FaultsTypeCorrect, DamageIsContained |
| `KeyedMutex_proofs` | `KeyedMutex` | MutexExclusive, MapStaysBounded, MutexImplementsNameLock |
| `StatsDb_proofs` | `StatsDb` | SamplesStoredOnce, HistoriesAreOwn, LatestIsTheNewest, StoreIsImplemented |
| `Parts_proofs` | `HardwareRates`, `StatsBaseline`, `UnitWatch`, `Journal`, `WsFeed`, `RateLimiter` | RatesAreNeverOverstated, IncreasesCountOnce, TotalsAreSinceBaseline, StartsReportedOnce, OwnRestartsAreQuiet, FreshCountsAreKept, CopiesAreAWindowApart, NobodyStaysStale, SubscribersAreCounted, LimiterBounds, LimiterRefusesFairly |
| `LivePlan_proofs` | `LivePlan` | LiveRunsWhatWasApplied, LiveNoChangeIsNone |
| `Config_proofs` | `Checks`, `ConfText` | AcceptedSplitTimesFit, AcceptedBinsAreApart, DisablingBreaksNothing, SavingKeepsMeaning, SavedReadsBack |
| `Lists_proofs` | `Lists` | lemmas only |

Each rests on the assumptions that the modules it is about make of their
constants, and some on one more about which steps fail, named in the theorem.
Those are not conveniences: each excludes a failure with which TLC finds the
property broken (the table of "The core", and divergence 4).

### The core

`CallsInv` is the inductive invariant under everything here.  TypeOK is not
inductive: `Install` writes `q.opts`, `Record` writes `q.text`, and `Start` loads
`disk[n]`, which is a text only while the file exists.  `CallsInv` is TypeOK and, for
each call, `ShapeInv` (its step is one of its operation's, its names and text fit),
`LockInv` (it holds exactly the locks of that step) and `FileInv` (the files it
read at its check are still what it believes).  `FileInv` is where mutual
exclusion enters: `StepKept` shows that a step changes only what belongs to names
its call holds, `OtherCalls` that other calls' knowledge survives it.
`ConditionalSaves` follows: at `write` the file is still the version the If-Match
header was compared with.

The theorems about what is left after each operation have one form.  A name whose lock is free is in
order (`Neat`, `Fits`, `Settled`); for a call that holds it, what each of its steps
relies on is spelled out, operation by operation; a step of another call disturbs
neither, because it holds other names.

* `OneOfARename`, `NoConfIsLost` (`RenamesInv`): from its stop on, a rename knows
  that the old unit is down until the new one is, and which of the two files
  there are.  No assumption about failures: every rollback is covered.
* `RemovalIsComplete` (`NeatInv`), if `RemovalCompletes`: the clear, opts, teardown
  and forget of a removal do not fail.  The name may still be re-created, and its
  other steps fail, at any point.
* `UnitsFollowOptions` (`RenderInv`), if `OptionsComplete`: install, clear, opts,
  teardown and conf do not fail.  A rename installs the unit before it moves the
  options, an options change after it stored them, and a failure in between leaves
  one without the other.
* `NothingPendingIsRunning`, `BaselineIsWhatRuns` (`SoundInv`), if
  `RecordsComplete`: clear, applied, record and record2 do not fail; with renames,
  neither do write, install, start, teardown, conf and opts; with options changes,
  either nothing was adopted or neither mark nor restart fails.  What makes
  `SoundInv` inductive is that a name at rest with a process has a baseline or is
  not pending, that a pending one runs what its baseline says, and that between
  `mark` and `clear` the call relies on the baseline alone.

`DamageIsContained` holds for whatever fails, is cancelled or crashes.  `IInv` adds to
`CallsInv`: `Quiet(n)` for a name no call holds (the property, plus: a missing
baseline means the pending *file* does not list the name either, which a crash
needs), `InCall` for a name a call works on (one conjunct per phase of each kind of
operation), `Filed` (what is marked in memory is marked in the file) and, for
damaged names as well, `RestartInv`: what a call that has restarted the process
knows whatever went wrong before.  `HealedName` is why a restart heals.

### The lock

* `MutexExclusive`: `MutexInv` says that a call that is not idle finds its own mutex
  in the map (`Found` - what `retain` must not break), that the permit is with a
  call at that mutex (`Permit`), and that the queue holds each waiting call once
  (`Waiters`), which is what makes the hand-over and a waiter's leaving safe.
* `MapStaysBounded`: `MapInv` adds that two keys have two mutexes (`Distinct`).  A
  lookup first drops every entry without a call, so that the entries are then no
  more than the calls; what calls leave behind afterwards is not more.  `MutexesSuffice`
  (an allocation always finds an unused mutex) is needed here only.
* `MutexImplementsNameLock`: by `EnterTakes`, `ReleaseGivesBack` and `QuietStep` for
  all other steps.

### The statistics database

All of it if `WholeInserts`: no insert fails after its first look-up.  Without it
the cache keeps the id of a row that was rolled back, which a later series may be
given (divergence 4).

* `SamplesStoredOnce`, `HistoriesAreOwn` (`StoreInv`): no two rows have one key and
  unused ids no samples (`TableSound`, `UnusedIds`), a cached id is that of its key's
  row (`CacheSound`), a poll that has not arrived has no samples but those that the
  insert in progress has held (`Unarrived`), and what is on disk belongs as well
  to the rows that a crash would bring back (`BeforeSound`).
* `LatestIsTheNewest` (`ArrivalInv`): `NewestInv` relates the newest poll in memory,
  that in `instance_last_poll` and the samples on either side, also between the
  statements of a flush and a prune; `WholeReport` says that a poll that is there is
  there for all the series that it reported and that have rows.
* `StoreIsImplemented`: `Spec => ImplementsSampleStore`, by a lemma per action:
  `Commit` is the store's report, a flush that succeeds its `Persist`, and so on.  A
  report is one step of the store and several here, so `ProgressInv` says exactly
  what an insert has changed since it began: one sample for each series done, the
  rows made or taken over for them and from whom (`Taken` - the only row of its
  frequency that went quiet, so that no two series inherit one history), and
  the last-seen times.

### The other parts

* `RatesAreNeverOverstated`: `RateInv` says that what a counter falls short of all
  overflows so far only grows, restarts included (`Past`, `Older`), so that the
  difference of two readings, whichever is recorded first, is at most what
  happened in between.
* `IncreasesCountOnce`, `TotalsAreSinceBaseline` (`StatsInv`): polls follow one another
  (`Follows`) from the database over memory and the stats file to the process, and
  every baseline comes before the latest poll, in whatever order the poller and a
  restart's observers write; of two polls that follow one another the counts
  differ by what was counted in between, or by less if the process changed.
* `StartsReportedOnce`, `OwnRestartsAreQuiet`: in `WatchInv`, what the watcher has seen
  only moves forward (`SeenInOrder`), and an own start that is noted and not yet seen
  has enough of the grace period left for a poll that read too early and the next
  (`GraceLasts`) - hence the assumption that it is two polls or more.
* `FreshCountsAreKept`, `CopiesAreAWindowApart`: in `TableInv` an entry's age is the
  time since its last stored copy, and a line without an entry has been quiet for
  as long as entries are kept.
* `NobodyStaysStale`, `SubscribersAreCounted`: `FeedInv` says that the last status on
  its way to a client that has not lost any is the one published last
  (`QueuesSound`), and that with none on its way its snapshot is as new
  (`SnapshotsSound`), which holds because a client subscribes first.
* `LimiterBounds`, `LimiterRefusesFairly`: in `LimiterInv` the hits of a running
  window lie in the ticks since it began, and what was let through before them came
  from one window at most.  `hits[t]` and `passed[t]` count the last `t + 1` ticks, for
  every `t`, so that no sum over ticks, and no induction, is needed.

* The theorems about `Checks` are about every config, not only those that TLC
  takes.  Their hypotheses say what the Rust types of `airband-config/src/domain.rs`
  say: a channel that is not scanned has a frequency (`TunedChannels`), split times are
  whole numbers of tenths (`SplitSettings`), a config is made of its records and lists (`Shaped`)
  and has a device's type, a mixer's name and a stream's id (`Typed`).  Every config that
  `Checks` enumerates for TLC satisfies those of its property.
  * `AcceptedSplitTimesFit`: an output that sets none of its times was checked where
    they are set, and one that overrides any is checked with what it inherits.
  * `AcceptedBinsAreApart`: a collision is told only of the first channel of a frequency
    in a bin that another channel had before.  Of two frequencies on one bin,
    take the first channel of each (`Smallest`): the later one is such a channel.
  * `DisablingBreaksNothing`: `SameConfig` relates a config to one with something
    disabled, part by part; each check but `disable_cascade` then finds what it found
    before, or less, because a disabled part still counts for what refers to it.  That
    it counts is also why the validator is silent about a mixer that loses its inputs
    or its outputs' target; disabling adds neither a mixer in use nor one that is fed
    (`NoneAdded`), so that apart from those two cases nothing new is unstartable.

### The change planner

`LiveRunsWhatWasApplied` and `LiveNoChangeIsNone` are about every set of configs that
edits may go between, with any number of devices, channels and mixers, any settings
and any number of applies.  `EditsAssumption` says only what a parsed config is: lists
of groups of literals.

`RunsWhatWasApplied` is not inductive, because it compares what one *hears*: it
says nothing of the reserves for channels, of the auto_ppm parameters while it is
off, or of the spelling of the frequency that a process was told, and on all three
the next apply depends.  `PlanInv` says what the process *is*, setting by setting
(`DeviceRuns`): the room, the parameters and whether auto_ppm is there are those of
`started`, everything else is that of `applied`, the frequency in either spelling;
and auto_ppm is on only where it was configured at the start, with the parameters of
the start (`PpmRuns`).  This is why plan_change is given three configs.  One lemma per
rule (`FrequencyReloaded`, `RateReloaded`, `AutoPpmReloaded`, `ChannelsReloaded`,
`MixerReloaded`...) says that a rule without an objection leaves what a fresh
start would make; `ProcessReloaded` puts them together.  `NoChangeIsNone` follows from
`PlanInv` by a lemma per rule about a rule that finds nothing (`...Unchanged`).

The proof found two slips in the model.  Some rules were CASEs whose arms overlap, of
which TLA+ takes any that is true and TLC the first; they are IFs now.  And a fresh
process took its global settings as they are spelled, although the planner lets a port
that becomes a string pass as no change wherever it occurs; TLC's configs have ports
in channels only.

### The config model and its text

`SavingKeepsMeaning` holds for every text that the parser can have read (`IsText`),
`SavedReadsBack` for every model that the editor can send (`IsModel`), both for any
order of writing.  `IsText` asks of the settings no more than that integers are whole,
and that a list of groups is there once (a second one changes places with the
first, see below); `IsModel` that each value is one of its form and that what the
panel does not know came from a text.  `Returned` is the model as sent, but for an
empty list of remote inputs, the block of an upload that is switched off and the
switch of one that is on.  None of these is written; the settings of an upload that is
switched off remain only in the JSON that the browser holds, which is documented at
`domain.rs:373-375` and tested (`tests/domain.rs:192-213`).

* `TablesFit`, one lemma per kind: each setting that is read is written; one in Hz is not
  given a decimal point, and the whole-number check looks at it.
* `ValueReadBack`: a value is then read back from its text.  This is where a frequency in
  Hz with a fraction would become MHz; the check refuses it, and one read from a text
  is whole, because a MHz of a million Hz is.
* `FoundInThree`: a text that was written has three parts, the known settings, the unknown
  ones and the nested lists.  The first of a name is where it was written, although the
  unknown ones may have the name of a known one before them, and the unknown ones
  are what is left.
* What is not written leaves its name to a later setting of that name, if there is
  one: hence `SecondUpload` is excluded.  A text that was read has no upload that is
  switched off, and what must be there is never left out (`UploadIsOptional`).
* `ModelReadBack` follows, and with `ReadIsModel` (what is read is a model) and
  `SameText` (an empty list left out makes no other text) both theorems.

What a text's items become is stated by their places (`Lists`), not by recursion:
`ItemsAt` takes the items at a set of places, and `Lists_proofs` says which item of a
list is the `k`-th let through (`NthOnto`), so that no induction over data is needed.

### What is proved and what is only checked

`TypeOK`, `IInv`, `SoundInv`, `ProgressInv`, `PlanInv` and every property were checked with TLC
before they were proved.

Only model-checked, with the reason:

* `EveryCallReturns`, `EveryWaiterIsServed`, `OutsideStartReported`, `FollowersMatch`,
  `CatchesUp`: liveness, which needs fairness and ENABLED, outside what the prover
  handles.
* the four violated properties of the next section, which are false.

## What the code does differently from what is written about it

Each of these four is a run that TLC must find violated.

1. `rename_rollback`: a rename that fails after the stop starts the old unit
   again (`service.rs:778`), which loads the file; if a save was pending, the
   process now runs a newer text than the baseline says, and nothing records it,
   although `DEVELOPMENT.md:352-354` says the files record what the process
   loaded at its last (re)start.
2. `no_change`: `set_applied` runs only after a live apply that left nothing out.
   After a partial one the process has the new live part, `applied` the old, and
   a preview of the old text answers "The running process already has this
   configuration" (`plan.rs:40`).
3. `cancelled_save`: `service.rs:519` says a save is "pending from the moment the
   file lands, whatever happens next"; a handler dropped between the write and the
   mark, which is a later await, leaves it unmarked.
4. `stats_db_full`: `series_id` caches a new id (`stats_db.rs:391`) before
   `insert_batch` commits.  If a later statement fails, the row is rolled back and
   the id stays: every later poll of that series succeeds and is held under an id
   without a row, so neither `history` nor `latest` finds it until a prune clears
   the cache or the panel restarts, although `stats_db.rs:9-10` says "Readers see
   every poll, stored or held, as if each were written when it arrived."

Reached by the models, without a statement they contradict, or told apart from
one only by what is left out here:

* a live apply clears a mark that an options change with a failed restart had
  set; the process still runs with the old unit file;
* a rename cut short between its stop and its start (a crash, a dropped
  connection) leaves neither unit running, and nothing brings one back;
* a unit restarted outside the panel keeps its stale mark and baseline until the
  next restart through the panel (`service.rs:10` says so);
* the unit watcher reports the panel's own restart if it polls between the return
  of systemctl and the observer (`OwnRestartNotReported` says: only then);
* check_reset may write its cleared baseline to the database after a
  mark_baseline that came later, which a restart of the panel then reads;
* `counter_poll` is called when a poll brought samples, so what is held back for a
  process that has stopped stays unwritten until it runs again, where
  `events.rs:204` says "Called every poll (even with no jumps)";
* an event that cannot be inserted takes the repeats and increments it carries
  with it;
* a crash loses the last-seen times in memory, so that a prune can drop the row
  of a series heard within the retention time;
* disabling a mixer that channels still route into is accepted without a word,
  although `hints.rs:344` says that rtl_airband won't start without the named mixer
  (and `hints.rs:231` to remove or disable the outputs too), and so is disabling the
  last output, channel or device that fed a mixer, although `mixers.rs:40` and
  `hints.rs:349` say that a mixer with no inputs ends rtl_airband.  `mixer_references`
  looks among the disabled mixers too, and `mixer_unused` takes a disabled output for
  one that routes; `DisablingIsSafe` names both;
* a file output with two `rdio_scanner` blocks, the first of which is switched off in
  the panel, is saved with the second one, which the next read takes for the upload
  (`SecondUpload`).

Seen while modelling, outside the models: config JSON with a `bit_depth` other
than 8, 16 or 32 passes the validator, is written, and cannot be read back
(`mapper.rs:589-596`; the models of `ConfText` send 8); a list of groups that
occurs twice in a text changes places with its duplicate when saved; the Hardware page joins devices with
the file's config by index, also while a restart that changes them is pending.

## Not modelled

* **Instances**: argument vectors, sudo and systemctl's output; the control
  socket's line protocol; ConfigStore's parse cache and the backups directory.
  The cache is stale only if a write left a file with the same length and
  modification time, which is a question of the file system's clock and not of
  the panel's steps.
* **Statistics**: the chunk encoding and the downsampling of histories (pure, with
  round-trip tests), the error events' table, the Prometheus format and the HTTP
  source.  `PanelRestart` in `StatsBaseline` is a clean one; after a crash that
  lost the held polls, a summary before the first poll caches an older one and
  increases in between are counted again.
* **Error log**: classification and wording of lines, unexpected stops (a stop
  during a rename or delete is reported like one from outside).
* **WsFeed**: a client whose snapshot cannot be read while another is connected
  gets no status until the next change; the hardware watcher reads the count once
  per turn, and a frame is one step here.
* **Hardware**: enumeration of USB devices, the join with configs.  A reply's
  arrival is taken for the moment it was read.
* **LivePlan**: outcomes that change nothing (no socket, stock build, cooldown), the
  learned ppm correction, the plan's wording.  A bandwidth or correction written by
  hand as a float would be misread when applied again (`plan.rs:24-26`); the panel
  never writes one, which is what `Written` says.
* **ConfText**: tokenizer, parser and pretty printer (golden corpus); what is inside
  a nested group, the rejection of a mixer output inside a mixer, and numbers
  of more than six decimals.
* **Checks**: paths, hints and wording.  `airband-wasm` runs the same code.
* **Secrets** (redact and restore) and **binary detection**: pure functions with
  unit tests that no other module needs.
* Routing, headers, authentication, static files, start-up and settings, the front
  end, packaging and scripts: no protocol of their own.
