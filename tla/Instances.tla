----------------------------- MODULE Instances -----------------------------
(***************************************************************************)
(* The panel's InstanceService (crates/panel/src/service.rs) with the      *)
(* stores it writes (crates/panel/src/store.rs), the systemd unit of each  *)
(* instance and the rtl_airband process the unit runs.                     *)
(*                                                                         *)
(* A request is one call of the service.  It holds the KeyedMutex of its   *)
(* name (of both names, for a rename) from its first check to its last     *)
(* write, and it is a sequence of awaited steps: every step below is one   *)
(* action, so requests for other names, a process that exits and the panel *)
(* pages that read without a lock see every state in between.              *)
(*                                                                         *)
(* A config text is abstracted to what the apply logic tells apart: the    *)
(* part reload_diff can change in a running process (live) and the part    *)
(* only a start loads (fixed).                                             *)
(***************************************************************************)
EXTENDS Integers

CONSTANTS
    N,              \* instance names are 1..N, in the order keys.sort() gives them
    Requests,       \* the calls that may be in progress at the same time
    Live, Fixed,    \* values of the two parts of a config text
    Socketed,       \* the fixed parts that configure a control socket
    Opts,           \* unit file options (JSON logging, service user and group)
    DefaultOpts,
    Ops,            \* the operations clients call
    IfMatches,      \* the versions clients send with a save
    Adopted,        \* instances that ran before the panel was installed
    CanFail,        \* the steps whose system call may fail
    None

Names == 1..N
Text == [live : Live, fixed : Fixed]
Process == [live : Live, fixed : Fixed, opts : Opts]

\* Calls that edit the config of an existing instance: PUT with restart=false,
\* PUT with a restart, POST apply-live.
Saves == {"save", "saveRestart", "live"}
AllOps == Saves \cup {"options", "restart", "restartAll", "create", "rename", "delete"}

Steps == {"base", "base2", "write", "mark", "reload", "install", "start", "stop",
          "restart", "clear", "applied", "opts", "teardown", "conf", "forget",
          "record", "record2"}

ASSUME ConstantsAssumption ==
    /\ N \in Nat \ {0}
    /\ Socketed \subseteq Fixed
    /\ DefaultOpts \in Opts
    /\ Ops \subseteq AllOps
    /\ IfMatches \subseteq Text \cup {None}
    /\ Adopted \subseteq Names
    /\ CanFail \subseteq Steps
    /\ None \notin Text \cup Process \cup Opts \cup Requests

VARIABLES
    disk,           \* <name>.conf in the instances directory
    pending,        \* PendingRestartStore, the set in memory
    pendingFile,    \* the set in .pending-restarts.json
    started,        \* .running/<name>.started.conf
    applied,        \* .running/<name>.applied.conf
    options,        \* InstanceOptionsStore
    unit,           \* the installed and enabled unit file, by the options it renders
    proc,           \* what the rtl_airband process of the unit runs
    lock,           \* who holds the KeyedMutex entry of a name
    req             \* the calls in progress

stores == <<disk, pending, pendingFile, started, applied, options>>
host == <<unit, proc>>
vars == <<stores, host, lock, req>>

Optional(S) == S \cup {None}

Idle == [pc |-> "idle", op |-> "restart", name |-> 1, to |-> 1, text |-> None,
         ifMatch |-> None, prev |-> None, opts |-> DefaultOpts, todo |-> {}]

Pcs == Steps \cup {"idle", "list", "pick", "lock", "lock2", "check", "undo"}

RequestState ==
    [pc : Pcs,
     op : AllOps, name : Names, to : Names, text : Optional(Text),
     ifMatch : Optional(Text), prev : Optional(Text), opts : Opts, todo : SUBSET Names]

TypeOK ==
    /\ disk \in [Names -> Optional(Text)]
    /\ pending \in SUBSET Names
    /\ pendingFile \in SUBSET Names
    /\ started \in [Names -> Optional(Text)]
    /\ applied \in [Names -> Optional(Text)]
    /\ options \in [Names -> Optional(Opts)]
    /\ unit \in [Names -> Optional(Opts)]
    /\ proc \in [Names -> Optional(Process)]
    /\ lock \in [Names -> Optional(Requests)]
    /\ req \in [Requests -> RequestState]

(***************************************************************************)
(* Derived values.                                                         *)
(***************************************************************************)
TextOf(p) == [live |-> p.live, fixed |-> p.fixed]

\* What `rtl_airband -c <conf>` loads when systemd starts the unit.
Loaded(n) == [live |-> disk[n].live, fixed |-> disk[n].fixed, opts |-> unit[n]]

\* Mutant: no default for an instance whose options were never set.
OptionsOfUnset(n) == options[n]

OptionsOf(n) == IF options[n] = None THEN DefaultOpts ELSE options[n]

\* BaselineStore::get with the fallback of plan_against_baseline: without a
\* record, the file being replaced stands for what the process runs.
Baseline(n, current) ==
    [started |-> IF started[n] = None THEN current ELSE started[n],
     applied |-> IF started[n] = None THEN current
                 ELSE IF applied[n] = None THEN started[n] ELSE applied[n]]

\* Mutant: trust reload_diff's answer alone, as the TypeScript panel did.
RestartOnlyUnplanned(b, next) == FALSE

\* plan_change lists a restart-only change: anything at all if the process was
\* started without a control socket, else any change reload_diff leaves out.
RestartOnly(b, next) ==
    IF b.started.fixed \in Socketed THEN b.applied.fixed # next.fixed
                                    ELSE b.applied # next

\* plan_change finds nothing to do: ApplyMethod::NoChange.
NoChange(b, next) == b.applied = next

(***************************************************************************)
(* The order of the awaited steps in each operation.                       *)
(***************************************************************************)
\* Mutant: bring the new unit up without stopping the old one first.
AfterCheckNoStop(op) ==
    CASE op \in Saves -> "base"
      [] op = "options" -> "opts"
      [] op \in {"create", "rename"} -> "write"
      [] op \in {"restart", "restartAll"} -> "restart"
      [] OTHER -> "stop"

AfterCheck(op) ==
    CASE op \in Saves -> "base"
      [] op = "options" -> "opts"
      [] op = "create" -> "write"
      [] op \in {"restart", "restartAll"} -> "restart"
      [] OTHER -> "stop"

AfterMark(op) ==
    CASE op = "save" -> "done"
      [] op = "live" -> "reload"
      [] OTHER -> "restart"

\* Mutants: a restart that does not record what it loaded; a rename and a delete
\* that leave the options under the old name.
AfterClearUnrecorded(op) ==
    IF op = "live" THEN "applied" ELSE IF op \in {"rename", "delete"} THEN "opts" ELSE "done"
AfterClearKeepsOptions(op) ==
    IF op = "live" THEN "applied" ELSE IF op \in {"rename", "delete"} THEN "forget" ELSE "record"

AfterClear(op) ==
    CASE op = "live" -> "applied"
      [] op \in {"rename", "delete"} -> "opts"
      [] OTHER -> "record"

Then(op, pc) ==
    CASE pc = "check"    -> AfterCheck(op)
      [] pc = "base2"    -> "write"
      [] pc = "write"    -> IF op \in Saves THEN "mark" ELSE "install"
      [] pc = "mark"     -> AfterMark(op)
      [] pc = "reload"   -> "clear"
      [] pc = "restart"  -> "clear"
      [] pc = "install"  -> IF op = "options" THEN "mark" ELSE "start"
      [] pc = "start"    -> IF op = "create" THEN "record" ELSE "teardown"
      [] pc = "stop"     -> IF op = "rename" THEN "write" ELSE "teardown"
      [] pc = "teardown" -> "conf"
      [] pc = "conf"     -> "clear"
      [] pc = "clear"    -> AfterClear(op)
      [] pc = "opts"     -> IF op = "options" THEN "install" ELSE "forget"
      [] pc = "forget"   -> IF op = "rename" THEN "record" ELSE "done"
      [] pc = "record"   -> "record2"
      [] OTHER           -> "done"

\* Mutant: the new files are made under the old name.
TargetOld(q) == q.name

\* The name a rename or create brings up; every other operation has one name.
Target(q) == IF q.op = "rename" THEN q.to ELSE q.name

\* Mutant: lock the old name, then the new one.
SortedNever(q) == TRUE

\* rename_instance locks keys.sort(): the smaller name first.
Sorted(q) == q.name <= q.to
FirstKey(q) == IF Sorted(q) THEN q.name ELSE q.to
SecondKey(q) == IF Sorted(q) THEN q.to ELSE q.name

At(r, pc) == req[r].pc = pc
Goto(r, pc) == req' = [req EXCEPT ![r].pc = pc] /\ UNCHANGED lock

\* The call returns (or, for restart_all_pending, its loop goes on): its guards
\* drop, whatever step it stopped at.
Leave(r) ==
    /\ lock' = [n \in Names |-> IF lock[n] = r THEN None ELSE lock[n]]
    /\ req' = [req EXCEPT ![r] =
                 IF req[r].op = "restartAll" /\ req[r].todo # {}
                   THEN [req[r] EXCEPT !.pc = "pick"] ELSE Idle]

Advance(r) == LET next == Then(req[r].op, req[r].pc) IN
    IF next = "done" THEN Leave(r) ELSE Goto(r, next)

(***************************************************************************)
(* Calls arrive.                                                           *)
(***************************************************************************)
NewCall(op, n, m, t, v, o) ==
    [Idle EXCEPT !.pc = IF op = "restartAll" THEN "list" ELSE "lock",
                 !.op = op, !.name = n, !.to = m, !.text = t, !.ifMatch = v, !.opts = o]

Submit(r) ==
    /\ At(r, "idle")
    /\ \E op \in Ops, n \in Names :
         \E m \in (IF op = "rename" THEN Names ELSE {n}),
            t \in (IF op \in Saves \cup {"create"} THEN Text ELSE {None}),
            v \in (IF op \in Saves THEN IfMatches ELSE {None}),
            o \in (IF op = "options" THEN Opts ELSE {DefaultOpts}) :
              req' = [req EXCEPT ![r] = NewCall(op, n, m, t, v, o)]
    /\ UNCHANGED <<stores, host, lock>>

\* restart_all_pending lists the instances without a lock and then restarts the
\* ones that were pending in that list, in the list's order.
List(r) ==
    /\ At(r, "list")
    /\ LET todo == {n \in pending : disk[n] # None} IN
         req' = [req EXCEPT ![r] = IF todo = {} THEN Idle
                                   ELSE [@ EXCEPT !.pc = "pick", !.todo = todo]]
    /\ UNCHANGED <<stores, host, lock>>

Pick(r) ==
    /\ At(r, "pick")
    /\ \E n \in req[r].todo :
         /\ \A m \in req[r].todo : n <= m
         /\ req' = [req EXCEPT ![r].pc = "lock", ![r].name = n, ![r].to = n,
                               ![r].todo = @ \ {n}]
    /\ UNCHANGED <<stores, host, lock>>

\* Mutant: the lock is taken although someone holds it.
AcquireHeld(r, n, pc) ==
    /\ lock' = [lock EXCEPT ![n] = r]
    /\ req' = [req EXCEPT ![r].pc = pc]
    /\ UNCHANGED <<stores, host>>

Acquire(r, n, pc) ==
    /\ lock[n] = None
    /\ lock' = [lock EXCEPT ![n] = r]
    /\ req' = [req EXCEPT ![r].pc = pc]
    /\ UNCHANGED <<stores, host>>

Lock(r) ==
    /\ At(r, "lock")
    /\ Acquire(r, FirstKey(req[r]),
               IF req[r].name = req[r].to THEN "check" ELSE "lock2")

LockSecond(r) ==
    /\ At(r, "lock2")
    /\ Acquire(r, SecondKey(req[r]), "check")

(***************************************************************************)
(* The checks that come before anything is written.                        *)
(***************************************************************************)
Admissible(q) ==
    IF q.op = "create" THEN disk[q.name] = None
    ELSE /\ disk[q.name] # None
         /\ q.ifMatch # None => q.ifMatch = disk[q.name]
         /\ q.op = "rename" => q.to # q.name /\ disk[q.to] = None

Check(r) == LET q == req[r] IN
    /\ At(r, "check")
    /\ Admissible(q)
    /\ req' = [req EXCEPT ![r] =
                 [q EXCEPT !.pc = Then(q.op, "check"),
                           !.prev = disk[q.name],
                           !.text = IF q.op = "rename" THEN disk[q.name] ELSE @,
                           !.opts = IF q.op = "rename" THEN OptionsOf(q.name) ELSE @]]
    /\ UNCHANGED <<stores, host, lock>>

\* 404, 409 (exists, If-Match) - or 400/422 for a body or options that do not pass.
Reject(r) == LET q == req[r] IN
    /\ At(r, "check")
    /\ ~Admissible(q) \/ q.op \in Saves \cup {"create", "options"}
    /\ Leave(r)
    /\ UNCHANGED <<stores, host>>

(***************************************************************************)
(* The stores.                                                             *)
(***************************************************************************)
\* validate_and_write: with no record and nothing pending, the file about to be
\* replaced is recorded as what runs.
RecordReplaced(r) == LET q == req[r] IN
    /\ At(r, "base")
    /\ IF started[q.name] = None /\ q.name \notin pending
         THEN /\ started' = [started EXCEPT ![q.name] = q.prev]
              /\ Goto(r, "base2")
         ELSE /\ UNCHANGED started
              /\ Goto(r, "write")
    /\ UNCHANGED <<disk, pending, pendingFile, applied, options, host>>

RecordReplacedApplied(r) == LET q == req[r] IN
    /\ At(r, "base2")
    /\ applied' = [applied EXCEPT ![q.name] = q.prev]
    /\ Advance(r)
    /\ UNCHANGED <<disk, pending, pendingFile, started, options, host>>

Write(r) == LET q == req[r] IN
    /\ At(r, "write")
    /\ disk' = [disk EXCEPT ![Target(q)] = q.text]
    /\ Advance(r)
    /\ UNCHANGED <<pending, pendingFile, started, applied, options, host>>

\* Mutant: the mark is kept in memory only.
MarkInMemory(r) == LET q == req[r] IN
    /\ At(r, "mark")
    /\ pending' = pending \cup {q.name}
    /\ Advance(r)
    /\ UNCHANGED <<disk, pendingFile, started, applied, options, host>>

\* Mutant: the file is replaced by one that holds the new mark only.
MarkOnlySelf(r) == LET q == req[r] IN
    /\ At(r, "mark")
    /\ pending' = pending \cup {q.name}
    /\ pendingFile' = IF q.name \in pending THEN pendingFile ELSE {q.name}
    /\ Advance(r)
    /\ UNCHANGED <<disk, started, applied, options, host>>

\* PendingRestartStore::mark and clear persist only a set that changed.
Mark(r) == LET q == req[r] IN
    /\ At(r, "mark")
    /\ pending' = pending \cup {q.name}
    /\ pendingFile' = IF q.name \in pending THEN pendingFile ELSE pending'
    /\ Advance(r)
    /\ UNCHANGED <<disk, started, applied, options, host>>

Clear(r) == LET q == req[r] IN
    /\ At(r, "clear")
    /\ pending' = pending \ {q.name}
    /\ pendingFile' = IF q.name \in pending THEN pending' ELSE pendingFile
    /\ Advance(r)
    /\ UNCHANGED <<disk, started, applied, options, host>>

\* BaselineStore::set_started, its first file: the text just saved, or the file
\* as it is read back after the (re)start.
Record(r) == LET q == req[r] IN
    /\ At(r, "record")
    /\ started' = [started EXCEPT ![Target(q)] =
                     IF q.op \in {"saveRestart", "create"} THEN q.text ELSE disk[Target(q)]]
    /\ Advance(r)
    /\ UNCHANGED <<disk, pending, pendingFile, applied, options, host>>

RecordApplied(r) == LET q == req[r] IN
    /\ At(r, "record2")
    /\ applied' = [applied EXCEPT ![Target(q)] = started[Target(q)]]
    /\ Advance(r)
    /\ UNCHANGED <<disk, pending, pendingFile, started, options, host>>

\* BaselineStore::set_applied, after a live apply that left nothing out.
SetApplied(r) == LET q == req[r] IN
    /\ At(r, "applied")
    /\ applied' = [applied EXCEPT ![q.name] = q.text]
    /\ Advance(r)
    /\ UNCHANGED <<disk, pending, pendingFile, started, options, host>>

\* BaselineStore::remove ignores the files it cannot remove.
Forget(r) == LET q == req[r] IN
    /\ At(r, "forget")
    /\ \/ /\ started' = [started EXCEPT ![q.name] = None]
          /\ applied' = [applied EXCEPT ![q.name] = None]
       \/ "forget" \in CanFail /\ UNCHANGED <<started, applied>>
    /\ Advance(r)
    /\ UNCHANGED <<disk, pending, pendingFile, options, host>>

\* InstanceOptionsStore::set, rename and remove.
OptionsAfter(q) ==
    CASE q.op = "options" -> [options EXCEPT ![q.name] = q.opts]
      [] q.op = "delete"  -> [options EXCEPT ![q.name] = None]
      [] OTHER -> IF options[q.name] = None THEN options
                  ELSE [options EXCEPT ![q.to] = options[q.name], ![q.name] = None]

SetOptions(r) ==
    /\ At(r, "opts")
    /\ options' = OptionsAfter(req[r])
    /\ Advance(r)
    /\ UNCHANGED <<disk, pending, pendingFile, started, applied, host>>

RemoveConf(r) == LET q == req[r] IN
    /\ At(r, "conf")
    /\ disk' = [disk EXCEPT ![q.name] = None]
    /\ Advance(r)
    /\ UNCHANGED <<pending, pendingFile, started, applied, options, host>>

(***************************************************************************)
(* systemd and the process.                                                *)
(***************************************************************************)
\* install_unit_file, daemon_reload (and enable, for a new unit).
Install(r) == LET q == req[r] IN
    /\ At(r, "install")
    /\ unit' = [unit EXCEPT ![Target(q)] = q.opts]
    /\ Advance(r)
    /\ UNCHANGED <<stores, proc>>

\* systemctl start does nothing to a unit that is already running.
Start(r) == LET n == Target(req[r]) IN
    /\ At(r, "start")
    /\ proc' = [proc EXCEPT ![n] = IF @ = None THEN Loaded(n) ELSE @]
    /\ Advance(r)
    /\ UNCHANGED <<stores, unit>>

\* systemctl knows no unit without a unit file: stop, restart and disable fail.
Stop(r) == LET q == req[r] IN
    /\ At(r, "stop")
    /\ unit[q.name] # None
    /\ proc' = [proc EXCEPT ![q.name] = None]
    /\ Advance(r)
    /\ UNCHANGED <<stores, unit>>

Restart(r) == LET q == req[r] IN
    /\ At(r, "restart")
    /\ unit[q.name] # None
    /\ proc' = [proc EXCEPT ![q.name] = Loaded(q.name)]
    /\ Advance(r)
    /\ UNCHANGED <<stores, unit>>

\* disable, remove_unit_file, daemon_reload.
Teardown(r) == LET q == req[r] IN
    /\ At(r, "teardown")
    /\ unit[q.name] # None
    /\ unit' = [unit EXCEPT ![q.name] = None]
    /\ Advance(r)
    /\ UNCHANGED <<stores, proc>>

\* The process exits; Restart=no, so nothing brings it back.
Exit(n) ==
    /\ proc[n] # None
    /\ proc' = [proc EXCEPT ![n] = None]
    /\ UNCHANGED <<stores, unit, lock, req>>

(***************************************************************************)
(* reload_diff over the control socket.  The daemon re-reads the file and  *)
(* takes over its live part.                                               *)
(***************************************************************************)
Reachable(q) ==
    /\ proc[q.name] # None
    /\ proc[q.name].fixed \in Socketed
    /\ q.text.fixed \in Socketed

TakesLive(n) == proc' = [proc EXCEPT ![n].live = disk[n].live]

\* Nothing skipped and the plan has nothing restart-only: pending is cleared
\* next.  The daemon does not report every part it ignores, so an answer that
\* skips nothing says nothing about the fixed part.
ReloadComplete(r) == LET q == req[r] IN
    /\ At(r, "reload")
    /\ Reachable(q)
    /\ TakesLive(q.name)
    /\ ~RestartOnly(Baseline(q.name, q.prev), q.text)
    /\ Advance(r)
    /\ UNCHANGED <<stores, unit>>

\* The live part is taken over, but the answer lists something skipped, or the
\* plan has something restart-only, or the answer is lost.
ReloadPartial(r) == LET q == req[r] IN
    /\ At(r, "reload")
    /\ Reachable(q)
    /\ TakesLive(q.name)
    /\ Leave(r)
    /\ UNCHANGED <<stores, unit>>

\* Not attempted (stock build, no socket in the new text, cooldown), unreachable,
\* a protocol error, or every change refused and listed as skipped.
ReloadNothing(r) ==
    /\ At(r, "reload")
    /\ Leave(r)
    /\ UNCHANGED <<stores, host>>

(***************************************************************************)
(* A step fails: `?` returns the error, except where the code rolls back.  *)
(***************************************************************************)
RollsBack(q) ==
    \/ q.op \in {"create", "rename"} /\ q.pc \in {"install", "start"}
    \/ q.op = "rename" /\ q.pc = "write"

MayFail(q) ==
    \/ q.pc \in CanFail \ {"forget"}
    \/ q.pc \in {"stop", "restart", "teardown"} /\ unit[q.name] = None

\* What a step that did not complete leaves changed: the JSON stores change the
\* map in memory before they write the file (options stands for both), a failed
\* restart may have stopped the unit, a failed install may have written the unit
\* file, a failed teardown may have removed it.
Halfway(q) ==
    \/ /\ q.pc = "mark"
       /\ pending' = pending \cup {q.name} /\ UNCHANGED <<options, host>>
    \/ /\ q.pc = "clear"
       /\ pending' = pending \ {q.name} /\ UNCHANGED <<options, host>>
    \/ /\ q.pc = "opts"
       /\ options' = OptionsAfter(q) /\ UNCHANGED <<pending, host>>
    \/ /\ q.pc = "restart"
       /\ proc' = [proc EXCEPT ![q.name] = None] /\ UNCHANGED <<pending, options, unit>>
    \/ /\ q.pc = "install"
       /\ unit' = [unit EXCEPT ![Target(q)] = q.opts] /\ UNCHANGED <<pending, options, proc>>
    \/ /\ q.pc = "teardown"
       /\ unit' = [unit EXCEPT ![q.name] = None] /\ UNCHANGED <<pending, options, proc>>

Fail(r) == LET q == req[r] IN
    /\ MayFail(q)
    /\ IF RollsBack(q) THEN Goto(r, "undo") ELSE Leave(r)
    /\ \/ Halfway(q)
       \/ q.pc \notin {"mark", "clear", "opts"} /\ UNCHANGED <<pending, options, host>>
    /\ UNCHANGED <<disk, pendingFile, started, applied>>

\* The rollback of create and rename; each of its steps may fail unnoticed.
Undo(r) == LET q == req[r] n == Target(q) IN
    /\ At(r, "undo")
    /\ \/ disk' = [disk EXCEPT ![n] = None]
       \/ "conf" \in CanFail /\ UNCHANGED disk
    /\ \/ unit' = [unit EXCEPT ![n] = None]
       \/ "teardown" \in CanFail /\ UNCHANGED unit
    /\ \/ /\ q.op = "rename" /\ proc[q.name] = None
          /\ proc' = [proc EXCEPT ![q.name] = Loaded(q.name)]
       \/ /\ q.op = "rename" => "start" \in CanFail
          /\ UNCHANGED proc
    /\ Leave(r)
    /\ UNCHANGED <<pending, pendingFile, started, applied, options>>

-----------------------------------------------------------------------------
Init ==
    /\ disk \in [Names -> Optional(Text)]
    /\ \A n \in Names : disk[n] # None <=> n \in Adopted
    /\ pending = {} /\ pendingFile = {}
    /\ started = [n \in Names |-> None]
    /\ applied = [n \in Names |-> None]
    /\ options = [n \in Names |-> None]
    /\ unit = [n \in Names |-> IF n \in Adopted THEN DefaultOpts ELSE None]
    /\ proc = [n \in Names |-> IF n \in Adopted THEN Loaded(n) ELSE None]
    /\ lock = [n \in Names |-> None]
    /\ req = [r \in Requests |-> Idle]

StoreStep(r) ==
    \/ RecordReplaced(r) \/ RecordReplacedApplied(r) \/ Write(r) \/ Mark(r)
    \/ Clear(r) \/ Record(r) \/ RecordApplied(r) \/ SetApplied(r) \/ Forget(r)
    \/ SetOptions(r) \/ RemoveConf(r)

UnitStep(r) ==
    \/ Install(r) \/ Start(r) \/ Stop(r) \/ Restart(r) \/ Teardown(r)
    \/ ReloadComplete(r) \/ ReloadPartial(r) \/ ReloadNothing(r)

Arrive(r) == Submit(r) \/ List(r) \/ Pick(r) \/ Lock(r) \/ LockSecond(r)

\* The steps of a call that is inside its critical section.
Proceed(r) == Check(r) \/ Reject(r) \/ StoreStep(r) \/ UnitStep(r)
GiveUp(r) == Fail(r) \/ Undo(r)

Next ==
    \/ \E r \in Requests : Arrive(r) \/ Proceed(r) \/ GiveUp(r)
    \/ \E n \in Names : Exit(n)

Spec == Init /\ [][Next]_vars

\* Every awaited call returns.  The mutex is FIFO, so a call waiting for a lock
\* that is free again and again gets it.
Fairness == \A r \in Requests :
    /\ WF_vars(List(r) \/ Pick(r) \/ Proceed(r) \/ GiveUp(r))
    /\ SF_vars(Lock(r)) /\ SF_vars(LockSecond(r))

FairSpec == Spec /\ Fairness

-----------------------------------------------------------------------------
(***************************************************************************)
(* What must hold.                                                         *)
(***************************************************************************)
Free(n) == lock[n] = None

RunsItsFile(n) == TextOf(proc[n]) = disk[n]

BaselineTrue(n) ==
    /\ started[n].fixed = proc[n].fixed
    /\ n \notin pending => Baseline(n, disk[n]).applied = disk[n]

\* Between calls, an instance that is not marked pending runs exactly the config
\* on disk: the pending chip and the "restart all" banner miss nothing.
PendingSound == \A n \in Names :
    Free(n) /\ disk[n] # None /\ proc[n] # None /\ n \notin pending => RunsItsFile(n)

\* Between calls, the recorded baseline is what the process started with, and if
\* nothing is pending it is up to date with the file: plan_change compares a new
\* config with what the process really has.
BaselineSound == \A n \in Names :
    Free(n) /\ disk[n] # None /\ proc[n] # None /\ started[n] # None => BaselineTrue(n)

\* Between calls, a name without a config has left nothing behind (no process, unit
\* file, pending mark, baseline or options) that a later instance of that name
\* would inherit.
NothingLeftBehind == \A n \in Names :
    Free(n) /\ disk[n] = None
        => /\ proc[n] = None /\ unit[n] = None /\ n \notin pending
           /\ started[n] = None /\ options[n] = None

\* Between calls, the unit file of an instance is the one its stored options
\* render to, through option changes, renames, deletes and re-creations.
UnitRendersOptions == \A n \in Names :
    Free(n) /\ unit[n] # None => unit[n] = OptionsOf(n)

\* The two units of a rename fight for the same receiver, so the old process is
\* gone before the new one starts: while a rename is in progress, never both.
NeverBothRunning == \A r \in Requests :
    req[r].op = "rename" /\ req[r].pc \in Steps \cup {"undo"} /\ req[r].pc # "stop"
        => proc[req[r].name] = None \/ proc[req[r].to] = None

\* A save with If-Match replaces only the version it was made from, although the
\* check and the write are many awaits apart (409 otherwise).
NoLostUpdate == [][\A r \in Requests : LET q == req[r] IN
    q.pc = "write" /\ q.op \in Saves /\ q.ifMatch # None /\ disk'[q.name] # disk[q.name]
        => disk[q.name] = q.ifMatch]_vars

\* A config leaves a name only when that name is deleted, when a rename has put the
\* same text under the new name, or when a create or rename takes back the file it
\* has just written.
ConfNeverLost == [][\A n \in Names :
    disk[n] # None /\ disk'[n] = None
        => \E r \in Requests :
             \/ req[r].op = "delete" /\ req[r].name = n
             \/ req[r].op = "rename" /\ req[r].name = n /\ disk[req[r].to] = disk[n]
             \/ req[r].op \in {"create", "rename"} /\ Target(req[r]) = n /\ At(r, "undo")
    ]_vars

\* Every call that arrives returns: in particular two renames that swap names, or a
\* rename and a restart of all pending instances, never wait for each other.
EveryCallReturns == \A r \in Requests : ~At(r, "idle") ~> At(r, "idle")

\* ApplyMethod::NoChange, "The running process already has this configuration".
NoChangeIsTrue == \A n \in Names, t \in Text :
    Free(n) /\ disk[n] # None /\ proc[n] # None /\ started[n] # None
        => (NoChange(Baseline(n, disk[n]), t) => TextOf(proc[n]) = t)
=============================================================================
