----------------------- MODULE InstancesFaults_proofs -----------------------
(***************************************************************************)
(* Proofs about InstancesFaults, for every number of instances and of      *)
(* concurrent calls, any texts, any set of failing steps and any events.   *)
(***************************************************************************)
EXTENDS InstancesFaults, Instances_proofs

-----------------------------------------------------------------------------
(***************************************************************************)
(* The inductive invariant.                                                *)
(***************************************************************************)
\* What a call that has restarted a process knows of it, whatever went wrong before.
RestartInv(r) == LET q == req[r] IN
    q.op \in RestartOps =>
      /\ q.pc \in {"clear", "record", "record2"} => Loads(q.name)
      /\ q.pc \in {"record", "record2"} => q.name \notin pending
      /\ q.pc = "record2" => started[q.name] = disk[q.name]

\* An instance between calls.
Quiet(n) ==
    IF disk[n] = None THEN proc[n] = None
    ELSE /\ started[n] # None => Based(n)
         /\ started[n] = None => n \notin pendingFile
         /\ n \notin pending => Loads(n) /\ (started[n] # None => AppliedOf(n) = disk[n])

\* An instance that a call works on.
InSave(q, n) ==
    /\ q.pc = "base2" => started[n] = disk[n] /\ n \notin pending /\ Loads(n)
    /\ q.pc = "write" => Quiet(n) /\ started[n] # None
    /\ q.pc = "mark" => Based(n)
    /\ q.pc = "reload" => Based(n) /\ n \in pending
    /\ q.op = "live" /\ q.pc \in {"clear", "applied"} =>
         Based(n) /\ Loads(n) /\ started[n].fixed = disk[n].fixed

BroughtUp(q, n) ==
    /\ q.pc \in {"stop", "write", "install", "start"} => proc[n] = None
    /\ q.pc \in {"teardown", "conf", "clear", "opts", "forget", "record", "record2"} => Loads(n)
    /\ q.pc = "record2" => started[n] = disk[n]

TornDown(q, n) ==
    /\ q.pc \in {"write", "install", "start", "teardown", "conf", "clear", "opts", "forget",
                 "record", "record2"} => proc[n] = None
    /\ q.pc \in {"clear", "opts", "forget", "record", "record2"} => disk[n] = None

InCall(q, n) ==
    /\ q.pc \in {"lock2", "check", "base"} => Quiet(n)
    /\ q.op \in Saves => InSave(q, n)
    /\ q.op \in {"create", "rename"} /\ n = Target(q) => BroughtUp(q, n)
    /\ q.op \in {"rename", "delete"} /\ n = q.name => TornDown(q, n)
    /\ q.pc # "undo"

Filed(n) == n \in pending => n \in pendingFile

NameInv(n) ==
    /\ Filed(n)
    /\ lock[n] = None => Quiet(n)
    /\ lock[n] # None => InCall(req[lock[n]], n)

IInv ==
    /\ CallsInv
    /\ damaged \in SUBSET Names
    /\ \A r \in Requests : RestartInv(r)
    /\ \A n \in Names \ damaged : NameInv(n)

-----------------------------------------------------------------------------
(***************************************************************************)
(* The events keep the invariant of the calls.                             *)
(***************************************************************************)
LEMMA IdleCall ==
    ASSUME NEW r \in Requests, req'[r] = Idle, \A n \in Names : lock'[n] # r
    PROVE  CallInv(r)'
BY DEF Idle, CallInv, ShapeInv, LockInv, FileInv, Outside, Saves

LEMMA CancelKept ==
    ASSUME CallsInv, NEW r \in Requests, Cancel(r)
    PROVE  CallsKept(r) /\ FilesKept(r)
<1>1. CallsKept(r)
  BY DEF Cancel, CallsKept, CallsInv, TypeOK
<1> QED BY <1>1, HalfwayKept DEF Cancel, CallsInv

LEMMA CancelCalls ==
    ASSUME CallsInv, NEW r \in Requests, Cancel(r)
    PROVE  CallsInv'
<1>1. TypeOK'
  <2>1. req' \in [Requests -> RequestState] /\ lock' \in [Names -> Optional(Requests)]
    BY IdleType DEF Cancel, CallsInv, TypeOK, Optional
  <2> QED BY <2>1, HalfwayType DEF Cancel, CallsInv, TypeOK, HostType
<1>2. CallInv(r)'
  BY IdleCall, ConstantsAssumption DEF Cancel, CallsInv, TypeOK
<1>3. \A s \in Requests \ {r} : CallInv(s)'
  BY CancelKept, OtherCalls
<1> QED BY <1>1, <1>2, <1>3 DEF CallsInv

LEMMA DownCalls ==
    ASSUME CallsInv, Crash \/ Reboot
    PROVE  CallsInv'
<1>1. PanelDown
  BY DEF Crash, Reboot
<1>2. \A n \in Names : unit[n] # None /\ disk[n] # None => Loaded(n) \in Process
  BY LoadedType DEF CallsInv
<1>3. proc' \in [Names -> Optional(Process)]
  BY <1>2 DEF Crash, Reboot, CallsInv, TypeOK, Optional
<1>4. TypeOK'
  BY <1>1, <1>3, IdleType DEF PanelDown, CallsInv, TypeOK, Optional
<1>5. ASSUME NEW r \in Requests PROVE CallInv(r)'
  BY <1>1, IdleCall, ConstantsAssumption DEF PanelDown
<1> QED BY <1>4, <1>5 DEF CallsInv

LEMMA OutsideRestartCalls ==
    ASSUME CallsInv, NEW n \in Names, OutsideRestart(n)
    PROVE  CallsInv'
<1>1. Loaded(n) \in Process
  BY LoadedType DEF OutsideRestart, CallsInv
<1>2. TypeOK'
  BY <1>1 DEF OutsideRestart, CallsInv, TypeOK, Optional, stores
<1>3. UNCHANGED <<disk, unit, lock, req>>
  BY DEF OutsideRestart, stores
<1> QED BY <1>2, <1>3 DEF CallsInv, CallInv, ShapeInv, LockInv, FileInv, FirstKey, Sorted, Target

(***************************************************************************)
(* What a step of a call leaves of the other calls and the other names.    *)
(***************************************************************************)
LEMMA OtherRestarts ==
    ASSUME CallsInv, NEW r \in Requests, CallsKept(r), FilesKept(r),
           NEW s \in Requests \ {r}, RestartInv(s)
    PROVE  RestartInv(s)'
<1> DEFINE q == req[s]
<1>1. req'[s] = q /\ s # r /\ q.name \in Names
  BY Fields DEF CallsKept, CallsInv
<1>2. CASE q.pc \notin {"clear", "record", "record2"}
  BY <1>1, <1>2 DEF RestartInv
<1>3. CASE q.pc \in {"clear", "record", "record2"}
  <2>1. lock[q.name] = s
    BY <1>3, Holds DEF CallsInv, Outside
  <2>2. /\ disk'[q.name] = disk[q.name] /\ proc'[q.name] = proc[q.name]
        /\ started'[q.name] = started[q.name] /\ (q.name \in pending' <=> q.name \in pending)
    BY <1>1, <2>1 DEF FilesKept
  <2> QED BY <1>1, <2>2 DEF RestartInv, Loads
<1> QED BY <1>2, <1>3

\* An instance none of whose stores changes.
Same(n) ==
    /\ disk'[n] = disk[n] /\ started'[n] = started[n] /\ applied'[n] = applied[n]
    /\ proc'[n] = proc[n]
    /\ n \in pending' <=> n \in pending
    /\ n \in pendingFile' => n \in pendingFile \cup pending
    /\ n \in pending /\ n \in pendingFile => n \in pendingFile'

LEMMA QuietSame ==
    ASSUME NEW n \in Names, Same(n), Quiet(n), Filed(n)
    PROVE  Quiet(n)' /\ Filed(n)'
BY DEF Same, Filed, Quiet, Based, AppliedOf, Loads

LEMMA InCallSame ==
    ASSUME NEW n \in Names, Same(n), NEW q, InCall(q, n), Filed(n)
    PROVE  /\ q.pc \in {"lock2", "check", "base"} => Quiet(n)'
           /\ q.op \in Saves => InSave(q, n)'
           /\ q.op \in {"create", "rename"} /\ n = Target(q) => BroughtUp(q, n)'
           /\ q.op \in {"rename", "delete"} /\ n = q.name => TornDown(q, n)'
           /\ q.pc # "undo"
<1>1. Quiet(n) => Quiet(n)'
  BY QuietSame
<1>2. Based(n) => Based(n)'
  BY DEF Same, Based, AppliedOf
<1>3. Loads(n) => Loads(n)'
  BY DEF Same, Loads
<1> QED BY <1>1, <1>2, <1>3 DEF Same, InCall, InSave, BroughtUp, TornDown

LEMMA OtherNames ==
    ASSUME CallsInv, NEW r \in Requests, CallsKept(r), FilesKept(r),
           NEW n \in Names, NameInv(n), lock[n] # r, lock'[n] # r
    PROVE  NameInv(n)'
<1>1. Same(n)
  BY DEF FilesKept, Same
<1>2. lock'[n] = lock[n]
  BY DEF CallsKept
<1>3. CASE lock[n] = None
  BY <1>1, <1>2, <1>3, QuietSame DEF NameInv
<1>4. CASE lock[n] # None
  <2> PICK q : q = req[lock[n]]
    OBVIOUS
  <2>1. lock[n] \in Requests \ {r}
    BY <1>4 DEF CallsInv, TypeOK, Optional
  <2>2. req'[lock'[n]] = q
    BY <1>2, <2>1 DEF CallsKept
  <2>3. InCall(q, n)
    BY <1>4 DEF NameInv
  <2>4. Filed(n)
    BY DEF NameInv
  <2>5. Filed(n)'
    BY <1>1, <2>4 DEF Same, Filed
  <2>6. InCall(q, n)'
    BY <1>1, <2>3, <2>4, InCallSame DEF InCall
  <2> QED BY <1>2, <1>4, <2>2, <2>5, <2>6 DEF NameInv
<1> QED BY <1>3, <1>4

(***************************************************************************)
(* A step of a call and a name that the call holds: the step has to leave  *)
(* a quiet instance if the call returns, and what the next step may rely   *)
(* on if it does not.                                                      *)
(***************************************************************************)
HeldBy(r, q, n) ==
    /\ q = req[r] /\ q \in RequestState /\ q.op \in AllOps /\ q.pc \in StepsOf(q.op)
    /\ n \in {q.name, q.to} /\ (q.op # "rename" => n = q.name /\ q.to = q.name)
    /\ q.op = "rename" => q.to # q.name
    /\ q.op \in Saves \cup {"create", "rename"} => q.text \in Text
    /\ FileInv(r) /\ RestartInv(r) /\ InCall(q, n) /\ Filed(n)

LEMMA HeldName ==
    ASSUME CallsInv, NEW r \in Requests, RestartInv(r),
           req[r].pc \notin Outside \cup {"lock2", "check"},
           NEW n \in Names, lock[n] = r, NameInv(n)
    PROVE  HeldBy(r, req[r], n)
BY Fields, ConstantsAssumption DEF CallsInv, CallInv, LockInv, ShapeInv, NameInv, HeldBy

\* A call q that goes on at a step, with respect to a name it holds.
Ready(q, pc, n) ==
    /\ Filed(n)
    /\ pc = "done" => Quiet(n)
    /\ pc # "done" => InCall([q EXCEPT !.pc = pc], n)

LEMMA AdvanceName ==
    ASSUME CallsInv, NEW r \in Requests, Advance(r), NEW n \in Names, lock[n] = r,
           NEW q, q = req[r], Ready(q, Then(q.op, q.pc), n)'
    PROVE  NameInv(n)'
<1>1. r # None
  BY ConstantsAssumption
<1>2. CASE Then(q.op, q.pc) = "done"
  <2>1. lock'[n] = None
    BY <1>2 DEF Advance, Leave
  <2> QED BY <1>2, <2>1 DEF NameInv, Ready
<1>3. CASE Then(q.op, q.pc) # "done"
  <2>1. lock'[n] = r /\ req'[r] = [q EXCEPT !.pc = Then(q.op, q.pc)]
    BY <1>3 DEF Advance, Goto, CallsInv, TypeOK
  <2> QED BY <1>1, <1>3, <2>1 DEF NameInv, Ready
<1> QED BY <1>2, <1>3

\* The parts of a call that Ready looks at.
LEMMA Moved ==
    ASSUME NEW q \in RequestState, NEW pc
    PROVE  LET p == [q EXCEPT !.pc = pc] IN
           p.pc = pc /\ p.op = q.op /\ p.name = q.name /\ p.to = q.to /\ Target(p) = Target(q)
BY DEF RequestState, Target

LEMMA RecordReplacedName ==
    ASSUME CallsInv, NEW r \in Requests, RecordReplaced(r), NEW n \in Names,
           NEW q, HeldBy(r, q, n)
    PROVE  \E pc \in Pcs : Goto(r, pc) /\ Ready(q, pc, n)'
<1>1. q \in RequestState /\ q = req[r] /\ q.pc = "base" /\ q.op \in Saves /\ n = q.name
  BY DEF RecordReplaced, At, HeldBy, StepsOf, AllOps, Saves
<1>2. Quiet(n) /\ Filed(n) /\ disk[n] # None /\ disk[n] = q.prev
  BY <1>1 DEF HeldBy, InCall, FileInv
<1>3. UNCHANGED <<disk, pending, pendingFile, applied, proc>>
  BY DEF RecordReplaced, host
<1>4. CASE started[n] = None /\ n \notin pending
  <2>1. started'[n] = disk[n] /\ Goto(r, "base2")
    BY <1>1, <1>2, <1>4 DEF RecordReplaced, CallsInv, TypeOK
  <2>2. Loads(n)' /\ Filed(n)' /\ n \notin pending'
    BY <1>2, <1>3, <1>4 DEF Quiet, Loads, Filed
  <2>3. Ready(q, "base2", n)'
    BY <1>1, <1>3, <2>1, <2>2, Moved DEF Ready, InCall, InSave, Saves
  <2> QED BY <2>1, <2>3 DEF Pcs, Steps
<1>5. CASE ~(started[n] = None /\ n \notin pending)
  <2>1. UNCHANGED started /\ Goto(r, "write")
    BY <1>1, <1>5 DEF RecordReplaced
  <2>2. started[n] # None
    BY <1>2, <1>5 DEF Quiet, Filed
  <2>3. Quiet(n)' /\ Filed(n)'
    BY <1>2, <1>3, <2>1 DEF Quiet, Based, Loads, AppliedOf, Filed
  <2>4. Ready(q, "write", n)'
    BY <1>1, <2>1, <2>2, <2>3, Moved DEF Ready, InCall, InSave, Saves
  <2> QED BY <2>1, <2>4 DEF Pcs, Steps
<1> QED BY <1>4, <1>5

LEMMA RecordReplacedAppliedName ==
    ASSUME CallsInv, NEW r \in Requests, RecordReplacedApplied(r), NEW n \in Names,
           NEW q, HeldBy(r, q, n)
    PROVE  Ready(q, Then(q.op, q.pc), n)'
<1>1. q \in RequestState /\ q = req[r] /\ q.pc = "base2" /\ q.op \in Saves /\ n = q.name
  BY DEF RecordReplacedApplied, At, HeldBy, StepsOf, AllOps, Saves
<1>2. /\ Filed(n) /\ disk[n] # None /\ disk[n] = q.prev
      /\ started[n] = disk[n] /\ n \notin pending /\ Loads(n)
  BY <1>1 DEF HeldBy, InCall, InSave, FileInv
<1>3. UNCHANGED <<disk, started, pending, pendingFile, proc>>
  BY DEF RecordReplacedApplied, host
<1>4. applied'[n] = disk[n]
  BY <1>1, <1>2 DEF RecordReplacedApplied, CallsInv, TypeOK
<1>5. AppliedOf(n)' = disk[n]
  BY <1>2, <1>4 DEF AppliedOf
<1>6. Loads(n)' /\ Based(n)'
  BY <1>2, <1>3, <1>5 DEF Loads, Based, TextOf
<1>7. Quiet(n)' /\ Filed(n)'
  BY <1>2, <1>3, <1>5, <1>6 DEF Quiet, Filed
<1>8. Then(q.op, q.pc) = "write"
  BY <1>1 DEF Then
<1> QED BY <1>1, <1>2, <1>3, <1>7, <1>8, Moved DEF Ready, InCall, InSave, Saves

LEMMA WriteName ==
    ASSUME CallsInv, NEW r \in Requests, Write(r), NEW n \in Names,
           NEW q, HeldBy(r, q, n)
    PROVE  Ready(q, Then(q.op, q.pc), n)'
<1>1. /\ q \in RequestState /\ q.pc = "write" /\ q.op \in Saves \cup {"create", "rename"}
      /\ Filed(n)
  BY DEF Write, At, HeldBy, StepsOf, AllOps, Saves
<1>2. Filed(n)'
  BY <1>1 DEF Write, Filed
<1>3. CASE q.op \in Saves
  <2>1. Then(q.op, q.pc) = "mark" /\ n = q.name
    BY <1>1, <1>3 DEF Then, HeldBy, Saves
  <2>2. Based(n)
    BY <1>1, <1>3, <2>1 DEF HeldBy, InCall, InSave, Quiet, FileInv
  <2>3. Based(n)'
    BY <2>2 DEF Write, Based, AppliedOf, host
  <2> QED BY <1>1, <1>2, <1>3, <2>1, <2>3, Moved DEF Ready, InCall, InSave, Saves
<1>4. CASE q.op \in {"create", "rename"}
  <2>1. Then(q.op, q.pc) = "install"
    BY <1>1, <1>4 DEF Then, Saves
  <2>2. proc'[n] = None
    BY <1>1, <1>4 DEF Write, HeldBy, InCall, BroughtUp, TornDown, Target, host
  <2> QED BY <1>1, <1>2, <1>4, <2>1, <2>2, Moved DEF Ready, InCall, BroughtUp, TornDown, Saves
<1> QED BY <1>1, <1>3, <1>4

LEMMA MarkName ==
    ASSUME CallsInv, NEW r \in Requests, Mark(r), NEW n \in Names,
           NEW q, HeldBy(r, q, n)
    PROVE  Ready(q, Then(q.op, q.pc), n)'
<1>1. /\ q \in RequestState /\ q = req[r] /\ q.pc = "mark" /\ q.op \in Saves \cup {"options"}
      /\ n = q.name /\ Filed(n)
  BY DEF Mark, At, HeldBy, StepsOf, AllOps, Saves
<1>2. Filed(n)' /\ n \in pending'
  BY <1>1 DEF Mark, Filed
<1>3. UNCHANGED <<disk, started, applied, proc>>
  BY DEF Mark, host
<1>4. CASE q.op \in {"save", "live"}
  <2>1. Based(n) /\ disk[n] # None
    BY <1>1, <1>4, ConstantsAssumption DEF HeldBy, InCall, InSave, FileInv, Saves
  <2>2. Based(n)'
    BY <1>3, <2>1 DEF Based, AppliedOf
  <2>3. Quiet(n)'
    BY <1>2, <1>3, <2>1, <2>2 DEF Quiet, Based
  <2>4. Then(q.op, q.pc) = IF q.op = "save" THEN "done" ELSE "reload"
    BY <1>1, <1>4 DEF Then, AfterMark
  <2> QED BY <1>1, <1>2, <1>4, <2>2, <2>3, <2>4, Moved DEF Ready, InCall, InSave, Saves
<1>5. CASE q.op \in {"saveRestart", "options"}
  <2>1. Then(q.op, q.pc) = "restart"
    BY <1>1, <1>5 DEF Then, AfterMark
  <2> QED BY <1>1, <1>2, <1>5, <2>1, Moved DEF Ready, InCall, InSave, Saves
<1> QED BY <1>1, <1>4, <1>5 DEF Saves

LEMMA ClearName ==
    ASSUME CallsInv, NEW r \in Requests, Clear(r), NEW n \in Names,
           NEW q, HeldBy(r, q, n)
    PROVE  Ready(q, Then(q.op, q.pc), n)'
<1>1. /\ q \in RequestState /\ q = req[r] /\ q.pc = "clear" /\ Filed(n)
      /\ q.op \in RestartOps \cup {"live", "rename", "delete"}
  BY DEF Clear, At, HeldBy, StepsOf, AllOps, Saves, RestartOps
<1>2. Filed(n)'
  BY <1>1 DEF Clear, Filed
<1>3. UNCHANGED <<disk, started, applied, proc>>
  BY DEF Clear, host
<1>4. CASE q.op = "live"
  <2>1. Based(n) /\ Loads(n) /\ started[n].fixed = disk[n].fixed
    BY <1>1, <1>4 DEF HeldBy, InCall, InSave, Saves
  <2>2. Based(n)' /\ Loads(n)' /\ started'[n].fixed = disk'[n].fixed
    BY <1>3, <2>1 DEF Based, AppliedOf, Loads
  <2>3. Then(q.op, q.pc) = "applied"
    BY <1>1, <1>4 DEF Then, AfterClear
  <2> QED BY <1>1, <1>2, <1>4, <2>2, <2>3, Moved DEF Ready, InCall, InSave, Saves
<1>5. CASE q.op \in {"rename", "delete"}
  <2>1. Then(q.op, q.pc) = "opts"
    BY <1>1, <1>5 DEF Then, AfterClear
  <2>2. /\ q.op = "rename" /\ n = Target(q) => Loads(n)
        /\ n = q.name => proc[n] = None /\ disk[n] = None
    BY <1>1, <1>5 DEF HeldBy, InCall, BroughtUp, TornDown
  <2>3. q.op = "rename" /\ n = Target(q) => Loads(n)'
    BY <1>3, <2>2 DEF Loads
  <2> QED BY <1>1, <1>2, <1>3, <1>5, <2>1, <2>2, <2>3, Moved
       DEF Ready, InCall, BroughtUp, TornDown, Saves
<1>6. CASE q.op \in RestartOps
  <2>1. Then(q.op, q.pc) = "record"
    BY <1>1, <1>6 DEF Then, AfterClear, RestartOps
  <2> QED BY <1>1, <1>2, <1>6, <2>1, Moved DEF Ready, InCall, InSave, Saves, RestartOps
<1> QED BY <1>1, <1>4, <1>5, <1>6

LEMMA RecordName ==
    ASSUME CallsInv, NEW r \in Requests, Record(r), NEW n \in Names,
           NEW q, HeldBy(r, q, n)
    PROVE  Ready(q, Then(q.op, q.pc), n)'
<1>1. /\ q \in RequestState /\ q = req[r] /\ q.pc = "record" /\ Filed(n)
      /\ q.op \in RestartOps \cup {"create", "rename"}
  BY DEF Record, At, HeldBy, StepsOf, AllOps, Saves, RestartOps
<1>2. Then(q.op, q.pc) = "record2"
  BY <1>1 DEF Then
<1>3. UNCHANGED <<disk, pending, pendingFile, proc>>
  BY DEF Record, host
<1>4. Filed(n)'
  BY <1>1, <1>3 DEF Filed
<1>5. CASE q.op \in {"create", "rename"}
  <2>1. /\ n = Target(q) => Loads(n) /\ disk[n] = q.text
        /\ q.op = "rename" /\ n = q.name => proc[n] = None /\ disk[n] = None
    BY <1>1, <1>5 DEF HeldBy, InCall, BroughtUp, TornDown, FileInv
  <2>2. n = Target(q) => Loads(n)' /\ started'[n] = disk'[n]
    BY <1>1, <1>3, <1>5, <2>1 DEF Record, Loads, CallsInv, TypeOK
  <2> QED BY <1>1, <1>2, <1>3, <1>4, <1>5, <2>1, <2>2, Moved
       DEF Ready, InCall, BroughtUp, TornDown, Saves
<1>6. CASE q.op \in RestartOps
  BY <1>1, <1>2, <1>4, <1>6, Moved DEF Ready, InCall, InSave, Saves, RestartOps
<1> QED BY <1>1, <1>5, <1>6

LEMMA RecordAppliedName ==
    ASSUME CallsInv, NEW r \in Requests, RecordApplied(r), NEW n \in Names,
           NEW q, HeldBy(r, q, n)
    PROVE  Ready(q, Then(q.op, q.pc), n)'
<1>1. /\ q \in RequestState /\ q = req[r] /\ q.pc = "record2" /\ Filed(n)
      /\ q.op \in RestartOps \cup {"create", "rename"}
  BY DEF RecordApplied, At, HeldBy, StepsOf, AllOps, Saves, RestartOps
<1>2. Then(q.op, q.pc) = "done"
  BY <1>1 DEF Then
<1>3. UNCHANGED <<disk, started, pending, pendingFile, proc>>
  BY DEF RecordApplied, host
<1>4. CASE n = Target(q)
  <2>1. Loads(n) /\ started[n] = disk[n] /\ disk[n] # None
    BY <1>1, <1>4, ConstantsAssumption
       DEF HeldBy, RestartInv, RestartOps, InCall, BroughtUp, FileInv, Target, Saves
  <2>2. applied'[n] = disk[n]
    BY <1>1, <1>4, <2>1 DEF RecordApplied, CallsInv, TypeOK
  <2>3. AppliedOf(n)' = disk[n]
    BY <2>1, <2>2 DEF AppliedOf
  <2>4. Loads(n)' /\ Based(n)'
    BY <1>3, <2>1, <2>3 DEF Loads, Based, TextOf
  <2>5. Quiet(n)' /\ Filed(n)'
    BY <1>1, <1>3, <2>1, <2>3, <2>4 DEF Quiet, Filed
  <2> QED BY <1>2, <2>5 DEF Ready
<1>5. CASE n # Target(q)
  <2>1. q.op = "rename" /\ n = q.name
    BY <1>5 DEF HeldBy, Target
  <2>2. proc[n] = None /\ disk[n] = None
    BY <1>1, <2>1 DEF HeldBy, InCall, TornDown
  <2> QED BY <1>1, <1>2, <1>3, <2>2 DEF Ready, Quiet, Filed
<1> QED BY <1>4, <1>5

LEMMA SetAppliedName ==
    ASSUME CallsInv, NEW r \in Requests, SetApplied(r), NEW n \in Names,
           NEW q, HeldBy(r, q, n)
    PROVE  Ready(q, Then(q.op, q.pc), n)'
<1>1. q \in RequestState /\ q = req[r] /\ q.pc = "applied" /\ q.op = "live" /\ n = q.name
  BY DEF SetApplied, At, HeldBy, StepsOf, AllOps, Saves
<1>2. /\ Based(n) /\ Loads(n) /\ started[n].fixed = disk[n].fixed /\ Filed(n)
      /\ disk[n] = q.text /\ disk[n] # None
  BY <1>1, ConstantsAssumption DEF HeldBy, InCall, InSave, FileInv, Saves
<1>3. UNCHANGED <<disk, started, pending, pendingFile, proc>>
  BY DEF SetApplied, host
<1>4. applied'[n] = disk[n]
  BY <1>1, <1>2 DEF SetApplied, CallsInv, TypeOK
<1>5. AppliedOf(n)' = disk[n]
  BY <1>2, <1>4 DEF AppliedOf
<1>6. Loads(n)' /\ Based(n)'
  BY <1>2, <1>3, <1>5 DEF Loads, Based
<1>7. Quiet(n)' /\ Filed(n)'
  BY <1>2, <1>3, <1>5, <1>6 DEF Quiet, Based, Filed
<1>8. Then(q.op, q.pc) = "done"
  BY <1>1 DEF Then
<1> QED BY <1>7, <1>8 DEF Ready

LEMMA ForgetName ==
    ASSUME CallsInv, NEW r \in Requests, Forget(r), NEW n \in Names,
           NEW q, HeldBy(r, q, n)
    PROVE  Ready(q, Then(q.op, q.pc), n)'
<1>1. /\ q \in RequestState /\ q = req[r] /\ q.pc = "forget" /\ q.op \in {"rename", "delete"}
      /\ Filed(n)
  BY DEF Forget, At, HeldBy, StepsOf, AllOps, Saves
<1>2. /\ q.op = "rename" /\ n = Target(q) => Loads(n)
      /\ n = q.name => proc[n] = None /\ disk[n] = None
  BY <1>1 DEF HeldBy, InCall, BroughtUp, TornDown
<1>3. UNCHANGED <<disk, pending, pendingFile, proc>>
  BY DEF Forget, host
<1>4. Filed(n)'
  BY <1>1, <1>3 DEF Filed
<1>5. CASE q.op = "delete"
  BY <1>1, <1>2, <1>3, <1>4, <1>5 DEF Ready, Quiet, Then, HeldBy
<1>6. CASE q.op = "rename"
  <2>1. Then(q.op, q.pc) = "record"
    BY <1>1, <1>6 DEF Then
  <2>2. n = Target(q) => Loads(n)'
    BY <1>2, <1>3, <1>6 DEF Loads
  <2> QED BY <1>1, <1>2, <1>3, <1>4, <1>6, <2>1, <2>2, Moved
       DEF Ready, InCall, BroughtUp, TornDown, Saves
<1> QED BY <1>1, <1>5, <1>6

LEMMA SetOptionsName ==
    ASSUME CallsInv, NEW r \in Requests, SetOptions(r), NEW n \in Names,
           NEW q, HeldBy(r, q, n)
    PROVE  Ready(q, Then(q.op, q.pc), n)'
<1>1. /\ q \in RequestState /\ q.pc = "opts" /\ q.op \in {"options", "rename", "delete"}
      /\ q = req[r] /\ Filed(n)
  BY DEF SetOptions, At, HeldBy, StepsOf, AllOps, Saves
<1>2. UNCHANGED <<disk, started, applied, pending, pendingFile, proc>>
  BY DEF SetOptions, host
<1>3. Filed(n)'
  BY <1>1, <1>2 DEF Filed
<1>4. CASE q.op = "options"
  BY <1>1, <1>3, <1>4, Moved DEF Ready, InCall, InSave, Then, Saves
<1>5. CASE q.op \in {"rename", "delete"}
  <2>1. Then(q.op, q.pc) = "forget"
    BY <1>1, <1>5 DEF Then
  <2>2. /\ q.op = "rename" /\ n = Target(q) => Loads(n)
        /\ n = q.name => proc[n] = None /\ disk[n] = None
    BY <1>1, <1>5 DEF HeldBy, InCall, BroughtUp, TornDown
  <2>3. q.op = "rename" /\ n = Target(q) => Loads(n)'
    BY <1>2, <2>2 DEF Loads
  <2> QED BY <1>1, <1>2, <1>3, <1>5, <2>1, <2>2, <2>3, Moved
       DEF Ready, InCall, BroughtUp, TornDown, Saves
<1> QED BY <1>1, <1>4, <1>5

LEMMA RemoveConfName ==
    ASSUME CallsInv, NEW r \in Requests, RemoveConf(r), NEW n \in Names,
           NEW q, HeldBy(r, q, n)
    PROVE  Ready(q, Then(q.op, q.pc), n)'
<1>1. /\ q \in RequestState /\ q = req[r] /\ q.pc = "conf" /\ q.op \in {"rename", "delete"}
      /\ Filed(n) /\ q.name \in Names
  BY DEF RemoveConf, At, HeldBy, StepsOf, AllOps, Saves, RequestState
<1>2. /\ q.op = "rename" /\ n = Target(q) => Loads(n)
      /\ n = q.name => proc[n] = None
  BY <1>1 DEF HeldBy, InCall, BroughtUp, TornDown
<1>3. /\ UNCHANGED <<started, applied, pending, pendingFile, proc>>
      /\ disk' = [disk EXCEPT ![q.name] = None]
  BY <1>1 DEF RemoveConf, host
<1>4. Filed(n)'
  BY <1>1, <1>3 DEF Filed
<1>5. n = q.name => disk'[n] = None
  BY <1>1, <1>3 DEF CallsInv, TypeOK
<1>6. q.op = "rename" /\ n = Target(q) => n # q.name /\ Loads(n)'
  BY <1>2, <1>3 DEF Loads, HeldBy, Target, CallsInv, TypeOK
<1>7. Then(q.op, q.pc) = "clear"
  BY <1>1 DEF Then
<1> QED BY <1>1, <1>2, <1>3, <1>4, <1>5, <1>6, <1>7, Moved
     DEF Ready, InCall, BroughtUp, TornDown, Saves

LEMMA GotoName ==
    ASSUME CallsInv, NEW r \in Requests, NEW pc \in Pcs, Goto(r, pc), NEW n \in Names,
           lock[n] = r, pc # "done", NEW q, q = req[r], Ready(q, pc, n)'
    PROVE  NameInv(n)'
<1>1. r # None
  BY ConstantsAssumption
<1>2. lock'[n] = r /\ req'[r] = [q EXCEPT !.pc = pc]
  BY DEF Goto, CallsInv, TypeOK
<1> QED BY <1>1, <1>2 DEF NameInv, Ready

LEMMA StoreStepName ==
    ASSUME CallsInv, NEW r \in Requests, RestartInv(r), StoreStep(r),
           NEW n \in Names, lock[n] = r, NameInv(n)
    PROVE  NameInv(n)'
<1> PICK q : q = req[r]
  OBVIOUS
<1>1. q.pc \notin Outside \cup {"lock2", "check"}
  BY DEF StoreStep, RecordReplaced, RecordReplacedApplied, Write, Mark, Clear, Record,
         RecordApplied, SetApplied, Forget, SetOptions, RemoveConf, At, Outside
<1>2. HeldBy(r, q, n)
  BY <1>1, HeldName
<1>3. CASE RecordReplaced(r)
  <2>1. PICK pc \in Pcs : Goto(r, pc) /\ Ready(q, pc, n)'
    BY <1>2, <1>3, RecordReplacedName
  <2> QED BY <2>1, GotoName DEF Pcs, Steps
<1>4. CASE ~RecordReplaced(r)
  <2>1. Advance(r)
    BY <1>4 DEF StoreStep, RecordReplacedApplied, Write, Mark, Clear, Record,
         RecordApplied, SetApplied, Forget, SetOptions, RemoveConf
  <2>2. Ready(q, Then(q.op, q.pc), n)'
    BY <1>2, <1>4, RecordReplacedAppliedName, WriteName, MarkName, ClearName, RecordName,
       RecordAppliedName, SetAppliedName, ForgetName, SetOptionsName, RemoveConfName
       DEF StoreStep
  <2> QED BY <2>1, <2>2, AdvanceName
<1> QED BY <1>3, <1>4

(***************************************************************************)
(* systemd and reload_diff.                                                *)
(***************************************************************************)
\* Installing, stopping and tearing down: no process but the old one stops.
LEMMA UnitFileName ==
    ASSUME CallsInv, NEW r \in Requests, Install(r) \/ Stop(r) \/ Teardown(r) \/ Restart(r),
           NEW n \in Names, NEW q, HeldBy(r, q, n)
    PROVE  Ready(q, Then(q.op, q.pc), n)'
<1>1. q \in RequestState /\ q = req[r] /\ Filed(n) /\ q.name \in Names
  BY DEF HeldBy, RequestState
<1>2. UNCHANGED <<disk, started, applied, pending, pendingFile>>
  BY DEF Install, Stop, Teardown, Restart, stores
<1>3. Filed(n)'
  BY <1>1, <1>2 DEF Filed
<1>4. CASE Install(r)
  <2>1. q.pc = "install" /\ q.op \in {"create", "rename", "options"} /\ UNCHANGED proc
    BY <1>1, <1>4 DEF Install, At, HeldBy, StepsOf, AllOps, Saves
  <2>2. q.op # "options" => proc[n] = None
    BY <2>1 DEF HeldBy, InCall, BroughtUp, TornDown, Target
  <2>3. Then(q.op, q.pc) = IF q.op = "options" THEN "mark" ELSE "start"
    BY <2>1 DEF Then
  <2> QED BY <1>1, <1>3, <2>1, <2>2, <2>3, Moved
       DEF Ready, InCall, BroughtUp, TornDown, Saves
<1>5. CASE Stop(r)
  <2>1. q.pc = "stop" /\ q.op \in {"rename", "delete"}
    BY <1>1, <1>5 DEF Stop, At, HeldBy, StepsOf, AllOps, Saves
  <2>2. proc'[n] = None
    BY <1>1, <1>5, <2>1 DEF Stop, HeldBy, InCall, BroughtUp, Target, CallsInv, TypeOK
  <2>3. Then(q.op, q.pc) = IF q.op = "rename" THEN "write" ELSE "teardown"
    BY <2>1 DEF Then
  <2> QED BY <1>1, <1>3, <2>1, <2>2, <2>3, Moved
       DEF Ready, InCall, BroughtUp, TornDown, Saves
<1>6. CASE Teardown(r)
  <2>1. q.pc = "teardown" /\ q.op \in {"rename", "delete"} /\ UNCHANGED proc
    BY <1>1, <1>6 DEF Teardown, At, HeldBy, StepsOf, AllOps, Saves
  <2>2. /\ q.op = "rename" /\ n = Target(q) => Loads(n)
        /\ n = q.name => proc[n] = None
    BY <2>1 DEF HeldBy, InCall, BroughtUp, TornDown
  <2>3. q.op = "rename" /\ n = Target(q) => Loads(n)'
    BY <1>2, <2>1, <2>2 DEF Loads
  <2>4. Then(q.op, q.pc) = "conf"
    BY <2>1 DEF Then
  <2> QED BY <1>1, <1>3, <2>1, <2>2, <2>3, <2>4, Moved
       DEF Ready, InCall, BroughtUp, TornDown, Saves
<1>7. CASE Restart(r)
  <2>1. q.pc = "restart" /\ q.op \in RestartOps
    BY <1>1, <1>7 DEF Restart, At, HeldBy, StepsOf, AllOps, Saves, RestartOps
  <2>2. Then(q.op, q.pc) = "clear"
    BY <2>1 DEF Then
  <2> QED BY <1>1, <1>3, <2>1, <2>2, Moved DEF Ready, InCall, InSave, Saves, RestartOps
<1> QED BY <1>4, <1>5, <1>6, <1>7

LEMMA StartName ==
    ASSUME CallsInv, NEW r \in Requests, Start(r), NEW n \in Names,
           NEW q, HeldBy(r, q, n)
    PROVE  Ready(q, Then(q.op, q.pc), n)'
<1>1. /\ q \in RequestState /\ q = req[r] /\ q.pc = "start" /\ q.op \in {"create", "rename"}
      /\ Filed(n) /\ Target(q) \in Names
  BY DEF Start, At, HeldBy, StepsOf, AllOps, Saves, RequestState, Target
<1>2. UNCHANGED <<disk, started, applied, pending, pendingFile>>
  BY DEF Start, stores
<1>3. Filed(n)'
  BY <1>1, <1>2 DEF Filed
<1>4. proc[n] = None /\ (n = Target(q) => disk[n] # None)
  BY <1>1, ConstantsAssumption
     DEF HeldBy, InCall, BroughtUp, TornDown, FileInv, Target, Saves
<1>5. n = Target(q) => proc'[n] = Loaded(n)
  BY <1>1, <1>4 DEF Start, CallsInv, TypeOK
<1>6. n = Target(q) => Loads(n)'
  BY <1>2, <1>4, <1>5, LoadedText DEF Loads, TextOf, CallsInv
<1>7. n # Target(q) => proc'[n] = None
  BY <1>1, <1>4 DEF Start, CallsInv, TypeOK
<1>8. n = q.name /\ q.op = "rename" => n # Target(q)
  BY DEF HeldBy, Target
<1>9. Then(q.op, q.pc) = IF q.op = "create" THEN "record" ELSE "teardown"
  BY <1>1 DEF Then
<1> QED BY <1>1, <1>3, <1>6, <1>7, <1>8, <1>9, Moved
     DEF Ready, InCall, BroughtUp, TornDown, Saves

\* A reload leaves a process whose live part is the file's, or the one it had.
LEMMA ReloadName ==
    ASSUME CallsInv, NEW r \in Requests,
           ReloadComplete(r) \/ ReloadPartial(r) \/ ReloadNothing(r),
           NEW n \in Names, NEW q, HeldBy(r, q, n)
    PROVE  /\ ReloadComplete(r) => Ready(q, Then(q.op, q.pc), n)'
           /\ Quiet(n)' /\ Filed(n)'
<1>1. q \in RequestState /\ q = req[r] /\ q.pc = "reload" /\ q.op = "live" /\ n = q.name
  BY DEF ReloadComplete, ReloadPartial, ReloadNothing, At, HeldBy, StepsOf, AllOps, Saves
<1>2. Based(n) /\ n \in pending /\ Filed(n) /\ disk[n] = q.text /\ q.text \in Text
  BY <1>1 DEF HeldBy, InCall, InSave, FileInv, Saves
<1>3. UNCHANGED <<disk, started, applied, pending, pendingFile>>
  BY DEF ReloadComplete, ReloadPartial, ReloadNothing, stores
<1>4. \/ UNCHANGED proc
      \/ /\ proc' = [proc EXCEPT ![n].live = disk[n].live]
         /\ proc[n] # None
  BY <1>1 DEF ReloadComplete, ReloadPartial, ReloadNothing, Reachable, TakesLive, host
<1>5. proc[n] # None => proc[n] \in Process
  BY DEF CallsInv, TypeOK, Optional
<1>6. proc'[n] # None => proc[n] # None /\ proc'[n].fixed = proc[n].fixed
  BY <1>4, <1>5 DEF CallsInv, TypeOK, Process
<1>7. Based(n)'
  BY <1>2, <1>3, <1>6 DEF Based, AppliedOf
<1>8. Quiet(n)' /\ Filed(n)'
  BY <1>2, <1>3, <1>7, ConstantsAssumption DEF Quiet, Based, Filed
<1>9. ASSUME ReloadComplete(r)
      PROVE  Ready(q, Then(q.op, q.pc), n)'
  <2>1. /\ proc[n] # None /\ proc[n].fixed \in Socketed
        /\ proc' = [proc EXCEPT ![n].live = disk[n].live]
        /\ ~RestartOnly(Baseline(n, q.prev), q.text)
    BY <1>1, <1>9 DEF ReloadComplete, Reachable, TakesLive
  <2>2. /\ Baseline(n, q.prev).started = started[n]
        /\ Baseline(n, q.prev).applied = AppliedOf(n)
    BY <1>2 DEF Baseline, Based, AppliedOf
  <2>3. started[n].fixed = disk[n].fixed /\ proc[n].fixed = disk[n].fixed
    BY <1>2, <2>1, <2>2 DEF RestartOnly, Based
  <2>4. proc'[n].live = disk[n].live /\ proc'[n].fixed = disk[n].fixed
    BY <1>5, <2>1, <2>3 DEF CallsInv, TypeOK, Process
  <2>5. Loads(n)'
    BY <1>2, <1>3, <2>4 DEF Loads, TextOf, Text
  <2>6. Then(q.op, q.pc) = "clear"
    BY <1>1 DEF Then
  <2> QED BY <1>1, <1>3, <1>7, <1>8, <2>3, <2>5, <2>6, Moved DEF Ready, InCall, InSave, Saves
<1> QED BY <1>8, <1>9

LEMMA LeaveName ==
    ASSUME CallsInv, NEW r \in Requests, Leave(r), NEW n \in Names, lock[n] = r,
           Quiet(n)', Filed(n)'
    PROVE  NameInv(n)'
BY DEF Leave, NameInv

LEMMA UnitStepName ==
    ASSUME CallsInv, NEW r \in Requests, RestartInv(r), UnitStep(r),
           NEW n \in Names, lock[n] = r, NameInv(n)
    PROVE  NameInv(n)'
<1> PICK q : q = req[r]
  OBVIOUS
<1>1. q.pc \notin Outside \cup {"lock2", "check"}
  BY DEF UnitStep, Install, Start, Stop, Restart, Teardown, ReloadComplete, ReloadPartial,
         ReloadNothing, At, Outside
<1>2. HeldBy(r, q, n)
  BY <1>1, HeldName
<1>3. CASE ReloadPartial(r) \/ ReloadNothing(r)
  BY <1>2, <1>3, ReloadName, LeaveName DEF ReloadPartial, ReloadNothing
<1>4. CASE ~(ReloadPartial(r) \/ ReloadNothing(r))
  <2>1. Advance(r)
    BY <1>4 DEF UnitStep, Install, Start, Stop, Restart, Teardown, ReloadComplete
  <2>2. Ready(q, Then(q.op, q.pc), n)'
    BY <1>2, <1>4, UnitFileName, StartName, ReloadName DEF UnitStep
  <2> QED BY <2>1, <2>2, AdvanceName
<1> QED BY <1>3, <1>4

(***************************************************************************)
(* A call takes a lock, and checks what it is asked.                       *)
(***************************************************************************)
LEMMA CheckName ==
    ASSUME CallsInv, NEW r \in Requests, Check(r) \/ Reject(r),
           NEW n \in Names, lock[n] = r, NameInv(n)
    PROVE  NameInv(n)'
<1> PICK q : q = req[r]
  OBVIOUS
<1>1. /\ q \in RequestState /\ q.pc = "check" /\ q.op \in AllOps
      /\ n \in {q.name, q.to} /\ (q.op # "rename" => n = q.name)
      /\ Quiet(n) /\ Filed(n) /\ r # None
  BY Fields, ConstantsAssumption
     DEF CallsInv, CallInv, LockInv, ShapeInv, NameInv, InCall, Check, Reject, At
<1>2. UNCHANGED <<disk, started, applied, pending, pendingFile, proc>>
  BY DEF Check, Reject, stores, host
<1>3. Quiet(n)' /\ Filed(n)'
  BY <1>1, <1>2 DEF Quiet, Based, AppliedOf, Loads, Filed
<1>4. CASE Reject(r)
  BY <1>3, <1>4, LeaveName DEF Reject
<1>5. CASE Check(r)
  <2>1. PICK p : p = req'[r]
    OBVIOUS
  <2>2. /\ p.pc = AfterCheck(q.op) /\ p.op = q.op /\ p.name = q.name /\ p.to = q.to
        /\ lock' = lock
    BY <1>1, <1>5, <2>1 DEF Check, CallsInv, TypeOK, RequestState, Then
  <2>3. /\ q.op = "create" => disk[q.name] = None
        /\ q.op = "rename" => q.to # q.name /\ disk[q.to] = None
    BY <1>1, <1>5 DEF Check, Admissible
  <2>4. q.op \in {"create", "rename"} /\ n = Target(q) => proc'[n] = None
    BY <1>1, <1>2, <2>3 DEF Quiet, Target
  <2>5. InCall(p, n)'
    BY <1>1, <1>3, <2>2, <2>4
       DEF InCall, InSave, BroughtUp, TornDown, AfterCheck, AllOps, Saves, Target
  <2> QED BY <1>1, <1>3, <2>1, <2>2, <2>5 DEF NameInv
<1> QED BY <1>4, <1>5

LEMMA ArriveName ==
    ASSUME CallsInv, NEW r \in Requests, Arrive(r),
           NEW n \in Names, NameInv(n), lock'[n] = r
    PROVE  NameInv(n)'
<1>1. UNCHANGED <<disk, started, applied, pending, pendingFile, proc>>
  BY DEF Arrive, Submit, List, Pick, Lock, LockSecond, Acquire, stores, host
<1>2. Filed(n)' /\ (Quiet(n) => Quiet(n)') /\ r # None
  BY <1>1, ConstantsAssumption DEF NameInv, Quiet, Based, AppliedOf, Loads, Filed
<1>3. /\ req[r] \in RequestState /\ req \in [Requests -> RequestState]
      /\ ShapeInv(r) /\ LockInv(r)
  BY DEF CallsInv, TypeOK, CallInv
<1>4. CASE Submit(r) \/ List(r) \/ Pick(r)
  <2>1. lock[n] = r /\ req[r].pc \in Outside
    BY <1>4 DEF Submit, List, Pick, At, Outside
  <2> QED BY <1>3, <2>1 DEF LockInv, Outside
<1>5. CASE Lock(r) \/ LockSecond(r)
  <2>1. req[r].pc \in {"lock", "lock2"}
    BY <1>5 DEF Lock, LockSecond, At
  <2>2. PICK m \in Names, pc \in {"check", "lock2"} : Acquire(r, m, pc)
    BY <1>3, <1>5 DEF Lock, LockSecond, FirstKey, SecondKey, RequestState
  <2>3. Quiet(n)
    <3>1. CASE lock[n] = r
      BY <1>2, <1>3, <2>1, <3>1 DEF LockInv, Outside, NameInv, InCall
    <3>2. CASE lock[n] # r
      <4>1. n = m /\ lock[n] = None
        BY <2>2, <3>2 DEF Acquire, CallsInv, TypeOK
      <4> QED BY <4>1 DEF NameInv
    <3> QED BY <3>1, <3>2
  <2>4. PICK p : p = req'[r]
    OBVIOUS
  <2>5. p.pc \in {"check", "lock2"}
    BY <1>3, <2>2, <2>4 DEF Acquire, RequestState
  <2>6. InCall(p, n)'
    BY <1>2, <2>3, <2>5 DEF InCall, InSave, BroughtUp, TornDown
  <2> QED BY <1>2, <2>4, <2>6 DEF NameInv
<1> QED BY <1>4, <1>5 DEF Arrive

(***************************************************************************)
(* A call that restarts a process knows what it runs, even if something    *)
(* went wrong before: this is why a restart that succeeds heals.           *)
(***************************************************************************)
LEMMA OwnRestart ==
    ASSUME CallsInv, NEW r \in Requests, RestartInv(r), Proceed(r)
    PROVE  RestartInv(r)'
<1> PICK q : q = req[r]
  OBVIOUS
<1>1. /\ TypeOK /\ CallInv(r) /\ q \in RequestState /\ q.name \in Names
      /\ req \in [Requests -> RequestState]
  BY Fields DEF CallsInv, TypeOK
<1>2. PICK p : p = req'[r]
  OBVIOUS
<1>3. SUFFICES ASSUME p.op \in RestartOps, p.pc \in {"clear", "record", "record2"}
               PROVE  /\ Loads(p.name)'
                      /\ p.pc \in {"record", "record2"} => p.name \notin pending'
                      /\ p.pc = "record2" => started'[p.name] = disk'[p.name]
  BY <1>2 DEF RestartInv
<1>4. CASE Leave(r)
  BY <1>1, <1>2, <1>3, <1>4 DEF Leave, Idle, RequestState
<1>5. CASE Advance(r) /\ ~Leave(r)
  <2>1. p = [q EXCEPT !.pc = Then(q.op, q.pc)]
    BY <1>1, <1>2, <1>5 DEF Advance, Goto
  <2>2. p.op = q.op /\ p.name = q.name /\ p.pc = Then(q.op, q.pc)
    BY <1>1, <2>1 DEF RequestState
  <2>3. q.pc # "check"
    BY <1>1, <1>3, <2>2 DEF Then, AfterCheck, RestartOps, Saves
  <2>4. q.pc \in {"restart", "clear", "record"}
    <3>1. q.pc \notin Outside \cup {"lock2", "check"}
      BY <1>3, <2>2, <2>3 DEF Then, Outside
    <3>2. q.pc \in StepsOf(q.op)
      BY <1>1, <3>1 DEF CallInv, ShapeInv
    <3> QED BY <1>3, <2>2, <3>2 DEF Then, AfterMark, AfterClear, StepsOf, RestartOps, Saves
  <2>5. Target(q) = q.name
    BY <1>3, <2>2 DEF Target, RestartOps
  <2>6. CASE q.pc = "restart"
    <3>1. Restart(r)
      BY <1>5, <2>6 DEF Proceed, Check, Reject, StoreStep, UnitStep, RecordReplaced,
         RecordReplacedApplied, Write, Mark, Clear, Record, RecordApplied, SetApplied, Forget,
         SetOptions, RemoveConf, Install, Start, Stop, Teardown, ReloadComplete,
         ReloadPartial, ReloadNothing, At
    <3>2. disk[q.name] # None
      BY <1>1, <1>3, <2>2, <2>6, ConstantsAssumption
         DEF CallInv, ShapeInv, FileInv, RestartOps, Saves, Outside
    <3>3. proc'[q.name] = Loaded(q.name) /\ disk' = disk
      BY <1>1, <3>1 DEF Restart, stores, TypeOK
    <3>4. Loads(q.name)'
      BY <1>1, <3>2, <3>3, LoadedText DEF Loads, TextOf
    <3> QED BY <1>3, <2>2, <2>6, <3>4 DEF Then, RestartOps
  <2>7. CASE q.pc = "clear"
    <3>1. Clear(r)
      BY <1>5, <2>7 DEF Proceed, Check, Reject, StoreStep, UnitStep, RecordReplaced,
         RecordReplacedApplied, Write, Mark, Restart, Record, RecordApplied, SetApplied, Forget,
         SetOptions, RemoveConf, Install, Start, Stop, Teardown, ReloadComplete,
         ReloadPartial, ReloadNothing, At
    <3>2. Loads(q.name)
      BY <1>3, <2>2, <2>7 DEF RestartInv
    <3>3. Loads(q.name)' /\ q.name \notin pending'
      BY <3>1, <3>2 DEF Clear, Loads, host
    <3> QED BY <1>3, <2>2, <2>7, <3>3 DEF Then, AfterClear, RestartOps
  <2>8. CASE q.pc = "record"
    <3>1. Record(r)
      BY <1>5, <2>8 DEF Proceed, Check, Reject, StoreStep, UnitStep, RecordReplaced,
         RecordReplacedApplied, Write, Mark, Restart, Clear, RecordApplied, SetApplied, Forget,
         SetOptions, RemoveConf, Install, Start, Stop, Teardown, ReloadComplete,
         ReloadPartial, ReloadNothing, At
    <3>2. Loads(q.name) /\ q.name \notin pending
      BY <1>3, <2>2, <2>8 DEF RestartInv
    <3>3. q.op \in Saves => disk[q.name] = q.text
      BY <1>1, <2>8 DEF CallInv, FileInv
    <3>4. started'[q.name] = disk[q.name]
      BY <1>1, <1>3, <2>2, <2>5, <3>1, <3>3 DEF Record, TypeOK, RestartOps, Saves
    <3>5. Loads(q.name)' /\ q.name \notin pending' /\ disk' = disk
      BY <3>1, <3>2 DEF Record, Loads, host
    <3> QED BY <2>2, <3>4, <3>5
  <2> QED BY <2>4, <2>6, <2>7, <2>8
<1>6. CASE Check(r)
  <2>1. p.pc = AfterCheck(q.op)
    BY <1>1, <1>2, <1>6 DEF Check, RequestState, Then, At
  <2> QED BY <1>3, <2>1 DEF AfterCheck
<1>7. CASE RecordReplaced(r)
  <2>1. p.pc \in {"base2", "write"}
    BY <1>1, <1>2, <1>7 DEF RecordReplaced, Goto, RequestState
  <2> QED BY <1>3, <2>1
<1> QED BY <1>4, <1>5, <1>6, <1>7
     DEF Proceed, Reject, StoreStep, UnitStep, RecordReplacedApplied, Write, Mark, Clear,
         Record, RecordApplied, SetApplied, Forget, SetOptions, RemoveConf, Install, Start,
         Stop, Restart, Teardown, ReloadComplete, ReloadPartial, ReloadNothing

LEMMA OwnOutside ==
    ASSUME CallsInv, NEW r \in Requests, Arrive(r) \/ GiveUp(r) \/ Cancel(r)
    PROVE  RestartInv(r)'
<1>1. req[r] \in RequestState /\ req \in [Requests -> RequestState]
  BY DEF CallsInv, TypeOK
<1>2. req'[r].pc \notin {"clear", "record", "record2"}
  <2>1. CASE Submit(r)
    <3>1. PICK q : Shaped(q) /\ req' = [req EXCEPT ![r] = q]
      BY <2>1, SubmitShape
    <3> QED BY <1>1, <3>1 DEF Shaped
  <2>2. CASE List(r)
    BY <1>1, <2>2 DEF List, Idle, RequestState
  <2>5. CASE Pick(r)
    BY <1>1, <2>5 DEF Pick, RequestState
  <2>6. CASE Lock(r) \/ LockSecond(r)
    BY <1>1, <2>6 DEF Lock, LockSecond, Acquire, RequestState
  <2>3. CASE GiveUp(r)
    <3>1. Leave(r) \/ Goto(r, "undo")
      BY <2>3 DEF GiveUp, Fail, Undo
    <3> QED BY <1>1, <3>1 DEF Leave, Goto, Idle, RequestState
  <2>4. CASE Cancel(r)
    BY <1>1, <2>4 DEF Cancel, Idle
  <2> QED BY <2>1, <2>2, <2>3, <2>4, <2>5, <2>6 DEF Arrive
<1> QED BY <1>2 DEF RestartInv

LEMMA HealedName ==
    ASSUME CallsInv, NEW r \in Requests, RestartInv(r), Proceed(r),
           NEW n \in Healed(r)
    PROVE  NameInv(n)'
<1> PICK q : q = req[r]
  OBVIOUS
<1>1. q.pc = "record2" /\ q.op \notin {"create", "rename"} /\ n = q.name
  BY DEF Healed, At
<1>2. /\ TypeOK /\ CallInv(r) /\ q \in RequestState /\ q.op \in AllOps /\ n \in Names
      /\ q.pc \in StepsOf(q.op) /\ lock[n] = r
  BY <1>1, Fields, Holds DEF CallsInv, CallInv, ShapeInv, Outside
<1>3. q.op \in RestartOps /\ Target(q) = n
  BY <1>1, <1>2 DEF StepsOf, AllOps, Saves, RestartOps, Target
<1>4. RecordApplied(r)
  BY <1>1 DEF Proceed, Check, Reject, StoreStep, UnitStep, RecordReplaced,
     RecordReplacedApplied, Write, Mark, Restart, Record, Clear, SetApplied, Forget,
     SetOptions, RemoveConf, Install, Start, Stop, Teardown, ReloadComplete,
     ReloadPartial, ReloadNothing, At
<1>5. Loads(n) /\ n \notin pending /\ started[n] = disk[n]
  BY <1>1, <1>3 DEF RestartInv
<1>6. disk[n] # None
  BY <1>1, <1>2, <1>3, ConstantsAssumption
     DEF CallInv, ShapeInv, FileInv, RestartOps, Saves, Outside
<1>7. UNCHANGED <<disk, started, pending, pendingFile, proc>>
  BY <1>4 DEF RecordApplied, host
<1>8. applied'[n] = disk[n]
  BY <1>2, <1>3, <1>4, <1>5 DEF RecordApplied, TypeOK
<1>9. AppliedOf(n)' = disk[n]
  BY <1>6, <1>8 DEF AppliedOf
<1>10. Loads(n)' /\ Based(n)'
  BY <1>5, <1>6, <1>7, <1>9 DEF Loads, Based, TextOf
<1>11. Quiet(n)' /\ Filed(n)'
  BY <1>5, <1>6, <1>7, <1>9, <1>10 DEF Quiet, Filed
<1>12. Leave(r)
  BY <1>1, <1>4 DEF RecordApplied, Advance, Then
<1> QED BY <1>2, <1>11, <1>12, LeaveName

(***************************************************************************)
(* Every step of the specification.                                        *)
(***************************************************************************)
LEMMA KeptStep ==
    ASSUME CallsInv, NEW r \in Requests, Arrive(r) \/ Proceed(r) \/ GiveUp(r) \/ Cancel(r)
    PROVE  CallsKept(r) /\ FilesKept(r) /\ CallsInv'
<1>1. CASE Cancel(r)
  BY <1>1, CancelKept, CancelCalls
<1>2. CASE Arrive(r) \/ Proceed(r) \/ GiveUp(r)
  <2>1. [Next]_vars
    BY <1>2 DEF Next
  <2> QED BY <1>2, <2>1, StepKept, CallsStep
<1> QED BY <1>1, <1>2

LEMMA OtherRestartInvs ==
    ASSUME IInv, NEW r \in Requests, CallsKept(r), FilesKept(r), RestartInv(r)'
    PROVE  \A s \in Requests : RestartInv(s)'
BY OtherRestarts DEF IInv

LEMMA CallStep ==
    ASSUME IInv, NEW r \in Requests, Arrive(r) \/ Proceed(r),
           damaged' = damaged \ Healed(r)
    PROVE  IInv'
<1>1. CallsInv /\ CallsKept(r) /\ FilesKept(r) /\ CallsInv' /\ RestartInv(r)
  BY KeptStep DEF IInv
<1>2. RestartInv(r)'
  BY <1>1, OwnRestart, OwnOutside
<1>3. \A s \in Requests : RestartInv(s)'
  BY <1>1, <1>2, OtherRestartInvs
<1>4. ASSUME NEW n \in Names \ damaged PROVE NameInv(n)'
  <2>1. NameInv(n)
    BY DEF IInv
  <2>2. CASE lock[n] # r /\ lock'[n] # r
    BY <1>1, <2>1, <2>2, OtherNames
  <2>3. CASE Arrive(r) /\ lock'[n] = r
    BY <1>1, <2>1, <2>3, ArriveName
  <2>4. CASE Arrive(r) /\ lock[n] = r
    <3>1. lock'[n] = r
      BY <1>1, <2>4 DEF Arrive, Submit, List, Pick, Lock, LockSecond, Acquire, CallsInv, TypeOK
    <3> QED BY <2>3, <2>4, <3>1
  <2>5. CASE Proceed(r) /\ lock[n] = r
    BY <1>1, <2>1, <2>5, CheckName, StoreStepName, UnitStepName DEF Proceed
  <2>6. Proceed(r) /\ lock'[n] = r => lock[n] = r
    <3>1. ASSUME Proceed(r) PROVE lock' = lock \/ Leave(r)
      BY <3>1 DEF Proceed, Check, Reject, StoreStep, UnitStep, RecordReplaced,
         RecordReplacedApplied, Write, Mark, Clear, Record, RecordApplied, SetApplied, Forget,
         SetOptions, RemoveConf, Install, Start, Stop, Restart, Teardown, ReloadComplete,
         ReloadPartial, ReloadNothing, Advance, Goto
    <3> QED BY <3>1, ConstantsAssumption DEF Leave
  <2> QED BY <2>2, <2>3, <2>4, <2>5, <2>6
<1>5. ASSUME NEW n \in Healed(r) PROVE NameInv(n)'
  <2>1. Proceed(r)
    BY <1>5 DEF Healed, Arrive, Submit, List, Pick, Lock, LockSecond, At
  <2> QED BY <1>1, <1>5, <2>1, HealedName
<1> QED BY <1>1, <1>3, <1>4, <1>5 DEF IInv

\* A call that ends early damages what it held, and nothing else.
LEMMA BrokenCall ==
    ASSUME IInv, NEW r \in Requests, GiveUp(r) \/ Cancel(r), Damage(Held(r))
    PROVE  IInv'
<1>1. CallsInv /\ CallsKept(r) /\ FilesKept(r) /\ CallsInv'
  BY KeptStep DEF IInv
<1>2. \A s \in Requests : RestartInv(s)'
  BY <1>1, OwnOutside, OtherRestartInvs
<1>3. lock' = lock \/ lock' = [n \in Names |-> IF lock[n] = r THEN None ELSE lock[n]]
  BY DEF GiveUp, Cancel, Fail, Undo, Goto, Leave
<1>4. ASSUME NEW n \in Names \ damaged' PROVE NameInv(n)'
  <2>1. NameInv(n) /\ lock[n] # r
    BY <1>4 DEF IInv, Damage, Held
  <2>2. lock'[n] # r
    BY <1>3, <2>1
  <2> QED BY <1>1, <2>1, <2>2, OtherNames
<1>5. damaged' \in SUBSET Names
  BY DEF IInv, Damage, Held
<1> QED BY <1>1, <1>2, <1>4, <1>5 DEF IInv

\* The panel or the host goes down: the calls are gone, the names without one are
\* as the files say.
LEMMA DownStep ==
    ASSUME IInv, Crash \/ Reboot
    PROVE  IInv'
<1>1. CallsInv /\ CallsInv' /\ TypeOK
  BY DownCalls DEF IInv, CallsInv
<1>2. /\ PanelDown
      /\ \/ UNCHANGED proc /\ Damage(Interrupted)
         \/ /\ proc' = [n \in Names |->
                  IF unit[n] # None /\ disk[n] # None THEN Loaded(n) ELSE None]
            /\ Damage(Interrupted \cup pending)
  BY DEF Crash, Reboot
<1>3. ASSUME NEW r \in Requests PROVE RestartInv(r)'
  BY <1>2 DEF PanelDown, RestartInv, Idle
<1>4. ASSUME NEW n \in Names \ damaged' PROVE NameInv(n)'
  <2>1. NameInv(n) /\ lock[n] = None
    BY <1>2, <1>4 DEF IInv, Damage, Interrupted
  <2>2. Quiet(n) /\ Filed(n) /\ lock'[n] = None
    BY <1>2, <2>1 DEF NameInv, PanelDown
  <2>3. /\ UNCHANGED <<disk, started, applied, pendingFile>>
        /\ n \in pending' <=> n \in pendingFile
    BY <1>2 DEF PanelDown
  <2>4. CASE UNCHANGED proc
    BY <2>2, <2>3, <2>4 DEF NameInv, Quiet, Based, AppliedOf, Loads, Filed
  <2>5. CASE /\ proc' = [m \in Names |->
                  IF unit[m] # None /\ disk[m] # None THEN Loaded(m) ELSE None]
             /\ Damage(Interrupted \cup pending)
    <3>1. n \notin pending /\ proc'[n] = IF unit[n] # None /\ disk[n] # None THEN Loaded(n) ELSE None
      BY <1>4, <2>5 DEF Damage
    <3>2. Loads(n)' /\ (proc'[n] # None => disk[n] # None /\ proc'[n].fixed = disk[n].fixed)
      BY <1>1, <2>3, <3>1, LoadedText DEF Loads
    <3>3. AppliedOf(n)' = AppliedOf(n)
      BY <2>3 DEF AppliedOf
    <3>4. started[n] # None /\ disk[n] # None => Based(n)'
      BY <2>2, <2>3, <3>1, <3>2, <3>3 DEF Quiet, Based
    <3>5. Quiet(n)'
      BY <2>2, <2>3, <3>1, <3>2, <3>3, <3>4 DEF Quiet
    <3> QED BY <2>2, <2>3, <3>5 DEF NameInv, Filed
  <2> QED BY <1>2, <2>4, <2>5
<1>5. damaged' \in SUBSET Names
  BY <1>1, <1>2 DEF IInv, Damage, Interrupted, TypeOK
<1> QED BY <1>1, <1>3, <1>4, <1>5 DEF IInv

\* A process that exits, or is started again with the file on disk.
LEMMA ProcessStep ==
    ASSUME IInv, NEW m \in Names,
           OutsideRestart(m) \/ (Exit(m) /\ UNCHANGED damaged)
    PROVE  IInv'
<1>1. CallsInv /\ TypeOK /\ CallsInv'
  <2>1. CASE Exit(m)
    BY <2>1, CallsStep DEF IInv, CallsInv, Next
  <2> QED BY <2>1, OutsideRestartCalls DEF IInv, CallsInv
<1>2. /\ UNCHANGED <<disk, pending, pendingFile, started, applied, lock, req>>
      /\ \A n \in Names \ {m} : proc'[n] = proc[n]
  BY <1>1 DEF OutsideRestart, Exit, stores, TypeOK
<1>3. \/ proc'[m] = None /\ UNCHANGED damaged
      \/ /\ disk[m] # None /\ proc'[m] = Loaded(m)
         /\ Damage({m} \cap (Interrupted \cup pending))
  BY <1>1 DEF OutsideRestart, Exit, TypeOK
<1>4. Loads(m)'
  BY <1>1, <1>2, <1>3, LoadedText DEF Loads
<1>5. ASSUME NEW r \in Requests PROVE RestartInv(r)'
  <2>1. RestartInv(r) /\ req[r].name \in Names
    BY <1>1, Fields DEF IInv
  <2>2. Loads(req[r].name) => Loads(req[r].name)'
    BY <1>2, <1>4, <2>1 DEF Loads
  <2> QED BY <1>2, <2>1, <2>2 DEF RestartInv
<1>6. ASSUME NEW n \in Names \ damaged' PROVE NameInv(n)'
  <2>1. NameInv(n) /\ Filed(n) /\ Filed(n)'
    BY <1>2, <1>3, <1>6 DEF IInv, Damage, NameInv, Filed
  <2>2. AppliedOf(n)' = AppliedOf(n)
    BY <1>2 DEF AppliedOf
  <2>3. CASE proc'[n] = proc[n] \/ proc'[n] = None
    <3>1. (Based(n) => Based(n)') /\ (Loads(n) => Loads(n)')
      BY <1>2, <2>2, <2>3 DEF Based, Loads
    <3>2. Quiet(n) => Quiet(n)'
      BY <1>2, <2>2, <2>3, <3>1 DEF Quiet
    <3>3. PICK q : q = req[lock[n]]
      OBVIOUS
    <3>4. InCall(q, n) => InCall(q, n)'
      BY <1>2, <2>3, <3>1, <3>2 DEF InCall, InSave, BroughtUp, TornDown
    <3> QED BY <1>2, <2>1, <3>2, <3>3, <3>4 DEF NameInv
  <2>4. CASE ~(proc'[n] = proc[n] \/ proc'[n] = None)
    <3>1. /\ n = m /\ disk[n] # None /\ proc'[n] = Loaded(n)
          /\ n \notin Interrupted \cup pending
      BY <1>2, <1>3, <1>6, <2>4 DEF Damage
    <3>2. lock[n] = None /\ n \notin pending /\ Quiet(n)
      BY <2>1, <3>1 DEF Interrupted, NameInv
    <3>3. proc'[n].fixed = disk[n].fixed
      BY <1>1, <3>1, LoadedText
    <3>4. Quiet(n)'
      BY <1>2, <1>4, <2>2, <3>1, <3>2, <3>3 DEF Quiet, Based
    <3> QED BY <1>2, <2>1, <3>2, <3>4 DEF NameInv
  <2> QED BY <2>3, <2>4
<1>7. damaged' \in SUBSET Names
  BY <1>3 DEF IInv, Damage
<1> QED BY <1>1, <1>5, <1>6, <1>7 DEF IInv

LEMMA StutterStep ==
    ASSUME IInv, UNCHANGED varsFaults
    PROVE  IInv'
BY DEF varsFaults, vars, stores, host, IInv, CallsInv, TypeOK, CallInv, ShapeInv, LockInv,
       FileInv, FirstKey, Sorted, Target, RestartInv, Loads, NameInv, Filed, Quiet, Based,
       AppliedOf, InCall, InSave, BroughtUp, TornDown

LEMMA IInvInit == InitFaults => IInv
<1> SUFFICES ASSUME InitFaults PROVE IInv
  OBVIOUS
<1>1. CallsInv /\ TypeOK
  BY CallsInit DEF InitFaults, CallsInv
<1>2. ASSUME NEW r \in Requests PROVE RestartInv(r)
  BY DEF InitFaults, Init, RestartInv, Idle
<1>3. ASSUME NEW n \in Names PROVE NameInv(n)
  <2>1. disk[n] # None <=> n \in Adopted
    BY DEF InitFaults, Init
  <2>2. proc[n] = IF disk[n] # None THEN Loaded(n) ELSE None
    BY <2>1 DEF InitFaults, Init
  <2>3. Loads(n)
    BY <1>1, <2>2, LoadedText DEF Loads
  <2> QED BY <2>2, <2>3 DEF InitFaults, Init, NameInv, Filed, Quiet
<1> QED BY <1>1, <1>2, <1>3 DEF InitFaults, IInv

LEMMA IInvStep == IInv /\ [NextFaults]_varsFaults => IInv'
<1> SUFFICES ASSUME IInv, [NextFaults]_varsFaults PROVE IInv'
  OBVIOUS
<1>1. CASE UNCHANGED varsFaults
  BY <1>1, StutterStep
<1>2. CASE NextFaults
  BY <1>2, CallStep, BrokenCall, DownStep, ProcessStep DEF NextFaults
<1> QED BY <1>1, <1>2

\* The invariant in the words of the property.
LEMMA Contains == IInv => DamageContained
<1> SUFFICES ASSUME IInv, NEW n \in Names \ damaged,
                    Free(n), disk[n] # None, proc[n] # None
             PROVE  /\ n \notin pending => RunsItsFile(n)
                    /\ started[n] # None => BaselineTrue(n)
  BY DEF DamageContained
<1>1. Quiet(n)
  BY DEF IInv, NameInv, Free
<1> QED BY <1>1 DEF Quiet, Based, Loads, AppliedOf, RunsItsFile, BaselineTrue, Baseline

\* TypeOK for the specification with events.
THEOREM FaultsTypeCorrect == SpecFaults => []TypeOK
<1>1. IInv => TypeOK
  BY DEF IInv, CallsInv
<1> QED BY <1>1, IInvInit, IInvStep, PTL DEF SpecFaults

\* Whatever calls do, fail or are cut short, and whatever happens behind the panel's
\* back: an instance to which none of that happened, or that was restarted through the
\* panel since, runs the file on disk unless it is marked pending, and its baseline is
\* what its process loaded.
THEOREM DamageIsContained == SpecFaults => []DamageContained
<1> QED BY Contains, IInvInit, IInvStep, PTL DEF SpecFaults
=============================================================================
