-------------------------- MODULE Instances_proofs --------------------------
(***************************************************************************)
(* Proofs about Instances, for every value of its constants.               *)
(***************************************************************************)
EXTENDS Instances, TLAPS

(***************************************************************************)
(* The inductive invariant of the calls: what a call in progress is, what  *)
(* it holds, and what it knows of the files it works on.                   *)
(***************************************************************************)
Outside == {"idle", "list", "pick", "lock"}

\* The steps an operation can be at.
StepsOf(op) ==
    CASE op = "save" -> {"base", "base2", "write", "mark"}
      [] op = "saveRestart" -> {"base", "base2", "write", "mark",
                                "restart", "clear", "record", "record2"}
      [] op = "live" -> {"base", "base2", "write", "mark", "reload", "clear", "applied"}
      [] op = "options" -> {"opts", "install", "mark", "restart", "clear", "record", "record2"}
      [] op \in {"restart", "restartAll"} -> {"restart", "clear", "record", "record2"}
      [] op = "create" -> {"write", "install", "start", "record", "record2", "undo"}
      [] op = "rename" -> {"stop", "write", "install", "start", "teardown", "conf", "clear",
                           "opts", "forget", "record", "record2", "undo"}
      [] OTHER -> {"stop", "teardown", "conf", "clear", "opts", "forget"}

\* What a request is: its operation, its names and its text fit together.
ShapeInv(r) == LET q == req[r] IN
    /\ q.op # "rename" => q.to = q.name
    /\ q.pc = "lock2" => q.to # q.name
    /\ q.pc \notin Outside \cup {"lock2", "check"} =>
         /\ q.pc \in StepsOf(q.op)
         /\ q.op = "rename" => q.to # q.name
         /\ q.op \in Saves \cup {"create", "rename"} => q.text \in Text
    /\ q.op \in Saves \cup {"create"} => q.pc = "idle" \/ q.text \in Text

\* Who holds what: a call between its check and its return holds its names.
LockInv(r) == LET q == req[r] IN
    /\ q.pc \notin Outside \cup {"lock2"} => lock[q.name] = r /\ lock[q.to] = r
    /\ q.pc = "lock2" => lock[FirstKey(q)] = r
    /\ \A n \in Names : lock[n] = r =>
         \/ q.pc \notin Outside \cup {"lock2"} /\ n \in {q.name, q.to}
         \/ q.pc = "lock2" /\ n = FirstKey(q)

\* What a call knows about the files of the names it holds.
FileInv(r) == LET q == req[r] IN
    /\ q.op \in Saves /\ q.pc \in {"base", "base2", "write"} =>
         /\ disk[q.name] # None /\ disk[q.name] = q.prev
         /\ q.ifMatch # None => q.ifMatch = q.prev
    /\ q.op \in Saves /\ q.pc \in {"mark", "reload", "restart", "clear", "applied", "record", "record2"} =>
         disk[q.name] = q.text
    /\ q.op \in {"options", "restart", "restartAll"}
         /\ q.pc \in {"opts", "install", "mark", "restart", "clear", "record", "record2"} =>
         disk[q.name] # None
    /\ q.op \in {"create", "rename"}
         /\ q.pc \in {"install", "start", "teardown", "conf", "clear", "opts", "forget",
                      "record", "record2"} =>
         disk[Target(q)] = q.text
    /\ q.op \in {"create", "rename"} /\ q.pc = "start" => unit[Target(q)] # None
    /\ q.op = "rename" =>
         /\ q.pc \in {"stop", "write", "install", "start", "undo", "teardown", "conf"} =>
              disk[q.name] # None
         /\ q.pc \in {"write", "install", "start", "undo", "teardown"} => unit[q.name] # None

CallInv(r) == ShapeInv(r) /\ LockInv(r) /\ FileInv(r)

CallsInv == TypeOK /\ \A r \in Requests : CallInv(r)

(***************************************************************************)
(* Types.                                                                  *)
(***************************************************************************)
LEMMA ThenType ==
    ASSUME NEW op \in AllOps, NEW pc \in Pcs
    PROVE  Then(op, pc) \in Steps \cup {"done"}
BY DEF Then, AfterCheck, AfterMark, AfterClear, Steps, AllOps, Saves, Pcs

LEMMA IdleType == Idle \in RequestState
BY ConstantsAssumption DEF Idle, RequestState, AllOps, Saves, Optional, Names, Pcs

\* A call as it arrives.
Shaped(q) ==
    /\ q \in RequestState
    /\ q.pc \in {"list", "lock"}
    /\ q.op # "rename" => q.to = q.name
    /\ q.op \in Saves \cup {"create"} => q.text \in Text

LEMMA SubmitShape ==
    ASSUME NEW r \in Requests, Submit(r)
    PROVE  \E q : Shaped(q) /\ req' = [req EXCEPT ![r] = q]
<1>1. PICK op \in Ops, n \in Names :
        \E m \in (IF op = "rename" THEN Names ELSE {n}),
           t \in (IF op \in Saves \cup {"create"} THEN Text ELSE {None}),
           v \in (IF op \in Saves THEN IfMatches ELSE {None}),
           o \in (IF op = "options" THEN Opts ELSE {DefaultOpts}) :
             req' = [req EXCEPT ![r] = NewCall(op, n, m, t, v, o)]
  BY DEF Submit
<1>2. PICK m \in (IF op = "rename" THEN Names ELSE {n}),
           t \in (IF op \in Saves \cup {"create"} THEN Text ELSE {None}),
           v \in (IF op \in Saves THEN IfMatches ELSE {None}),
           o \in (IF op = "options" THEN Opts ELSE {DefaultOpts}) :
             req' = [req EXCEPT ![r] = NewCall(op, n, m, t, v, o)]
  BY <1>1
<1>3. /\ m \in Names /\ (op # "rename" => m = n)
      /\ t \in Optional(Text) /\ (op \in Saves \cup {"create"} => t \in Text)
      /\ v \in Optional(Text)
      /\ o \in Opts
      /\ op \in AllOps
  BY ConstantsAssumption DEF Optional
<1>4. Shaped(NewCall(op, n, m, t, v, o))
  BY <1>3, IdleType DEF NewCall, Shaped, RequestState, Idle, Pcs
<1> QED BY <1>2, <1>4

LEMMA SetPcType ==
    ASSUME NEW q \in RequestState, NEW pc \in Pcs
    PROVE  [q EXCEPT !.pc = pc] \in RequestState
BY DEF RequestState

LEMMA GotoType ==
    ASSUME TypeOK, NEW r \in Requests, NEW pc \in Pcs, Goto(r, pc)
    PROVE  req' \in [Requests -> RequestState] /\ lock' \in [Names -> Optional(Requests)]
<1>1. [req[r] EXCEPT !.pc = pc] \in RequestState
  BY SetPcType DEF TypeOK
<1> QED BY <1>1 DEF TypeOK, Goto

LEMMA LeaveType ==
    ASSUME TypeOK, NEW r \in Requests, Leave(r)
    PROVE  req' \in [Requests -> RequestState] /\ lock' \in [Names -> Optional(Requests)]
<1>1. lock' \in [Names -> Optional(Requests)]
  BY DEF TypeOK, Leave, Optional
<1>2. [req[r] EXCEPT !.pc = "pick"] \in RequestState
  BY SetPcType DEF TypeOK, Pcs
<1>3. req' \in [Requests -> RequestState]
  BY <1>2, IdleType DEF TypeOK, Leave
<1> QED BY <1>1, <1>3

LEMMA AdvanceType ==
    ASSUME TypeOK, NEW r \in Requests, Advance(r)
    PROVE  req' \in [Requests -> RequestState] /\ lock' \in [Names -> Optional(Requests)]
<1> DEFINE next == Then(req[r].op, req[r].pc)
<1>1. next \in Steps \cup {"done"}
  BY ThenType DEF TypeOK, RequestState
<1>2. CASE next = "done"
  BY <1>2, LeaveType DEF Advance
<1>3. CASE next # "done"
  <2>1. next \in Pcs
    BY <1>1, <1>3 DEF Pcs
  <2>2. Goto(r, next)
    BY <1>3 DEF Advance
  <2> HIDE DEF next
  <2> QED BY <2>1, <2>2, GotoType
<1> QED BY <1>2, <1>3

\* The type of the stores, the units and the processes.
StoresType ==
    /\ disk \in [Names -> Optional(Text)]
    /\ pending \in SUBSET Names
    /\ pendingFile \in SUBSET Names
    /\ started \in [Names -> Optional(Text)]
    /\ applied \in [Names -> Optional(Text)]
    /\ options \in [Names -> Optional(Opts)]
HostType ==
    /\ unit \in [Names -> Optional(Opts)]
    /\ proc \in [Names -> Optional(Process)]
CallsType ==
    /\ lock \in [Names -> Optional(Requests)]
    /\ req \in [Requests -> RequestState]

LEMMA Unchanged ==
    ASSUME TypeOK
    PROVE  /\ UNCHANGED stores => StoresType'
           /\ UNCHANGED host => HostType'
           /\ UNCHANGED <<lock, req>> => CallsType'
BY DEF TypeOK, stores, host, StoresType, HostType, CallsType

LEMMA MovedOn ==
    ASSUME TypeOK, NEW r \in Requests,
           Leave(r) \/ Advance(r) \/ \E pc \in Pcs : Goto(r, pc)
    PROVE  CallsType'
BY GotoType, LeaveType, AdvanceType DEF CallsType

\* Fields of a typed request.
LEMMA Fields ==
    ASSUME TypeOK, NEW r \in Requests
    PROVE  LET q == req[r] IN
           /\ q \in RequestState
           /\ q.pc \in Pcs /\ q.op \in AllOps /\ q.name \in Names /\ q.to \in Names
           /\ q.text \in Optional(Text) /\ q.prev \in Optional(Text)
           /\ q.opts \in Opts /\ q.todo \in SUBSET Names
           /\ Target(q) \in Names /\ FirstKey(q) \in Names /\ SecondKey(q) \in Names
BY DEF TypeOK, RequestState, Target, FirstKey, SecondKey, Sorted

LEMMA ArriveType ==
    ASSUME TypeOK, NEW r \in Requests, Arrive(r)
    PROVE  TypeOK'
<1> DEFINE q == req[r]
<1>1. CASE Submit(r)
  <2>1. req' \in [Requests -> RequestState]
    BY <1>1, SubmitShape DEF Shaped, TypeOK
  <2> QED BY <2>1, <1>1 DEF TypeOK, Submit, stores, host
<1>2. CASE List(r)
  <2>1. [req[r] EXCEPT !.pc = "pick", !.todo = {n \in pending : disk[n] # None}] \in RequestState
    BY Fields DEF TypeOK, RequestState, Pcs
  <2>2. req' \in [Requests -> RequestState]
    BY <1>2, <2>1, IdleType DEF TypeOK, List
  <2> QED BY <2>2, <1>2 DEF TypeOK, List, stores, host
<1>3. CASE Pick(r)
  <2>1. PICK n \in q.todo :
          req' = [req EXCEPT ![r].pc = "lock", ![r].name = n, ![r].to = n,
                             ![r].todo = @ \ {n}]
    BY <1>3 DEF Pick
  <2>2. n \in Names /\ q.todo \ {n} \in SUBSET Names
    BY Fields
  <2>3. [q EXCEPT !.pc = "lock", !.name = n, !.to = n, !.todo = @ \ {n}] \in RequestState
    BY <2>2, Fields DEF RequestState, Pcs
  <2>4. req' \in [Requests -> RequestState]
    BY <2>1, <2>3 DEF TypeOK
  <2> QED BY <2>4, <1>3 DEF TypeOK, Pick, stores, host
<1>4. ASSUME NEW n \in Names, NEW pc \in Pcs, Acquire(r, n, pc) PROVE TypeOK'
  <2>1. [q EXCEPT !.pc = pc] \in RequestState
    BY SetPcType, Fields
  <2>2. req' \in [Requests -> RequestState]
    BY <1>4, <2>1 DEF TypeOK, Acquire
  <2> QED BY <2>2, <1>4 DEF TypeOK, Acquire, stores, host, Optional
<1>5. CASE Lock(r)
  BY <1>4, <1>5, Fields DEF Lock, Pcs
<1>6. CASE LockSecond(r)
  BY <1>4, <1>6, Fields DEF LockSecond, Pcs
<1> QED BY <1>1, <1>2, <1>3, <1>5, <1>6 DEF Arrive

LEMMA CheckType ==
    ASSUME TypeOK, NEW r \in Requests, Check(r) \/ Reject(r)
    PROVE  TypeOK'
<1> DEFINE q == req[r]
<1>1. CASE Check(r)
  <2> DEFINE text == IF q.op = "rename" THEN disk[q.name] ELSE q.text
             opts == IF q.op = "rename" THEN OptionsOf(q.name) ELSE q.opts
             pc == Then(q.op, "check")
  <2>1. text \in Optional(Text) /\ disk[q.name] \in Optional(Text)
    BY Fields DEF TypeOK
  <2>2. opts \in Opts
    BY Fields, ConstantsAssumption DEF TypeOK, OptionsOf, Optional
  <2>3. pc \in Pcs
    BY Fields DEF Then, AfterCheck, Pcs, Steps
  <2>4. req' = [req EXCEPT ![r] = [q EXCEPT !.pc = pc, !.prev = disk[q.name],
                                            !.text = text, !.opts = opts]]
    BY <1>1 DEF Check
  <2> HIDE DEF text, opts, pc
  <2>5. [q EXCEPT !.pc = pc, !.prev = disk[q.name], !.text = text, !.opts = opts]
          \in RequestState
    BY <2>1, <2>2, <2>3, Fields DEF RequestState
  <2>6. req' \in [Requests -> RequestState]
    BY <2>4, <2>5 DEF TypeOK
  <2> QED BY <2>6, <1>1 DEF TypeOK, Check, stores, host
<1>2. CASE Reject(r)
  <2>1. CallsType'
    BY <1>2, MovedOn DEF Reject
  <2> QED BY <2>1, <1>2, Unchanged DEF Reject, TypeOK, StoresType, HostType, CallsType
<1> QED BY <1>1, <1>2

LEMMA StoreStepType ==
    ASSUME TypeOK, NEW r \in Requests, StoreStep(r)
    PROVE  TypeOK'
<1> DEFINE q == req[r]
<1> USE Fields
<1>1. StoresType'
  <2>1. CASE RecordReplaced(r)
    BY <2>1 DEF RecordReplaced, TypeOK, StoresType
  <2>2. CASE RecordReplacedApplied(r)
    BY <2>2 DEF RecordReplacedApplied, TypeOK, StoresType
  <2>3. CASE Write(r)
    BY <2>3 DEF Write, TypeOK, StoresType
  <2>4. CASE Mark(r)
    BY <2>4 DEF Mark, TypeOK, StoresType
  <2>5. CASE Clear(r)
    BY <2>5 DEF Clear, TypeOK, StoresType
  <2>6. CASE Record(r)
    BY <2>6 DEF Record, TypeOK, StoresType
  <2>7. CASE RecordApplied(r)
    BY <2>7 DEF RecordApplied, TypeOK, StoresType
  <2>8. CASE SetApplied(r)
    BY <2>8 DEF SetApplied, TypeOK, StoresType
  <2>9. CASE Forget(r)
    BY <2>9 DEF Forget, TypeOK, StoresType, Optional
  <2>10. CASE SetOptions(r)
    <3>1. OptionsAfter(q) \in [Names -> Optional(Opts)]
      BY DEF OptionsAfter, TypeOK, Optional
    <3> QED BY <3>1, <2>10 DEF SetOptions, TypeOK, StoresType
  <2>11. CASE RemoveConf(r)
    BY <2>11 DEF RemoveConf, TypeOK, StoresType, Optional
  <2> QED BY <2>1, <2>2, <2>3, <2>4, <2>5, <2>6, <2>7, <2>8, <2>9, <2>10, <2>11 DEF StoreStep
<1>2. UNCHANGED host
  BY DEF StoreStep, RecordReplaced, RecordReplacedApplied, Write, Mark, Clear, Record,
         RecordApplied, SetApplied, Forget, SetOptions, RemoveConf
<1>3. Advance(r) \/ \E pc \in Pcs : Goto(r, pc)
  BY DEF StoreStep, RecordReplaced, RecordReplacedApplied, Write, Mark, Clear, Record,
         RecordApplied, SetApplied, Forget, SetOptions, RemoveConf, Pcs, Steps
<1> QED BY <1>1, <1>2, <1>3, MovedOn, Unchanged DEF TypeOK, StoresType, HostType, CallsType

LEMMA LoadedType ==
    ASSUME TypeOK, NEW n \in Names, disk[n] # None, unit[n] # None
    PROVE  Loaded(n) \in Process
BY DEF TypeOK, Optional, Loaded, Process, Text

LEMMA UnitStepType ==
    ASSUME TypeOK, NEW r \in Requests, CallInv(r), UnitStep(r)
    PROVE  TypeOK'
<1> DEFINE q == req[r]
<1> USE Fields
<1>1. HostType'
  <2>1. CASE Install(r)
    BY <2>1 DEF Install, TypeOK, HostType, Optional
  <2>2. CASE Start(r)
    <3>1. disk[Target(q)] # None /\ unit[Target(q)] # None
      BY <2>2, ConstantsAssumption
      DEF Start, At, CallInv, ShapeInv, FileInv, StepsOf, Outside, Saves, AllOps
    <3>2. Loaded(Target(q)) \in Process
      BY <3>1, LoadedType
    <3> QED BY <3>2, <2>2 DEF Start, TypeOK, HostType, Optional
  <2>3. CASE Stop(r)
    BY <2>3 DEF Stop, TypeOK, HostType, Optional
  <2>4. CASE Restart(r)
    <3>1. disk[q.name] # None
      BY <2>4, ConstantsAssumption
      DEF Restart, At, CallInv, ShapeInv, FileInv, StepsOf, Outside, Saves, AllOps
    <3>2. Loaded(q.name) \in Process
      BY <2>4, <3>1, LoadedType DEF Restart
    <3> QED BY <3>2, <2>4 DEF Restart, TypeOK, HostType, Optional
  <2>5. CASE Teardown(r)
    BY <2>5 DEF Teardown, TypeOK, HostType, Optional
  <2>6. ASSUME Reachable(q), TakesLive(q.name), At(r, "reload"), UNCHANGED unit
        PROVE  HostType'
    <3>1. disk[q.name] \in Text
      BY <2>6, ConstantsAssumption
      DEF At, CallInv, ShapeInv, FileInv, StepsOf, Outside, Saves, AllOps
    <3>2. proc[q.name] \in Process
      BY <2>6 DEF Reachable, TypeOK, Optional
    <3>3. [proc[q.name] EXCEPT !.live = disk[q.name].live] \in Process
      BY <3>1, <3>2 DEF Process, Text
    <3> QED BY <3>3, <2>6 DEF TakesLive, TypeOK, HostType, Optional
  <2>7. CASE ReloadComplete(r)
    BY <2>6, <2>7 DEF ReloadComplete
  <2>8. CASE ReloadPartial(r)
    BY <2>6, <2>8 DEF ReloadPartial
  <2>9. CASE ReloadNothing(r)
    BY <2>9, Unchanged DEF ReloadNothing
  <2> QED BY <2>1, <2>2, <2>3, <2>4, <2>5, <2>7, <2>8, <2>9 DEF UnitStep
<1>2. UNCHANGED stores
  BY DEF UnitStep, Install, Start, Stop, Restart, Teardown, ReloadComplete, ReloadPartial,
         ReloadNothing
<1>3. Advance(r) \/ Leave(r)
  BY DEF UnitStep, Install, Start, Stop, Restart, Teardown, ReloadComplete, ReloadPartial,
         ReloadNothing
<1> QED BY <1>1, <1>2, <1>3, MovedOn, Unchanged DEF TypeOK, StoresType, HostType, CallsType

\* A step that stops half-way leaves well-typed stores.
LEMMA HalfwayType ==
    ASSUME TypeOK, NEW r \in Requests,
           Halfway(req[r]) \/ UNCHANGED <<pending, options, host>>
    PROVE  /\ pending' \in SUBSET Names
           /\ options' \in [Names -> Optional(Opts)]
           /\ HostType'
<1> DEFINE q == req[r]
<1>1. OptionsAfter(q) \in [Names -> Optional(Opts)]
  BY Fields DEF OptionsAfter, TypeOK, Optional
<1>2. CASE UNCHANGED <<pending, options, host>>
  BY <1>2 DEF TypeOK, HostType, host
<1>3. CASE Halfway(q)
  BY <1>1, <1>3, Fields DEF Halfway, TypeOK, HostType, host, Optional
<1> QED BY <1>2, <1>3

LEMMA GiveUpType ==
    ASSUME TypeOK, NEW r \in Requests, CallInv(r), GiveUp(r)
    PROVE  TypeOK'
<1> DEFINE q == req[r]
<1>1. CASE Fail(r)
  <2>1. Leave(r) \/ Goto(r, "undo")
    BY <1>1 DEF Fail
  <2>2. CallsType'
    BY <2>1, MovedOn DEF Pcs
  <2> QED BY <2>2, <1>1, HalfwayType DEF Fail, TypeOK, HostType, CallsType
<1>2. CASE Undo(r)
  <2>1. CallsType'
    BY <1>2, MovedOn DEF Undo
  <2>2. q.op = "rename" => Loaded(q.name) \in Process
    BY <1>2, LoadedType, Fields DEF Undo, At, CallInv, FileInv
  <2>3. disk' \in [Names -> Optional(Text)] /\ HostType'
    BY <1>2, <2>2, Fields DEF Undo, TypeOK, HostType, Optional
  <2> QED BY <2>1, <2>3, <1>2 DEF Undo, TypeOK, HostType, CallsType
<1> QED BY <1>1, <1>2 DEF GiveUp

LEMMA NextType ==
    ASSUME CallsInv, [Next]_vars
    PROVE  TypeOK'
<1>1. CASE UNCHANGED vars
  BY <1>1 DEF CallsInv, TypeOK, vars, stores, host
<1>2. ASSUME NEW r \in Requests, Arrive(r) \/ Proceed(r) \/ GiveUp(r)
      PROVE  TypeOK'
  BY <1>2, ArriveType, CheckType, StoreStepType, UnitStepType, GiveUpType
  DEF CallsInv, Proceed
<1>3. ASSUME NEW n \in Names, Exit(n)
      PROVE  TypeOK'
  BY <1>3 DEF CallsInv, Exit, TypeOK, Optional, stores
<1> QED BY <1>1, <1>2, <1>3 DEF Next

(***************************************************************************)
(* A step of a call changes nothing of a name whose lock it does not hold. *)
(***************************************************************************)
CallsKept(r) ==
    /\ \A s \in Requests \ {r} : req'[s] = req[s]
    /\ \A n \in Names : \/ lock'[n] = lock[n]
                        \/ lock[n] = None /\ lock'[n] = r
                        \/ lock[n] = r /\ lock'[n] = None

FilesKept(r) == \A n \in Names : lock[n] # r =>
    /\ disk'[n] = disk[n] /\ started'[n] = started[n] /\ applied'[n] = applied[n]
    /\ unit'[n] = unit[n] /\ proc'[n] = proc[n] /\ options'[n] = options[n]
    /\ n \in pending' <=> n \in pending
    /\ n \in pendingFile' => n \in pendingFile \cup pending
    /\ n \in pending /\ n \in pendingFile => n \in pendingFile'

LEMMA MovedKept ==
    ASSUME TypeOK, NEW r \in Requests,
           Leave(r) \/ Advance(r) \/ \E pc \in Pcs : Goto(r, pc)
    PROVE  CallsKept(r)
<1>1. ASSUME NEW pc, Goto(r, pc) PROVE CallsKept(r)
  BY <1>1 DEF Goto, CallsKept, TypeOK
<1>2. CASE Leave(r)
  BY <1>2 DEF Leave, CallsKept, TypeOK
<1> QED BY <1>1, <1>2 DEF Advance

LEMMA ArriveKept ==
    ASSUME TypeOK, NEW r \in Requests, Arrive(r)
    PROVE  CallsKept(r) /\ FilesKept(r)
<1>1. UNCHANGED stores /\ UNCHANGED host
  BY DEF Arrive, Submit, List, Pick, Lock, LockSecond, Acquire, stores, host
<1>2. FilesKept(r)
  BY <1>1 DEF FilesKept, stores, host
<1>3. ASSUME NEW x, req' = [req EXCEPT ![r] = x], UNCHANGED lock
      PROVE  CallsKept(r)
  BY <1>3 DEF CallsKept, TypeOK
<1>4. CASE Submit(r)
  BY <1>2, <1>3, <1>4, SubmitShape DEF Submit
<1>5. CASE List(r)
  BY <1>2, <1>3, <1>5 DEF List
<1>6. CASE Pick(r)
  BY <1>2, <1>6 DEF Pick, CallsKept, TypeOK
<1>7. ASSUME NEW n \in Names, NEW pc, Acquire(r, n, pc)
      PROVE  CallsKept(r)
  BY <1>7 DEF Acquire, CallsKept, TypeOK
<1>8. CASE Lock(r) \/ LockSecond(r)
  BY <1>2, <1>7, <1>8, Fields DEF Lock, LockSecond
<1> QED BY <1>2, <1>4, <1>5, <1>6, <1>8 DEF Arrive

\* A call past its check, and its names.
LEMMA Holds ==
    ASSUME TypeOK, NEW r \in Requests, CallInv(r), req[r].pc \notin Outside \cup {"lock2"}
    PROVE  lock[req[r].name] = r /\ lock[req[r].to] = r /\ lock[Target(req[r])] = r
BY DEF CallInv, LockInv, Target

LEMMA StoreStepKept ==
    ASSUME TypeOK, NEW r \in Requests, CallInv(r), StoreStep(r)
    PROVE  CallsKept(r) /\ FilesKept(r)
<1> DEFINE q == req[r]
<1>1. q.pc \notin Outside \cup {"lock2"}
  BY DEF StoreStep, RecordReplaced, RecordReplacedApplied, Write, Mark, Clear, Record,
         RecordApplied, SetApplied, Forget, SetOptions, RemoveConf, At, Outside
<1>2. CallsKept(r)
  <2>1. Advance(r) \/ \E pc \in Pcs : Goto(r, pc)
    BY DEF StoreStep, RecordReplaced, RecordReplacedApplied, Write, Mark, Clear, Record,
           RecordApplied, SetApplied, Forget, SetOptions, RemoveConf, Pcs, Steps
  <2> QED BY <2>1, MovedKept
<1>3. UNCHANGED host
  BY DEF StoreStep, RecordReplaced, RecordReplacedApplied, Write, Mark, Clear, Record,
         RecordApplied, SetApplied, Forget, SetOptions, RemoveConf
<1>4. FilesKept(r)
  <2> SUFFICES ASSUME NEW n \in Names, lock[n] # r
               PROVE  /\ disk'[n] = disk[n] /\ started'[n] = started[n]
                      /\ applied'[n] = applied[n] /\ options'[n] = options[n]
                      /\ n \in pending' <=> n \in pending
                      /\ n \in pendingFile' => n \in pendingFile \cup pending
                      /\ n \in pending /\ n \in pendingFile => n \in pendingFile'
    BY <1>3 DEF FilesKept, host
  <2>1. n # q.name /\ n # Target(q)
    BY <1>1, Holds
  <2>2. CASE RecordReplaced(r) \/ RecordReplacedApplied(r)
    BY <2>1, <2>2 DEF RecordReplaced, RecordReplacedApplied, TypeOK
  <2>3. CASE Write(r) \/ RemoveConf(r)
    BY <2>1, <2>3 DEF Write, RemoveConf, TypeOK
  <2>4. CASE Mark(r) \/ Clear(r)
    BY <2>1, <2>4 DEF Mark, Clear, TypeOK
  <2>5. CASE Record(r) \/ RecordApplied(r) \/ SetApplied(r)
    BY <2>1, <2>5 DEF Record, RecordApplied, SetApplied, TypeOK
  <2>6. CASE Forget(r)
    BY <2>1, <2>6 DEF Forget, TypeOK
  <2>7. CASE SetOptions(r)
    <3>1. n # q.to
      BY <1>1, Holds
    <3> QED BY <2>1, <2>7, <3>1 DEF SetOptions, OptionsAfter, TypeOK
  <2> QED BY <2>2, <2>3, <2>4, <2>5, <2>6, <2>7 DEF StoreStep
<1> QED BY <1>2, <1>4

LEMMA UnitStepKept ==
    ASSUME TypeOK, NEW r \in Requests, CallInv(r), UnitStep(r)
    PROVE  CallsKept(r) /\ FilesKept(r)
<1> DEFINE q == req[r]
<1>1. q.pc \notin Outside \cup {"lock2"}
  BY DEF UnitStep, Install, Start, Stop, Restart, Teardown, ReloadComplete, ReloadPartial,
         ReloadNothing, At, Outside
<1>2. CallsKept(r)
  <2>1. Advance(r) \/ Leave(r)
    BY DEF UnitStep, Install, Start, Stop, Restart, Teardown, ReloadComplete, ReloadPartial,
           ReloadNothing
  <2> QED BY <2>1, MovedKept
<1>3. UNCHANGED stores
  BY DEF UnitStep, Install, Start, Stop, Restart, Teardown, ReloadComplete, ReloadPartial,
         ReloadNothing
<1>4. FilesKept(r)
  <2> SUFFICES ASSUME NEW n \in Names, lock[n] # r
               PROVE  unit'[n] = unit[n] /\ proc'[n] = proc[n]
    BY <1>3 DEF FilesKept, stores
  <2>1. n # q.name /\ n # Target(q)
    BY <1>1, Holds
  <2>2. CASE Install(r) \/ Start(r) \/ Stop(r) \/ Restart(r) \/ Teardown(r)
    BY <2>1, <2>2 DEF Install, Start, Stop, Restart, Teardown, TypeOK
  <2>3. CASE ReloadComplete(r) \/ ReloadPartial(r) \/ ReloadNothing(r)
    BY <2>1, <2>3 DEF ReloadComplete, ReloadPartial, ReloadNothing, TakesLive, TypeOK, host
  <2> QED BY <2>2, <2>3 DEF UnitStep
<1> QED BY <1>2, <1>4

LEMMA HalfwayKept ==
    ASSUME TypeOK, NEW r \in Requests, CallInv(r),
           Halfway(req[r]) \/ UNCHANGED <<pending, options, host>>,
           UNCHANGED <<disk, pendingFile, started, applied>>
    PROVE  FilesKept(r)
<1> DEFINE q == req[r]
<1>1. CASE UNCHANGED <<pending, options, host>>
  BY <1>1 DEF FilesKept, host
<1>2. CASE Halfway(q)
  <2>1. q.pc \notin Outside \cup {"lock2"}
    BY <1>2 DEF Halfway, Outside
  <2>2. ASSUME NEW n \in Names, lock[n] # r
        PROVE  /\ unit'[n] = unit[n] /\ proc'[n] = proc[n] /\ options'[n] = options[n]
               /\ n \in pending' <=> n \in pending
    <3>1. n # q.name /\ n # Target(q) /\ n # q.to
      BY <2>1, <2>2, Holds
    <3> QED BY <1>2, <3>1 DEF Halfway, OptionsAfter, TypeOK, host
  <2> QED BY <2>2 DEF FilesKept
<1> QED BY <1>1, <1>2

LEMMA GiveUpKept ==
    ASSUME TypeOK, NEW r \in Requests, CallInv(r), GiveUp(r)
    PROVE  CallsKept(r) /\ FilesKept(r)
<1> DEFINE q == req[r]
<1>1. CASE Fail(r)
  <2>1. Leave(r) \/ Goto(r, "undo")
    BY <1>1 DEF Fail
  <2>2. CallsKept(r)
    BY <2>1, MovedKept DEF Pcs
  <2> QED BY <1>1, <2>2, HalfwayKept DEF Fail
<1>2. CASE Undo(r)
  <2>1. CallsKept(r)
    BY <1>2, MovedKept DEF Undo
  <2>2. q.pc \notin Outside \cup {"lock2"}
    BY <1>2 DEF Undo, At, Outside
  <2>3. ASSUME NEW n \in Names, lock[n] # r
        PROVE  disk'[n] = disk[n] /\ unit'[n] = unit[n] /\ proc'[n] = proc[n]
    <3>1. n # q.name /\ n # Target(q)
      BY <2>2, <2>3, Holds
    <3> QED BY <1>2, <3>1 DEF Undo, TypeOK
  <2> QED BY <2>1, <2>3, <1>2 DEF Undo, FilesKept
<1> QED BY <1>1, <1>2 DEF GiveUp

LEMMA StepKept ==
    ASSUME CallsInv, NEW r \in Requests, Arrive(r) \/ Proceed(r) \/ GiveUp(r)
    PROVE  CallsKept(r) /\ FilesKept(r)
<1>1. CASE Check(r)
  BY <1>1 DEF Check, CallsInv, TypeOK, CallsKept, FilesKept, stores, host
<1>2. CASE Reject(r)
  BY <1>2, MovedKept DEF Reject, CallsInv, FilesKept, stores, host
<1> QED BY <1>1, <1>2, ArriveKept, StoreStepKept, UnitStepKept, GiveUpKept
        DEF CallsInv, Proceed

(***************************************************************************)
(* The invariant of the calls is inductive.                                *)
(***************************************************************************)
LEMMA OtherCalls ==
    ASSUME CallsInv, NEW r \in Requests, CallsKept(r), FilesKept(r),
           NEW s \in Requests \ {r}
    PROVE  CallInv(s)'
<1> DEFINE q == req[s]
<1>1. CallInv(s) /\ q.name \in Names /\ q.to \in Names /\ FirstKey(q) \in Names
          /\ Target(q) \in Names
  BY Fields DEF CallsInv
<1>2. req'[s] = q /\ s # None /\ s # r
  BY ConstantsAssumption DEF CallsKept
<1>3. \A n \in Names : lock'[n] = s <=> lock[n] = s
  BY <1>2 DEF CallsKept
<1>4. ShapeInv(s)'
  BY <1>1, <1>2 DEF CallInv, ShapeInv
<1>5. LockInv(s)'
  BY <1>1, <1>2, <1>3 DEF CallInv, LockInv, FirstKey, Sorted
<1>6. FileInv(s)'
  <2>1. CASE q.pc \in Outside \cup {"lock2", "check"}
    BY <1>2, <2>1 DEF FileInv, Outside
  <2>2. CASE q.pc \notin Outside \cup {"lock2", "check"}
    <3>1. lock[q.name] = s /\ lock[Target(q)] = s
      BY <1>1, <2>2, Holds DEF CallsInv
    <3>2. /\ disk'[q.name] = disk[q.name] /\ disk'[Target(q)] = disk[Target(q)]
          /\ unit'[q.name] = unit[q.name] /\ unit'[Target(q)] = unit[Target(q)]
      BY <1>1, <1>2, <3>1 DEF FilesKept
    <3> QED BY <1>1, <1>2, <3>2 DEF CallInv, FileInv, Target
  <2> QED BY <2>1, <2>2
<1> QED BY <1>4, <1>5, <1>6 DEF CallInv

LEMMA LeaveCall ==
    ASSUME CallsInv, NEW r \in Requests, Leave(r)
    PROVE  CallInv(r)'
<1> DEFINE q == req[r]
<1>1. \A n \in Names : lock'[n] # r
  BY ConstantsAssumption DEF Leave
<1>2. \/ req'[r] = Idle
      \/ q.op = "restartAll" /\ req'[r] = [q EXCEPT !.pc = "pick"]
  BY DEF Leave, CallsInv, TypeOK
<1>3. q \in RequestState /\ ShapeInv(r)
  BY Fields DEF CallsInv, CallInv
<1>4. CASE req'[r] = Idle
  BY <1>1, <1>4 DEF Idle, CallInv, ShapeInv, LockInv, FileInv, Outside, Saves
<1>5. CASE q.op = "restartAll" /\ req'[r] = [q EXCEPT !.pc = "pick"]
  <2>1. req'[r].pc = "pick" /\ req'[r].op = "restartAll" /\ req'[r].to = req'[r].name
    BY <1>3, <1>5 DEF RequestState, ShapeInv
  <2> QED BY <1>1, <2>1 DEF CallInv, ShapeInv, LockInv, FileInv, Outside, Saves
<1> QED BY <1>2, <1>4, <1>5

LEMMA ThenStep ==
    ASSUME NEW op \in AllOps, NEW pc \in StepsOf(op)
    PROVE  Then(op, pc) \in StepsOf(op) \cup {"done"}
BY DEF Then, AfterCheck, AfterMark, AfterClear, StepsOf, AllOps, Saves

LEMMA InsideSteps ==
    ASSUME NEW op, NEW pc \in StepsOf(op)
    PROVE  pc \in Pcs /\ pc \notin Outside \cup {"lock2", "check"}
BY DEF StepsOf, Outside, Pcs, Steps

\* A call that goes on keeps what it is and what it holds.
LEMMA GotoCall ==
    ASSUME CallsInv, NEW r \in Requests, NEW pc \in StepsOf(req[r].op), Goto(r, pc),
           req[r].pc \notin Outside \cup {"lock2", "check"}
    PROVE  /\ ShapeInv(r)' /\ LockInv(r)'
           /\ req'[r] = [req[r] EXCEPT !.pc = pc]
<1> DEFINE q == req[r]
<1>1. q \in RequestState /\ ShapeInv(r) /\ LockInv(r)
  BY Fields DEF CallsInv, CallInv
<1>2. req'[r] = [q EXCEPT !.pc = pc] /\ UNCHANGED lock
  BY DEF Goto, CallsInv, TypeOK
<1>3. /\ req'[r].pc = pc /\ req'[r].op = q.op /\ req'[r].name = q.name
      /\ req'[r].to = q.to /\ req'[r].text = q.text
  BY <1>1, <1>2 DEF RequestState
<1>4. pc \notin Outside \cup {"lock2", "check"}
  BY InsideSteps
<1>5. ShapeInv(r)'
  BY <1>1, <1>3, <1>4 DEF ShapeInv
<1>6. LockInv(r)'
  BY <1>1, <1>2, <1>3, <1>4 DEF LockInv
<1> QED BY <1>2, <1>5, <1>6

LEMMA AdvanceCall ==
    ASSUME CallsInv, NEW r \in Requests, Advance(r),
           req[r].pc \notin Outside \cup {"lock2", "check"}
    PROVE  \/ CallInv(r)'
           \/ /\ ShapeInv(r)' /\ LockInv(r)'
              /\ req'[r] = [req[r] EXCEPT !.pc = Then(req[r].op, req[r].pc)]
<1> DEFINE q == req[r]
<1>1. q.op \in AllOps /\ q.pc \in StepsOf(q.op)
  BY Fields DEF CallsInv, CallInv, ShapeInv
<1>2. CASE Then(q.op, q.pc) = "done"
  BY <1>2, LeaveCall DEF Advance
<1>3. CASE Then(q.op, q.pc) # "done"
  <2>1. Then(q.op, q.pc) \in StepsOf(q.op) /\ Goto(r, Then(q.op, q.pc))
    BY <1>1, <1>3, ThenStep DEF Advance
  <2> QED BY <2>1, GotoCall
<1> QED BY <1>2, <1>3

LEMMA ArriveCall ==
    ASSUME CallsInv, NEW r \in Requests, Arrive(r)
    PROVE  CallInv(r)'
<1> DEFINE q == req[r]
<1>1. TypeOK /\ CallInv(r) /\ q \in RequestState
  BY Fields DEF CallsInv
<1>2. CASE Submit(r)
  <2>1. Shaped(req'[r]) /\ UNCHANGED lock
    BY <1>1, <1>2, SubmitShape DEF Submit, TypeOK
  <2>2. \A n \in Names : lock[n] # r
    BY <1>1, <1>2 DEF Submit, At, CallInv, LockInv, Outside
  <2> QED BY <2>1, <2>2 DEF Shaped, CallInv, ShapeInv, LockInv, FileInv, Outside
<1>3. CASE List(r)
  <2>1. \A n \in Names : lock'[n] # r
    BY <1>1, <1>3 DEF List, At, CallInv, LockInv, Outside
  <2>2. CASE req'[r] = Idle
    BY <2>1, <2>2 DEF Idle, CallInv, ShapeInv, LockInv, FileInv, Outside, Saves
  <2>3. CASE req'[r] # Idle
    <3>1. /\ req'[r].pc = "pick" /\ req'[r].op = q.op
          /\ req'[r].to = q.to /\ req'[r].name = q.name /\ req'[r].text = q.text
      BY <1>1, <1>3, <2>3 DEF List, TypeOK, RequestState
    <3>2. q.op \in Saves \cup {"create"} => q.text \in Text
      BY <1>1, <1>3 DEF List, At, CallInv, ShapeInv
    <3> QED BY <1>1, <2>1, <3>1, <3>2 DEF CallInv, ShapeInv, LockInv, FileInv, Outside
  <2> QED BY <2>2, <2>3
<1>4. CASE Pick(r)
  <2>1. \A n \in Names : lock'[n] # r
    BY <1>1, <1>4 DEF Pick, At, CallInv, LockInv, Outside
  <2>2. /\ req'[r].pc = "lock" /\ req'[r].op = q.op
        /\ req'[r].to = req'[r].name /\ req'[r].text = q.text
    BY <1>1, <1>4 DEF Pick, TypeOK, RequestState
  <2>3. q.op \in Saves \cup {"create"} => q.text \in Text
    BY <1>1, <1>4 DEF Pick, At, CallInv, ShapeInv
  <2> QED BY <2>1, <2>2, <2>3 DEF CallInv, ShapeInv, LockInv, FileInv, Outside
<1>5. CASE Lock(r)
  <2>1. \A n \in Names : lock[n] # r
    BY <1>1, <1>5 DEF Lock, At, CallInv, LockInv, Outside
  <2> DEFINE pc == IF q.name = q.to THEN "check" ELSE "lock2"
  <2>2. req'[r] = [q EXCEPT !.pc = pc] /\ lock' = [lock EXCEPT ![FirstKey(q)] = r]
    BY <1>1, <1>5 DEF Lock, Acquire, TypeOK
  <2>3. /\ req'[r].pc = pc /\ req'[r].op = q.op /\ req'[r].name = q.name
        /\ req'[r].to = q.to /\ req'[r].text = q.text /\ FirstKey(req'[r]) = FirstKey(q)
    BY <1>1, <2>2 DEF RequestState, FirstKey, Sorted
  <2>4. FirstKey(q) \in {q.name, q.to} /\ FirstKey(q) \in Names
    BY <1>1, Fields DEF FirstKey
  <2>5. ShapeInv(r)'
    BY <1>1, <1>5, <2>3 DEF CallInv, ShapeInv, Lock, At, Outside
  <2>6. LockInv(r)'
    BY <1>1, <2>1, <2>2, <2>3, <2>4 DEF LockInv, Outside, TypeOK
  <2> QED BY <2>3, <2>5, <2>6 DEF CallInv, FileInv
<1>6. CASE LockSecond(r)
  <2>1. lock[FirstKey(q)] = r /\ \A n \in Names : lock[n] = r => n = FirstKey(q)
    BY <1>1, <1>6 DEF LockSecond, At, CallInv, LockInv, Outside
  <2>2. req'[r] = [q EXCEPT !.pc = "check"] /\ lock' = [lock EXCEPT ![SecondKey(q)] = r]
    BY <1>1, <1>6 DEF LockSecond, Acquire, TypeOK
  <2>3. /\ req'[r].pc = "check" /\ req'[r].op = q.op /\ req'[r].name = q.name
        /\ req'[r].to = q.to /\ req'[r].text = q.text
    BY <1>1, <2>2 DEF RequestState
  <2>4. {FirstKey(q), SecondKey(q)} = {q.name, q.to}
    BY DEF FirstKey, SecondKey
  <2>5. ShapeInv(r)'
    BY <1>1, <1>6, <2>3 DEF CallInv, ShapeInv, LockSecond, At, Outside
  <2>6. LockInv(r)'
    BY <1>1, <2>1, <2>2, <2>3, <2>4, Fields DEF LockInv, Outside, TypeOK
  <2> QED BY <2>3, <2>5, <2>6 DEF CallInv, FileInv
<1> QED BY <1>2, <1>3, <1>4, <1>5, <1>6 DEF Arrive

LEMMA CheckCall ==
    ASSUME CallsInv, NEW r \in Requests, Check(r) \/ Reject(r)
    PROVE  CallInv(r)'
<1> DEFINE q == req[r]
<1>1. TypeOK /\ CallInv(r) /\ q \in RequestState
  BY Fields DEF CallsInv
<1>2. CASE Reject(r)
  BY <1>2, LeaveCall DEF Reject
<1>3. CASE Check(r)
  <2> DEFINE pc == Then(q.op, "check")
             text == IF q.op = "rename" THEN disk[q.name] ELSE q.text
  <2>1. q.pc = "check" /\ Admissible(q) /\ UNCHANGED <<disk, unit, lock>>
    BY <1>3 DEF Check, At, stores, host
  <2>2. /\ req'[r].pc = pc /\ req'[r].op = q.op /\ req'[r].name = q.name
        /\ req'[r].to = q.to /\ req'[r].text = text /\ req'[r].prev = disk[q.name]
        /\ req'[r].ifMatch = q.ifMatch
    BY <1>1, <1>3 DEF Check, TypeOK, RequestState
  <2>3. pc \in StepsOf(q.op) /\ pc \notin Outside \cup {"lock2", "check"}
        /\ pc = AfterCheck(q.op)
    BY Fields, <1>1 DEF Then, AfterCheck, StepsOf, AllOps, Saves, Outside
  <2>4. q.op \in Saves \cup {"create", "rename"} => text \in Text
    BY <1>1, <2>1, Fields DEF CallInv, ShapeInv, Admissible, TypeOK, Optional, Saves
  <2>5. q.op = "rename" => q.to # q.name
    BY <2>1 DEF Admissible
  <2> HIDE DEF pc, text
  <2>6. ShapeInv(r)'
    BY <1>1, <2>2, <2>3, <2>4, <2>5 DEF CallInv, ShapeInv, Outside
  <2>7. LockInv(r)'
    BY <1>1, <2>1, <2>2, <2>3 DEF CallInv, LockInv, Outside
  <2>8. FileInv(r)'
    BY <1>1, <2>1, <2>2, <2>3, Fields DEF FileInv, AfterCheck, Admissible, Saves, AllOps
  <2> QED BY <2>6, <2>7, <2>8 DEF CallInv
<1> QED BY <1>2, <1>3

\* A step that goes on to the next one, as far as FileInv is concerned.
Onward(r, pc) ==
    /\ req'[r].pc = pc /\ req'[r].op = req[r].op /\ req'[r].name = req[r].name
    /\ req'[r].to = req[r].to /\ req'[r].text = req[r].text /\ req'[r].prev = req[r].prev
    /\ req'[r].ifMatch = req[r].ifMatch

LEMMA OnwardCall ==
    ASSUME CallsInv, NEW r \in Requests, Advance(r),
           req[r].pc \notin Outside \cup {"lock2", "check"}
    PROVE  \/ CallInv(r)'
           \/ /\ ShapeInv(r)' /\ LockInv(r)'
              /\ Onward(r, Then(req[r].op, req[r].pc))
<1>1. req[r] \in RequestState
  BY Fields DEF CallsInv
<1> QED BY <1>1, AdvanceCall DEF Onward, RequestState

LEMMA StoreStepCall ==
    ASSUME CallsInv, NEW r \in Requests, StoreStep(r)
    PROVE  CallInv(r)'
<1> DEFINE q == req[r]
<1>1. /\ TypeOK /\ CallInv(r) /\ q \in RequestState /\ q.op \in AllOps
      /\ q.name \in Names /\ Target(q) \in Names
  BY Fields DEF CallsInv
<1>2. q.pc \notin Outside \cup {"lock2", "check"}
  BY DEF StoreStep, RecordReplaced, RecordReplacedApplied, Write, Mark, Clear, Record,
         RecordApplied, SetApplied, Forget, SetOptions, RemoveConf, At, Outside
<1>3. q.pc \in StepsOf(q.op) /\ (q.op = "rename" => q.to # q.name)
      /\ (q.op \in Saves \cup {"create", "rename"} => q.text \in Text)
  BY <1>1, <1>2 DEF CallInv, ShapeInv
<1>4. CASE RecordReplaced(r)
  <2>1. PICK pc \in {"base2", "write"} : Goto(r, pc)
    BY <1>4 DEF RecordReplaced
  <2>2. q.pc = "base" /\ q.op \in Saves /\ UNCHANGED <<disk, unit>>
    BY <1>1, <1>3, <1>4 DEF RecordReplaced, At, StepsOf, AllOps, Saves, host
  <2>3. pc \in StepsOf(q.op)
    BY <2>2 DEF StepsOf, Saves
  <2>4. ShapeInv(r)' /\ LockInv(r)' /\ Onward(r, pc)
    <3>1. ShapeInv(r)' /\ LockInv(r)' /\ req'[r] = [q EXCEPT !.pc = pc]
      BY <1>2, <2>1, <2>3, GotoCall
    <3> QED BY <1>1, <3>1 DEF Onward, RequestState
  <2>5. FileInv(r)'
    BY <1>1, <2>2, <2>4 DEF CallInv, FileInv, Onward, Saves
  <2> QED BY <2>4, <2>5 DEF CallInv
<1>5. ASSUME ShapeInv(r)', LockInv(r)', Onward(r, Then(q.op, q.pc)), ~RecordReplaced(r)
      PROVE  FileInv(r)'
  <2> USE <1>5 DEF CallInv, FileInv, Onward, Then, StepsOf, AllOps, Saves, At, Target
  <2>1. CASE RecordReplacedApplied(r)
    BY <1>1, <1>3, <2>1 DEF RecordReplacedApplied, host
  <2>2. CASE Write(r)
    BY <1>1, <1>3, <2>2 DEF Write, TypeOK, host
  <2>3. CASE Mark(r)
    BY <1>1, <1>3, <2>3 DEF Mark, AfterMark, host
  <2>4. CASE Clear(r)
    BY <1>1, <1>3, <2>4 DEF Clear, AfterClear, host
  <2>5. CASE Record(r) \/ RecordApplied(r) \/ SetApplied(r)
    BY <1>1, <1>3, <2>5 DEF Record, RecordApplied, SetApplied, host
  <2>6. CASE Forget(r) \/ SetOptions(r)
    BY <1>1, <1>3, <2>6 DEF Forget, SetOptions, host
  <2>7. CASE RemoveConf(r)
    BY <1>1, <1>3, <2>7 DEF RemoveConf, TypeOK, host
  <2> QED BY <2>1, <2>2, <2>3, <2>4, <2>5, <2>6, <2>7 DEF StoreStep
<1>6. CASE ~RecordReplaced(r)
  <2>1. Advance(r)
    BY <1>6 DEF StoreStep, RecordReplacedApplied, Write, Mark, Clear, Record,
         RecordApplied, SetApplied, Forget, SetOptions, RemoveConf
  <2> QED BY <1>2, <1>5, <1>6, <2>1, OnwardCall DEF CallInv
<1> QED BY <1>4, <1>6

LEMMA UnitStepCall ==
    ASSUME CallsInv, NEW r \in Requests, UnitStep(r)
    PROVE  CallInv(r)'
<1> DEFINE q == req[r]
<1>1. /\ TypeOK /\ CallInv(r) /\ q \in RequestState /\ q.op \in AllOps
      /\ q.name \in Names /\ Target(q) \in Names
  BY Fields DEF CallsInv
<1>2. q.pc \notin Outside \cup {"lock2", "check"} /\ UNCHANGED disk
  BY DEF UnitStep, Install, Start, Stop, Restart, Teardown, ReloadComplete, ReloadPartial,
         ReloadNothing, At, Outside, stores
<1>3. q.pc \in StepsOf(q.op) /\ (q.op = "rename" => q.to # q.name)
      /\ (q.op \in Saves \cup {"create", "rename"} => q.text \in Text)
  BY <1>1, <1>2 DEF CallInv, ShapeInv
<1>4. CASE ReloadPartial(r) \/ ReloadNothing(r)
  BY <1>4, LeaveCall DEF ReloadPartial, ReloadNothing
<1>5. ASSUME ShapeInv(r)', LockInv(r)', Onward(r, Then(q.op, q.pc)),
             ~(ReloadPartial(r) \/ ReloadNothing(r))
      PROVE  FileInv(r)'
  <2> USE <1>5, <1>1, <1>2, <1>3
      DEF CallInv, FileInv, Onward, Then, StepsOf, AllOps, Saves, At, Target
  <2>1. CASE Install(r)
    BY <2>1, ConstantsAssumption DEF Install, TypeOK, RequestState
  <2>2. CASE Start(r)
    BY <2>2 DEF Start
  <2>3. CASE Stop(r)
    BY <2>3 DEF Stop
  <2>4. CASE Restart(r)
    BY <2>4 DEF Restart
  <2>5. CASE Teardown(r)
    BY <2>5 DEF Teardown, TypeOK
  <2>6. CASE ReloadComplete(r)
    BY <2>6 DEF ReloadComplete
  <2> QED BY <2>1, <2>2, <2>3, <2>4, <2>5, <2>6 DEF UnitStep
<1>6. CASE ~(ReloadPartial(r) \/ ReloadNothing(r))
  <2>1. Advance(r)
    BY <1>6 DEF UnitStep, Install, Start, Stop, Restart, Teardown, ReloadComplete
  <2> QED BY <1>2, <1>5, <1>6, <2>1, OnwardCall DEF CallInv
<1> QED BY <1>4, <1>6

LEMMA GiveUpCall ==
    ASSUME CallsInv, NEW r \in Requests, GiveUp(r)
    PROVE  CallInv(r)'
<1> DEFINE q == req[r]
<1>1. /\ TypeOK /\ CallInv(r) /\ q \in RequestState /\ q.op \in AllOps
      /\ q.name \in Names /\ Target(q) \in Names
  BY Fields DEF CallsInv
<1>2. CASE Leave(r)
  BY <1>2, LeaveCall
<1>3. CASE ~Leave(r)
  <2>1. Fail(r) /\ RollsBack(q) /\ Goto(r, "undo")
    BY <1>3 DEF GiveUp, Fail, Undo
  <2>2. "undo" \in StepsOf(q.op) /\ q.pc \notin Outside \cup {"lock2", "check"}
    BY <2>1 DEF RollsBack, StepsOf, Outside
  <2>3. ShapeInv(r)' /\ LockInv(r)' /\ Onward(r, "undo")
    <3>1. ShapeInv(r)' /\ LockInv(r)' /\ req'[r] = [q EXCEPT !.pc = "undo"]
      BY <2>1, <2>2, GotoCall
    <3> QED BY <1>1, <3>1 DEF Onward, RequestState
  <2>4. q.op = "rename" => q.to # q.name
    BY <1>1, <2>2 DEF CallInv, ShapeInv
  <2>5. q.op = "rename" => unit'[q.name] = unit[q.name]
    BY <1>1, <2>1, <2>4 DEF Fail, Halfway, RollsBack, Target, TypeOK, host
  <2>6. UNCHANGED disk
    BY <2>1 DEF Fail
  <2>7. FileInv(r)'
    BY <1>1, <2>1, <2>3, <2>5, <2>6 DEF CallInv, FileInv, Onward, RollsBack
  <2> QED BY <2>3, <2>7 DEF CallInv
<1> QED BY <1>2, <1>3

LEMMA CallsInit == Init => CallsInv
<1> SUFFICES ASSUME Init PROVE CallsInv
  OBVIOUS
<1>1. \A n \in Names : n \in Adopted => Loaded(n) \in Process
  BY ConstantsAssumption DEF Init, Loaded, Optional, Text, Process
<1>2. TypeOK
  BY <1>1, IdleType, ConstantsAssumption DEF Init, TypeOK, Optional
<1>3. \A r \in Requests : CallInv(r)
  BY ConstantsAssumption
  DEF Init, Idle, CallInv, ShapeInv, LockInv, FileInv, Outside, Saves
<1> QED BY <1>2, <1>3 DEF CallsInv

LEMMA CallsStep ==
    ASSUME CallsInv, [Next]_vars
    PROVE  CallsInv'
<1>1. TypeOK'
  BY NextType
<1>2. CASE UNCHANGED vars
  BY <1>1, <1>2 DEF CallsInv, CallInv, ShapeInv, LockInv, FileInv, FirstKey, Sorted, Target,
                    vars, stores, host
<1>3. ASSUME NEW r \in Requests, Arrive(r) \/ Proceed(r) \/ GiveUp(r)
      PROVE  CallsInv'
  <2>1. CallInv(r)'
    BY <1>3, ArriveCall, CheckCall, StoreStepCall, UnitStepCall, GiveUpCall DEF Proceed
  <2>2. \A s \in Requests \ {r} : CallInv(s)'
    BY <1>3, StepKept, OtherCalls
  <2> QED BY <1>1, <2>1, <2>2 DEF CallsInv
<1>4. ASSUME NEW n \in Names, Exit(n)
      PROVE  CallsInv'
  <2>1. UNCHANGED <<disk, unit, lock, req>>
    BY <1>4 DEF Exit, stores
  <2> QED BY <1>1, <2>1 DEF CallsInv, CallInv, ShapeInv, LockInv, FileInv, FirstKey, Sorted,
                            Target
<1> QED BY <1>2, <1>3, <1>4 DEF Next

\* Every state of the service is well-typed: in particular no unit is ever started
\* without its config and its unit file, whatever fails and however calls interleave.
THEOREM TypeCorrect == Spec => []TypeOK
<1>1. CallsInv => TypeOK
  BY DEF CallsInv
<1> QED BY <1>1, CallsInit, CallsStep, PTL DEF Spec

\* The check of If-Match and the write it guards are many awaits apart, but no step of
\* any other call replaces or removes the file in between.
THEOREM ConditionalSaves == Spec => NoLostUpdate
<1>1. ASSUME CallsInv
      PROVE  \A r \in Requests : LET q == req[r] IN
               q.pc = "write" /\ q.op \in Saves /\ q.ifMatch # None
                   /\ disk'[q.name] # disk[q.name]
                 => disk[q.name] = q.ifMatch
  BY <1>1 DEF CallsInv, CallInv, FileInv
<1> QED BY <1>1, CallsInit, CallsStep, PTL DEF Spec, NoLostUpdate

-----------------------------------------------------------------------------
(***************************************************************************)
(* What a process has loaded, and what the baseline says of it: the proofs *)
(* about Instances with and without outside events share these.            *)
(***************************************************************************)
RestartOps == {"saveRestart", "options", "restart", "restartAll"}

Loads(n) == proc[n] # None => TextOf(proc[n]) = disk[n]

AppliedOf(n) == IF applied[n] = None THEN started[n] ELSE applied[n]

\* The baseline fits itself and the process, whether or not the file is ahead.
Based(n) ==
    /\ started[n] # None
    /\ AppliedOf(n).fixed = started[n].fixed
    /\ proc[n] # None => started[n].fixed = proc[n].fixed

LEMMA LoadedText ==
    ASSUME TypeOK, NEW n \in Names, disk[n] # None
    PROVE  TextOf(Loaded(n)) = disk[n] /\ Loaded(n).fixed = disk[n].fixed
BY DEF TypeOK, Optional, Text, TextOf, Loaded

-----------------------------------------------------------------------------
(***************************************************************************)
(* What calls leave an instance in: its process through a rename, its      *)
(* file, its unit, its options, its pending mark and its baseline.         *)
(***************************************************************************)
(***************************************************************************)
(* How a call moves on.                                                    *)
(***************************************************************************)
Inside(q) == q.pc \notin Outside \cup {"lock2", "check"}

LEMMA InsideCall ==
    ASSUME CallsInv, NEW r \in Requests, Inside(req[r])
    PROVE  LET q == req[r] IN
           /\ q \in RequestState /\ q.op \in AllOps /\ q.pc \in StepsOf(q.op)
           /\ q.name \in Names /\ q.to \in Names /\ Target(q) \in Names
           /\ (q.op = "rename" => q.to # q.name) /\ (q.op # "rename" => q.to = q.name)
           /\ (q.op \in Saves \cup {"create", "rename"} => q.text \in Text)
           /\ lock[q.name] = r /\ lock[q.to] = r
           /\ \A n \in Names : lock[n] = r => n \in {q.name, q.to}
BY Fields, Holds DEF CallsInv, CallInv, ShapeInv, LockInv, Inside, Outside

LEMMA LeaveOutside ==
    ASSUME CallsInv, NEW r \in Requests, Leave(r)
    PROVE  req'[r].pc \in Outside /\ \A n \in Names : lock[n] = r => lock'[n] = None
BY DEF Leave, CallsInv, TypeOK, RequestState, Idle, Outside

\* A call that goes on keeps what it was asked, and its locks.
Continues(r, pc) == Onward(r, pc) /\ req'[r].opts = req[r].opts /\ lock' = lock

LEMMA GotoContinues ==
    ASSUME CallsInv, NEW r \in Requests, NEW pc, Goto(r, pc)
    PROVE  Continues(r, pc)
BY Fields DEF Goto, Continues, Onward, CallsInv, TypeOK, RequestState

LEMMA AdvanceContinues ==
    ASSUME CallsInv, NEW r \in Requests, Advance(r)
    PROVE  LET pc == Then(req[r].op, req[r].pc) IN
           \/ pc = "done" /\ Leave(r)
           \/ pc # "done" /\ Continues(r, pc)
BY GotoContinues DEF Advance

LEMMA ArriveOutside ==
    ASSUME CallsInv, NEW r \in Requests, Arrive(r)
    PROVE  \/ Lock(r) /\ req'[r].pc \in {"lock2", "check"}
           \/ LockSecond(r) /\ req'[r].pc = "check"
           \/ req'[r].pc \in Outside
<1>1. req \in [Requests -> RequestState]
  BY DEF CallsInv, TypeOK
<1>2. CASE Submit(r)
  BY <1>1, <1>2, SubmitShape DEF Shaped, Outside
<1>3. CASE List(r)
  BY <1>1, <1>3 DEF List, Idle, RequestState, Outside
<1>4. CASE Pick(r)
  BY <1>1, <1>4 DEF Pick, RequestState, Outside
<1>5. CASE Lock(r) \/ LockSecond(r)
  BY <1>1, <1>5 DEF Lock, LockSecond, Acquire, RequestState, Outside
<1> QED BY <1>2, <1>3, <1>4, <1>5 DEF Arrive

\* What the checks leave a call with.
LEMMA CheckContinues ==
    ASSUME CallsInv, NEW r \in Requests, Check(r)
    PROVE  LET q == req[r] p == req'[r] IN
           /\ p.pc = AfterCheck(q.op) /\ p.op = q.op /\ p.name = q.name /\ p.to = q.to
           /\ p.text = IF q.op = "rename" THEN disk[q.name] ELSE q.text
           /\ p.opts = IF q.op = "rename" THEN OptionsOf(q.name) ELSE q.opts
           /\ Admissible(q) /\ q.pc = "check" /\ UNCHANGED <<stores, host, lock>>
BY Fields DEF Check, At, Then, CallsInv, TypeOK, RequestState

LEMMA StepInside ==
    ASSUME CallsInv, NEW r \in Requests, StoreStep(r) \/ UnitStep(r) \/ GiveUp(r)
    PROVE  Inside(req[r])
<1>1. StoreStep(r) \/ UnitStep(r) => Inside(req[r])
  BY DEF StoreStep, RecordReplaced, RecordReplacedApplied, Write, Mark, Clear, Record,
         RecordApplied, SetApplied, Forget, SetOptions, RemoveConf, UnitStep, Install, Start,
         Stop, Restart, Teardown, ReloadComplete, ReloadPartial, ReloadNothing, At, Outside,
         Inside
<1>2. GiveUp(r) => Inside(req[r])
  BY ConstantsAssumption
     DEF GiveUp, Fail, Undo, At, MayFail, Outside, Inside, Steps
<1> QED BY <1>1, <1>2

(***************************************************************************)
(* A rename and the two names it works on.                                 *)
(***************************************************************************)
\* The old file is still there, with the text the rename took over, until it is
\* removed; the old process is gone from the moment it was stopped.
RenameInv(r) == LET q == req[r] IN
    q.op = "rename" =>
      /\ q.pc \in {"stop", "write", "install", "start", "undo", "teardown", "conf"} =>
           disk[q.name] = q.text
      /\ Inside(q) /\ q.pc # "stop" => proc[q.name] = None

RenamesInv == CallsInv /\ \A r \in Requests : RenameInv(r)

LEMMA OtherRenames ==
    ASSUME CallsInv, NEW r \in Requests, CallsKept(r), FilesKept(r),
           NEW s \in Requests \ {r}, RenameInv(s)
    PROVE  RenameInv(s)'
<1>1. req'[s] = req[s]
  BY DEF CallsKept
<1>2. CASE ~Inside(req[s])
  BY <1>1, <1>2 DEF RenameInv, Inside, Outside
<1>3. CASE Inside(req[s])
  <2>1. lock[req[s].name] = s /\ req[s].name \in Names
    BY <1>3, InsideCall
  <2>2. disk'[req[s].name] = disk[req[s].name] /\ proc'[req[s].name] = proc[req[s].name]
    BY <2>1 DEF FilesKept
  <2> QED BY <1>1, <2>2 DEF RenameInv, Inside
<1> QED BY <1>2, <1>3

LEMMA RenameGoesOn ==
    ASSUME CallsInv, NEW r \in Requests, RenameInv(r), StoreStep(r) \/ UnitStep(r),
           NEW pc, Continues(r, pc), req[r].op = "rename",
           Advance(r) => pc = Then("rename", req[r].pc)
    PROVE  RenameInv(r)'
<1> PICK q : q = req[r]
  OBVIOUS
<1>1. /\ q \in RequestState /\ q.name \in Names /\ q.to \in Names /\ q.to # q.name
      /\ q.pc \in StepsOf("rename") /\ q.text \in Text /\ q.text # None /\ Target(q) = q.to
      /\ disk \in [Names -> Optional(Text)] /\ proc \in [Names -> Optional(Process)]
      /\ q.op = "rename"
  BY StepInside, InsideCall, ConstantsAssumption DEF CallsInv, TypeOK, Target
<1>2. req'[r].pc = pc /\ req'[r].name = q.name /\ req'[r].text = q.text
  BY DEF Continues, Onward
<1>3. /\ q.pc \in {"stop", "write", "install", "start", "undo", "teardown", "conf"} =>
           disk[q.name] = q.text
      /\ q.pc # "stop" => proc[q.name] = None
  BY StepInside DEF RenameInv
<1> USE DEF StepsOf, At, Then, AfterMark, AfterClear, RenameInv, Saves, AllOps
<1>4. CASE RecordReplaced(r) \/ RecordReplacedApplied(r) \/ Mark(r) \/ Restart(r)
           \/ ReloadComplete(r) \/ ReloadPartial(r) \/ ReloadNothing(r) \/ SetApplied(r)
  BY <1>1, <1>4 DEF RecordReplaced, RecordReplacedApplied, Mark, Restart, ReloadComplete,
                    ReloadPartial, ReloadNothing, SetApplied
<1>5. CASE Write(r)
  BY <1>1, <1>2, <1>3, <1>5 DEF Write, host
<1>6. CASE Clear(r) \/ Record(r) \/ RecordApplied(r) \/ Forget(r) \/ SetOptions(r)
  BY <1>1, <1>2, <1>3, <1>6 DEF Clear, Record, RecordApplied, Forget, SetOptions, host
<1>7. CASE RemoveConf(r)
  BY <1>1, <1>2, <1>3, <1>7 DEF RemoveConf, host
<1>8. CASE Install(r) \/ Teardown(r)
  BY <1>1, <1>2, <1>3, <1>8 DEF Install, Teardown, stores
<1>9. CASE Start(r)
  BY <1>1, <1>2, <1>3, <1>9 DEF Start, stores
<1>10. CASE Stop(r)
  BY <1>1, <1>2, <1>3, <1>10 DEF Stop, stores
<1> QED BY <1>4, <1>5, <1>6, <1>7, <1>8, <1>9, <1>10 DEF StoreStep, UnitStep

LEMMA OwnRename ==
    ASSUME CallsInv, NEW r \in Requests, RenameInv(r), Arrive(r) \/ Proceed(r) \/ GiveUp(r)
    PROVE  RenameInv(r)'
<1> PICK q : q = req[r]
  OBVIOUS
<1>1. CASE req'[r].pc \in Outside \cup {"lock2", "check"}
  BY <1>1 DEF RenameInv, Inside, Outside
<1>2. CASE Leave(r)
  BY <1>1, <1>2, LeaveOutside
<1>3. CASE Arrive(r)
  <2>1. req'[r].pc \in Outside \cup {"lock2", "check"}
    BY <1>3, ArriveOutside
  <2> QED BY <1>1, <2>1
<1>4. CASE Check(r)
  BY <1>4, CheckContinues DEF RenameInv, AfterCheck, Inside, Outside, stores, host, AllOps, Saves
<1>5. CASE StoreStep(r) \/ UnitStep(r)
  <2>1. PICK pc : /\ Leave(r) \/ Continues(r, pc)
                  /\ Advance(r) => pc = Then(req[r].op, req[r].pc)
    <3>1. CASE Advance(r) \/ Leave(r)
      BY <3>1, AdvanceContinues
    <3>2. CASE RecordReplaced(r)
      BY <3>2, GotoContinues, AdvanceContinues DEF RecordReplaced
    <3> QED BY <1>5, <3>1, <3>2
         DEF StoreStep, UnitStep, RecordReplacedApplied, Write, Mark, Clear, Record,
             RecordApplied, SetApplied, Forget, SetOptions, RemoveConf, Install, Start, Stop,
             Restart, Teardown, ReloadComplete, ReloadPartial, ReloadNothing
  <2>2. CASE req[r].op = "rename" /\ ~Leave(r)
    BY <1>5, <2>1, <2>2, RenameGoesOn
  <2>3. CASE req[r].op # "rename" /\ ~Leave(r)
    BY <2>1, <2>3 DEF Continues, Onward, RenameInv
  <2> QED BY <1>2, <2>2, <2>3
<1>6. CASE GiveUp(r) /\ ~Leave(r)
  <2>1. Fail(r) /\ RollsBack(q) /\ Goto(r, "undo") /\ UNCHANGED disk
    BY <1>6 DEF GiveUp, Fail, Undo
  <2>2. Continues(r, "undo")
    BY <2>1, GotoContinues
  <2>3. q.op = "rename" => proc' = proc
    BY <2>1 DEF Fail, Halfway, RollsBack, host
  <2>4. q.pc \in {"write", "install", "start"}
    BY <2>1 DEF RollsBack
  <2> QED BY <2>1, <2>2, <2>3, <2>4 DEF RenameInv, Continues, Onward, Inside, Outside
<1> QED BY <1>2, <1>3, <1>4, <1>5, <1>6 DEF Proceed, Reject

LEMMA RenamesInit == Init => RenamesInv
BY CallsInit DEF RenamesInv, RenameInv, Init, Idle

LEMMA RenamesStep ==
    ASSUME RenamesInv, [Next]_vars
    PROVE  RenamesInv'
<1>1. CallsInv /\ CallsInv'
  BY CallsStep DEF RenamesInv
<1>2. CASE UNCHANGED vars
  BY <1>1, <1>2 DEF RenamesInv, RenameInv, Inside, vars, stores, host
<1>3. ASSUME NEW r \in Requests, Arrive(r) \/ Proceed(r) \/ GiveUp(r)
      PROVE  RenamesInv'
  <2>1. RenameInv(r)'
    BY <1>3, OwnRename DEF RenamesInv
  <2>2. \A s \in Requests \ {r} : RenameInv(s)'
    BY <1>3, StepKept, OtherRenames DEF RenamesInv
  <2> QED BY <1>1, <2>1, <2>2 DEF RenamesInv
<1>4. ASSUME NEW n \in Names, Exit(n)
      PROVE  RenamesInv'
  <2>1. ASSUME NEW r \in Requests PROVE RenameInv(r)'
    <3>1. RenameInv(r) /\ req' = req /\ disk' = disk /\ req[r].name \in Names
      BY <1>1, <1>4, Fields DEF RenamesInv, Exit, stores, CallsInv
    <3>2. proc'[req[r].name] = None \/ proc'[req[r].name] = proc[req[r].name]
      BY <1>1, <1>4, <3>1 DEF Exit, CallsInv, TypeOK
    <3> QED BY <3>1, <3>2 DEF RenameInv, Inside
  <2> QED BY <1>1, <2>1 DEF RenamesInv
<1> QED BY <1>2, <1>3, <1>4 DEF Next

\* No two rtl_airband processes fight for the receiver of a renamed instance: the old
\* one has been stopped when the new one starts, whichever step fails, whatever exits
\* and however other calls interleave.
THEOREM OneOfARename == Spec => []NeverBothRunning
<1>1. RenamesInv => NeverBothRunning
  <2> SUFFICES ASSUME RenamesInv, NEW r \in Requests, req[r].op = "rename",
                      req[r].pc \in Steps \cup {"undo"}, req[r].pc # "stop"
               PROVE  proc[req[r].name] = None
    BY DEF NeverBothRunning
  <2>1. Inside(req[r])
    BY DEF Inside, Steps, Outside
  <2> QED BY <2>1 DEF RenamesInv, RenameInv
<1> QED BY <1>1, RenamesInit, RenamesStep, PTL DEF Spec

\* A config is never lost: the only steps that take a file away are the delete of its
\* name, the end of a rename that has put the same text under the new name, and the
\* roll-back of a create or rename, which takes back the file it has itself written.
THEOREM NoConfIsLost == Spec => ConfNeverLost
<1> DEFINE Justified(n) == \E r \in Requests :
             \/ req[r].op = "delete" /\ req[r].name = n
             \/ req[r].op = "rename" /\ req[r].name = n /\ disk[req[r].to] = disk[n]
             \/ req[r].op \in {"create", "rename"} /\ Target(req[r]) = n /\ At(r, "undo")
<1>1. ASSUME RenamesInv, [Next]_vars, NEW n \in Names, disk[n] # None, disk'[n] = None
      PROVE  Justified(n)
  <2>1. PICK r \in Requests : Arrive(r) \/ Proceed(r) \/ GiveUp(r)
    BY <1>1 DEF Next, Exit, vars, stores
  <2>2. CallsInv /\ RenameInv(r)
    BY <1>1 DEF RenamesInv
  <2>3. Write(r) \/ RemoveConf(r) \/ Undo(r)
    BY <1>1, <2>1
    DEF Arrive, Submit, List, Pick, Lock, LockSecond, Acquire, Proceed, Check, Reject, GiveUp,
        Fail, StoreStep, RecordReplaced, RecordReplacedApplied, Mark, Clear, Record,
        RecordApplied, SetApplied, Forget, SetOptions, UnitStep, Install, Start, Stop, Restart,
        Teardown, ReloadComplete, ReloadPartial, ReloadNothing, stores, host
  <2>4. PICK q : q = req[r]
    OBVIOUS
  <2>5. Inside(q)
    BY <2>3, <2>4 DEF Write, RemoveConf, Undo, At, Inside, Outside
  <2>6. /\ q.op \in AllOps /\ q.pc \in StepsOf(q.op) /\ q.name \in Names /\ Target(q) \in Names
        /\ (q.op = "rename" => q.to # q.name)
        /\ (q.op \in Saves \cup {"create", "rename"} => q.text \in Text)
    BY <2>2, <2>4, <2>5, InsideCall
  <2>7. CASE Write(r)
    <3>1. q.op \in Saves \cup {"create", "rename"}
      BY <2>4, <2>6, <2>7 DEF Write, At, StepsOf, AllOps, Saves
    <3>2. q.text # None
      BY <2>6, <3>1, ConstantsAssumption
    <3> QED BY <1>1, <2>2, <2>4, <2>6, <2>7, <3>2 DEF Write, CallsInv, TypeOK
  <2>8. CASE RemoveConf(r)
    <3>1. q.pc = "conf" /\ q.op \in {"rename", "delete"}
      BY <2>4, <2>6, <2>8 DEF RemoveConf, At, StepsOf, AllOps, Saves
    <3>2. n = q.name
      BY <1>1, <2>2, <2>4, <2>6, <2>8 DEF RemoveConf, CallsInv, TypeOK
    <3>3. q.op = "rename" => disk[q.name] = q.text /\ disk[q.to] = q.text
      BY <2>2, <2>4, <3>1 DEF RenameInv, CallsInv, CallInv, FileInv, Target
    <3> QED BY <2>4, <3>1, <3>2, <3>3
  <2>9. CASE Undo(r)
    <3>1. q.pc = "undo" /\ q.op \in {"create", "rename"}
      BY <2>4, <2>6, <2>9 DEF Undo, At, StepsOf, AllOps, Saves
    <3>2. n = Target(q)
      BY <1>1, <2>2, <2>4, <2>6, <2>9 DEF Undo, CallsInv, TypeOK
    <3> QED BY <2>4, <3>1, <3>2 DEF At
  <2> QED BY <2>3, <2>7, <2>8, <2>9
<1>2. ASSUME RenamesInv, [Next]_vars
      PROVE  \A n \in Names :
               disk[n] # None /\ disk'[n] = None
                 => \E r \in Requests :
                      \/ req[r].op = "delete" /\ req[r].name = n
                      \/ req[r].op = "rename" /\ req[r].name = n /\ disk[req[r].to] = disk[n]
                      \/ req[r].op \in {"create", "rename"} /\ Target(req[r]) = n
                           /\ At(r, "undo")
  BY <1>1, <1>2
<1> QED BY <1>2, RenamesInit, RenamesStep, PTL DEF Spec, ConfNeverLost

-----------------------------------------------------------------------------
(***************************************************************************)
(* What the steps of a call leave a name in.                               *)
(*                                                                         *)
(* A call that stops half-way through the removal of an instance leaves    *)
(* what is not removed yet, and nothing removes it later: service.rs has   *)
(* no clean-up.  So the two theorems below say which steps must not fail.  *)
(***************************************************************************)
RemovalCompletes == CanFail \cap {"clear", "opts", "teardown", "forget"} = {}

Fresh(n) == proc[n] = None /\ n \notin pending /\ started[n] = None /\ options[n] = None

\* A name without a config is as if nothing had ever had that name.
Neat(n) == disk[n] = None => Fresh(n) /\ unit[n] = None

\* What a call has brought up and torn down when it is at a step.
NeatCall(r) == LET q == req[r] IN
    /\ q.pc = "lock2" => Neat(FirstKey(q))
    /\ q.pc = "check" => Neat(q.name) /\ Neat(q.to)
    /\ q.op \in {"create", "rename"} =>
         /\ q.pc \in {"stop", "write", "install", "start", "undo"} => Fresh(Target(q))
         /\ q.pc \in {"stop", "write"} => unit[Target(q)] = None
    /\ q.op = "delete" =>
         /\ q.pc \in {"stop", "teardown", "conf"} => disk[q.name] # None
         /\ Inside(q) /\ q.pc # "stop" => proc[q.name] = None
    /\ q.op \in {"rename", "delete"} =>
         /\ q.pc \in {"conf", "clear", "opts", "forget", "record", "record2"} =>
              unit[q.name] = None
         /\ q.pc \in {"opts", "forget", "record", "record2"} => q.name \notin pending
         /\ q.pc \in {"forget", "record", "record2"} => options[q.name] = None
         /\ q.pc \in {"record", "record2"} => started[q.name] = None

NeatInv ==
    /\ RenamesInv
    /\ \A n \in Names : lock[n] = None => Neat(n)
    /\ \A r \in Requests : NeatCall(r)

\* Nothing that Neat and NeatCall look at changes.
SameName(n) ==
    /\ disk'[n] = disk[n] /\ unit'[n] = unit[n] /\ proc'[n] = proc[n]
    /\ started'[n] = started[n] /\ options'[n] = options[n]
    /\ n \in pending' <=> n \in pending

LEMMA OtherNeatCalls ==
    ASSUME CallsInv, NEW r \in Requests, CallsKept(r), FilesKept(r),
           NEW s \in Requests \ {r}, NeatCall(s)
    PROVE  NeatCall(s)'
<1> PICK q : q = req[s]
  OBVIOUS
<1>1. req'[s] = q /\ CallInv(s) /\ TypeOK
  BY DEF CallsKept, CallsInv
<1>2. ASSUME NEW n \in Names, lock[n] = s PROVE SameName(n)
  BY <1>2 DEF FilesKept, SameName
<1>3. CASE q.pc \in Outside
  BY <1>1, <1>3 DEF NeatCall, Inside, Outside
<1>4. CASE q.pc = "lock2"
  <2>1. FirstKey(q) \in Names /\ lock[FirstKey(q)] = s
    BY <1>1, <1>4, Fields DEF CallInv, LockInv
  <2>2. Neat(FirstKey(q))'
    BY <1>2, <1>4, <2>1 DEF NeatCall, Neat, Fresh, SameName
  <2> QED BY <1>1, <1>4, <2>2 DEF NeatCall, Inside
<1>5. CASE q.pc \notin Outside \cup {"lock2"}
  <2>1. /\ q.name \in Names /\ q.to \in Names /\ Target(q) \in Names
        /\ lock[q.name] = s /\ lock[q.to] = s /\ lock[Target(q)] = s
    BY <1>1, <1>5, Fields, Holds
  <2>2. SameName(q.name) /\ SameName(q.to) /\ SameName(Target(q))
    BY <1>2, <2>1
  <2>3. /\ Neat(q.name) => Neat(q.name)'
        /\ Neat(q.to) => Neat(q.to)'
        /\ Fresh(Target(q)) => Fresh(Target(q))'
    BY <2>2 DEF Neat, Fresh, SameName
  <2> QED BY <1>1, <1>5, <2>2, <2>3 DEF NeatCall, SameName, Inside, Outside
<1> QED BY <1>3, <1>4, <1>5

(***************************************************************************)
(* A step of a call either ends it and leaves its names neat, or leaves    *)
(* what its next step relies on.                                           *)
(***************************************************************************)
\* A call at a step that changes something, and what is known of it.
Known(r, q) ==
    /\ TypeOK /\ q = req[r] /\ q \in RequestState /\ Inside(q)
    /\ q.op \in AllOps /\ q.pc \in StepsOf(q.op)
    /\ q.name \in Names /\ q.to \in Names
    /\ (q.op = "rename" => q.to # q.name) /\ (q.op # "rename" => q.to = q.name)
    /\ q.op \in Saves \cup {"create", "rename"} => q.text \in Text /\ q.text # None
    /\ FileInv(r) /\ RenameInv(r)

LEMMA KnownCall ==
    ASSUME CallsInv, NEW r \in Requests, RenameInv(r),
           StoreStep(r) \/ UnitStep(r) \/ GiveUp(r)
    PROVE  Known(r, req[r])
BY StepInside, InsideCall, ConstantsAssumption DEF Known, CallsInv, CallInv

LEMMA NeatContinues ==
    ASSUME RemovalCompletes, NEW r \in Requests, NeatCall(r), StoreStep(r) \/ UnitStep(r),
           NEW q, Known(r, q), NEW pc, Continues(r, pc),
           Advance(r) => pc = Then(q.op, q.pc),
           ~Advance(r) => RecordReplaced(r) /\ pc \in {"base2", "write"}
    PROVE  NeatCall(r)'
<1> USE DEF Known
<1>1. /\ req'[r].pc = pc /\ req'[r].name = q.name /\ req'[r].to = q.to
      /\ req'[r].op = q.op /\ Target(req'[r]) = Target(q)
  BY DEF Continues, Onward, Target
<1>2. CASE q.op \notin {"create", "rename", "delete"}
  <2>1. pc \notin {"lock2", "check"}
    BY <1>2 DEF Then, AfterCheck, AfterMark, AfterClear, StepsOf, Inside, AllOps, Saves
  <2> QED BY <1>1, <1>2, <2>1 DEF NeatCall
<1>3. CASE q.op \in {"create", "rename", "delete"}
  <2> USE <1>1, <1>3 DEF StepsOf, At, Then, AfterMark, AfterClear, Saves, AllOps, NeatCall,
                         Inside, Outside, Fresh, Target, TypeOK
  <2>1. CASE RecordReplaced(r) \/ RecordReplacedApplied(r) \/ Mark(r) \/ Restart(r)
             \/ ReloadComplete(r) \/ ReloadPartial(r) \/ ReloadNothing(r) \/ SetApplied(r)
    BY <2>1 DEF RecordReplaced, RecordReplacedApplied, Mark, Restart, ReloadComplete,
                ReloadPartial, ReloadNothing, SetApplied
  <2>2. CASE Write(r)
    BY <2>2 DEF Write, host
  <2>3. CASE Clear(r)
    BY <2>3 DEF Clear, host
  <2>4. CASE Record(r)
    BY <2>4 DEF Record, host
  <2>5. CASE RecordApplied(r)
    BY <2>5 DEF RecordApplied, host
  <2>6. CASE Forget(r)
    BY <2>6 DEF Forget, host, RemovalCompletes
  <2>7. CASE SetOptions(r)
    BY <2>7 DEF SetOptions, OptionsAfter, host
  <2>8. CASE RemoveConf(r)
    BY <2>8 DEF RemoveConf, host, RenameInv
  <2>9. CASE Install(r)
    BY <2>9 DEF Install, stores
  <2>10. CASE Start(r)
    BY <2>10 DEF Start, stores
  <2>11. CASE Stop(r)
    BY <2>11 DEF Stop, stores
  <2>12. CASE Teardown(r)
    BY <2>12 DEF Teardown, stores
  <2> QED BY <2>1, <2>2, <2>3, <2>4, <2>5, <2>6, <2>7, <2>8, <2>9, <2>10, <2>11, <2>12
          DEF StoreStep, UnitStep
<1> QED BY <1>2, <1>3

LEMMA NeatLeaves ==
    ASSUME RemovalCompletes, NEW r \in Requests, NeatCall(r), StoreStep(r) \/ UnitStep(r),
           NEW q, Known(r, q), Leave(r), Advance(r) => Then(q.op, q.pc) = "done",
           NEW n \in {q.name, q.to}
    PROVE  Neat(n)'
<1> USE DEF Known, Neat
<1>1. CASE q.op \notin {"create", "rename", "delete"}
  <2>1. disk[n] # None
    BY <1>1 DEF FileInv, StepsOf, AllOps, Saves
  <2>2. CASE Write(r) \/ RemoveConf(r)
    BY <1>1, <2>2 DEF Write, RemoveConf, At, Target, StepsOf, AllOps, Saves, TypeOK
  <2>3. CASE ~(Write(r) \/ RemoveConf(r))
    <3>1. disk' = disk
      BY <2>3 DEF StoreStep, RecordReplaced, RecordReplacedApplied, Mark, Clear, Record,
         RecordApplied, SetApplied, Forget, SetOptions, UnitStep, Install, Start,
         Stop, Restart, Teardown, ReloadComplete, ReloadPartial, ReloadNothing, stores
    <3> QED BY <2>1, <3>1
  <2> QED BY <2>2, <2>3
<1>2. CASE q.op \in {"create", "rename", "delete"}
  <2>1. CASE RecordApplied(r)
    <3>1. /\ q.pc = "record2" /\ q.op \in {"create", "rename"} /\ disk[Target(q)] # None
          /\ UNCHANGED <<disk, started, pending, options, unit, proc>>
      BY <1>2, <2>1 DEF RecordApplied, At, host, FileInv, StepsOf, AllOps, Saves
    <3>2. q.op = "rename" => Fresh(q.name) /\ unit[q.name] = None
      BY <3>1 DEF NeatCall, RenameInv, Fresh
    <3> QED BY <3>1, <3>2 DEF Fresh, Target
  <2>2. CASE Forget(r)
    <3>1. /\ q.pc = "forget" /\ q.op = "delete"
          /\ UNCHANGED <<disk, pending, options, unit, proc>>
          /\ started' = [started EXCEPT ![q.name] = None]
      BY <1>2, <2>2 DEF Forget, At, host, RemovalCompletes, Then, StepsOf, AllOps, Saves
    <3> QED BY <3>1 DEF NeatCall, Fresh, TypeOK
  <2>3. Advance(r) /\ (RecordApplied(r) \/ Forget(r))
    BY <1>2 DEF StoreStep, RecordReplaced, RecordReplacedApplied, Write, Mark, Clear, Record,
         RecordApplied, SetApplied, Forget, SetOptions, RemoveConf, UnitStep, Install, Start,
         Stop, Restart, Teardown, ReloadComplete, ReloadPartial, ReloadNothing, At, Then,
         StepsOf, AllOps, Saves, AfterMark, AfterClear
  <2> QED BY <2>1, <2>2, <2>3
<1> QED BY <1>1, <1>2

LEMMA NeatFails ==
    ASSUME RemovalCompletes, NEW r \in Requests, NeatCall(r), Fail(r), NEW q, Known(r, q)
    PROVE  /\ Leave(r) => \A n \in {q.name, q.to} : Neat(n)'
           /\ ~Leave(r) => NeatCall(r)'
<1> USE DEF Known, Neat
<1>1. UNCHANGED <<disk, started>> /\ MayFail(q)
  BY DEF Fail
<1>2. ASSUME Leave(r), NEW n \in {q.name, q.to} PROVE Neat(n)'
  <2>1. CASE disk[n] # None
    BY <1>1, <2>1
  <2>2. CASE disk[n] = None
    <3>1. q.op \in {"create", "rename", "delete"}
      BY <2>2 DEF FileInv, StepsOf, AllOps, Saves
    <3>2. q.pc \notin {"clear", "opts", "forget"}
      BY <1>1 DEF MayFail, RemovalCompletes
    <3>3. q.pc # "teardown"
      BY <1>1, <2>2, <3>1
         DEF MayFail, RemovalCompletes, FileInv, NeatCall, StepsOf, Target, Saves, AllOps
    <3>4. CASE q.pc \in {"install", "start", "undo"}
      <4>1. Goto(r, "undo")
        BY <3>1, <3>4, <1>1, ConstantsAssumption
           DEF Fail, RollsBack, MayFail, Steps, StepsOf, AllOps, Saves
      <4>2. req'[r].pc = "undo"
        BY <4>1 DEF Goto, TypeOK
      <4>3. req'[r].pc # "undo"
        BY <1>2 DEF Leave, TypeOK, Idle
      <4> QED BY <4>2, <4>3
    <3>5. CASE q.pc \in {"stop", "write", "conf", "record", "record2"}
      <4>1. UNCHANGED <<pending, options, unit, proc>>
        BY <3>5 DEF Fail, Halfway, host
      <4>2. Fresh(n) /\ unit[n] = None
        BY <2>2, <3>1, <3>5
           DEF NeatCall, FileInv, RenameInv, Fresh, Target, StepsOf, AllOps, Saves, Inside
      <4> QED BY <1>1, <4>1, <4>2 DEF Fresh
    <3> QED BY <3>1, <3>2, <3>3, <3>4, <3>5 DEF StepsOf, AllOps, Saves
  <2> QED BY <2>1, <2>2
<1>3. ASSUME ~Leave(r) PROVE NeatCall(r)'
  <2>1. RollsBack(q) /\ Goto(r, "undo")
    BY <1>3 DEF Fail
  <2>2. /\ req'[r].pc = "undo" /\ req'[r].name = q.name /\ req'[r].to = q.to
        /\ req'[r].op = q.op /\ Target(req'[r]) = Target(q)
    BY <2>1 DEF Goto, TypeOK, RequestState, Target
  <2>3. q.op \in {"create", "rename"} /\ q.pc \in {"write", "install", "start"}
    BY <2>1 DEF RollsBack
  <2>4. UNCHANGED <<pending, options, proc>>
    BY <2>3 DEF Fail, Halfway, host
  <2> QED BY <1>1, <2>2, <2>3, <2>4 DEF NeatCall, Fresh
<1> QED BY <1>2, <1>3

LEMMA NeatUndone ==
    ASSUME RemovalCompletes, NEW r \in Requests, NeatCall(r), Undo(r), NEW q, Known(r, q),
           NEW n \in {q.name, q.to}
    PROVE  Neat(n)'
<1> USE DEF Known
<1>1. q.pc = "undo" /\ q.op \in {"create", "rename"} /\ Target(q) \in {q.name, q.to}
  BY DEF Undo, At, StepsOf, AllOps, Saves, Target
<1>2. CASE n = Target(q)
  <2>1. Fresh(n)
    BY <1>1, <1>2 DEF NeatCall
  <2>2. unit'[n] = None
    BY <1>1, <1>2 DEF Undo, RemovalCompletes, TypeOK
  <2>3. proc'[n] = None
    BY <1>1, <1>2, <2>1 DEF Undo, Fresh, Target, TypeOK
  <2> QED BY <2>1, <2>2, <2>3 DEF Undo, Neat, Fresh
<1>3. CASE n # Target(q)
  <2>1. q.op = "rename" /\ n = q.name
    BY <1>1, <1>3 DEF Target
  <2>2. disk'[n] # None
    BY <1>1, <1>3, <2>1 DEF Undo, FileInv, TypeOK
  <2> QED BY <2>2 DEF Neat
<1> QED BY <1>2, <1>3

LEMMA NeatChecks ==
    ASSUME CallsInv, NEW r \in Requests, NeatCall(r), Check(r) \/ Reject(r)
    PROVE  /\ Reject(r) => Neat(req[r].name) /\ Neat(req[r].to)
           /\ NeatCall(r)'
<1>1. Neat(req[r].name) /\ Neat(req[r].to)
  BY DEF NeatCall, Check, Reject, At
<1>2. CASE Reject(r)
  <2>1. Leave(r)
    BY <1>2 DEF Reject
  <2>2. req'[r].pc \in Outside
    BY <2>1, LeaveOutside
  <2> QED BY <1>1, <2>2 DEF NeatCall, Inside, Outside
<1>3. CASE Check(r)
  <2>1. req[r].op \in AllOps
    BY Fields DEF CallsInv
  <2> QED BY <1>1, <1>3, <2>1, CheckContinues
       DEF NeatCall, Neat, Fresh, Admissible, AfterCheck, Target, Inside, Outside, stores, host,
           AllOps, Saves
<1> QED BY <1>1, <1>2, <1>3

LEMMA NeatArrives ==
    ASSUME CallsInv, NEW r \in Requests, NeatCall(r), Arrive(r),
           \A n \in Names : lock[n] = None => Neat(n)
    PROVE  NeatCall(r)'
<1>1. req \in [Requests -> RequestState] /\ req[r] \in RequestState
  BY DEF CallsInv, TypeOK
<1>2. UNCHANGED <<disk, unit, proc, pending, started, options>>
  BY DEF Arrive, Submit, List, Pick, Lock, LockSecond, Acquire, stores, host
<1>3. CASE req'[r].pc \in Outside
  BY <1>3 DEF NeatCall, Inside, Outside
<1>4. CASE Lock(r)
  <2>1. Neat(FirstKey(req[r]))
    BY <1>4, Fields DEF Lock, Acquire, CallsInv
  <2>2. /\ req'[r].name = req[r].name /\ req'[r].to = req[r].to
        /\ req'[r].pc = IF req[r].name = req[r].to THEN "check" ELSE "lock2"
    BY <1>1, <1>4 DEF Lock, Acquire, RequestState
  <2> QED BY <1>2, <2>1, <2>2 DEF NeatCall, Neat, Fresh, FirstKey, Sorted, Inside, Outside
<1>5. CASE LockSecond(r)
  <2>1. Neat(FirstKey(req[r])) /\ Neat(SecondKey(req[r]))
    BY <1>5, Fields DEF LockSecond, At, Acquire, CallsInv, NeatCall
  <2>2. /\ req'[r].name = req[r].name /\ req'[r].to = req[r].to /\ req'[r].pc = "check"
    BY <1>1, <1>5 DEF LockSecond, Acquire, RequestState
  <2> QED BY <1>2, <2>1, <2>2 DEF NeatCall, Neat, Fresh, FirstKey, SecondKey, Inside, Outside
<1> QED BY <1>3, <1>4, <1>5, ArriveOutside

\* How a step of the unit or of a store moves its call.
LEMMA StepMoves ==
    ASSUME CallsInv, NEW r \in Requests, StoreStep(r) \/ UnitStep(r)
    PROVE  \/ Leave(r) /\ (Advance(r) => Then(req[r].op, req[r].pc) = "done")
           \/ \E pc : /\ Continues(r, pc)
                      /\ Advance(r) => pc = Then(req[r].op, req[r].pc)
                      /\ ~Advance(r) => RecordReplaced(r) /\ pc \in {"base2", "write"}
<1>1. CASE Advance(r)
  BY <1>1, AdvanceContinues
<1>2. CASE RecordReplaced(r) /\ ~Advance(r)
  <2>1. PICK pc \in {"base2", "write"} : Goto(r, pc)
    BY <1>2 DEF RecordReplaced
  <2>2. Continues(r, pc)
    BY <2>1, GotoContinues
  <2> QED BY <1>2, <2>2
<1>3. CASE ReloadPartial(r) \/ ReloadNothing(r)
  BY <1>1, <1>3 DEF ReloadPartial, ReloadNothing
<1> QED BY <1>1, <1>2, <1>3
     DEF StoreStep, UnitStep, RecordReplacedApplied, Write, Mark, Clear, Record, RecordApplied,
         SetApplied, Forget, SetOptions, RemoveConf, Install, Start, Stop, Restart, Teardown,
         ReloadComplete

\* Only a call that ends frees a lock.
LEMMA Freed ==
    ASSUME CallsInv, NEW r \in Requests, Arrive(r) \/ Proceed(r) \/ GiveUp(r),
           NEW n \in Names, lock[n] # None, lock'[n] = None
    PROVE  /\ Leave(r) /\ n \in {req[r].name, req[r].to}
           /\ Reject(r) \/ StoreStep(r) \/ UnitStep(r) \/ GiveUp(r)
<1>1. Leave(r) \/ lock' = lock \/ \E m \in Names : lock' = [lock EXCEPT ![m] = r]
  BY Fields DEF CallsInv, Arrive, Submit, List, Pick, Lock, LockSecond, Acquire, Proceed,
         Check, Reject, StoreStep, RecordReplaced, RecordReplacedApplied, Write, Mark, Clear,
         Record, RecordApplied, SetApplied, Forget, SetOptions, RemoveConf, UnitStep, Install,
         Start, Stop, Restart, Teardown, ReloadComplete, ReloadPartial, ReloadNothing, GiveUp,
         Fail, Undo, Advance, Goto
<1>2. Leave(r) /\ lock[n] = r
  BY <1>1, ConstantsAssumption DEF Leave, CallsInv, TypeOK
<1>3. ~Arrive(r) /\ ~Check(r)
  BY <1>2, ConstantsAssumption
     DEF Arrive, Submit, List, Pick, Lock, LockSecond, Acquire, Check, CallsInv, TypeOK
<1>4. req[r].pc = "check" \/ Inside(req[r])
  BY <1>3, StepInside DEF Proceed, Reject, At
<1>5. n \in {req[r].name, req[r].to}
  BY <1>2, <1>4, ConstantsAssumption DEF CallsInv, CallInv, LockInv, Inside, Outside
<1> QED BY <1>2, <1>3, <1>5 DEF Proceed

LEMMA NeatInit == Init => NeatInv
BY RenamesInit DEF NeatInv, Init, Idle, Neat, Fresh, NeatCall, Inside, Outside

\* The call that takes the step, and the names it lets go.
LEMMA OwnNeat ==
    ASSUME RemovalCompletes, NeatInv, NEW r \in Requests, Arrive(r) \/ Proceed(r) \/ GiveUp(r)
    PROVE  /\ NeatCall(r)'
           /\ \A n \in Names : lock[n] # None /\ lock'[n] = None => Neat(n)'
<1>1. CallsInv /\ NeatCall(r) /\ RenameInv(r) /\ \A n \in Names : lock[n] = None => Neat(n)
  BY DEF NeatInv, RenamesInv
<1> PICK q : q = req[r]
  OBVIOUS
<1>2. \A n \in Names : lock[n] # None /\ lock'[n] = None =>
        /\ Leave(r) /\ n \in {q.name, q.to}
        /\ Reject(r) \/ StoreStep(r) \/ UnitStep(r) \/ GiveUp(r)
  BY <1>1, Freed
<1>3. Leave(r) => NeatCall(r)'
  <2>1. ASSUME Leave(r) PROVE req'[r].pc \in Outside
    BY <1>1, <2>1, LeaveOutside
  <2> QED BY <2>1 DEF NeatCall, Inside, Outside
<1>4. CASE Arrive(r)
  <2>1. ~(Reject(r) \/ StoreStep(r) \/ UnitStep(r) \/ GiveUp(r))
    <3>1. req[r].pc \in Outside \cup {"lock2"}
      BY <1>4 DEF Arrive, Submit, List, Pick, Lock, LockSecond, At, Outside
    <3> QED BY <1>1, <3>1, StepInside DEF Reject, At, Inside, Outside
  <2> QED BY <1>1, <1>2, <1>4, <2>1, NeatArrives
<1>5. CASE Check(r) \/ Reject(r)
  <2>1. NeatCall(r)' /\ (Reject(r) => Neat(q.name) /\ Neat(q.to))
    BY <1>1, <1>5, NeatChecks
  <2>2. UNCHANGED <<stores, host>>
    BY <1>5 DEF Check, Reject
  <2>3. q.pc = "check"
    BY <1>5 DEF Check, Reject, At
  <2>4. ~(StoreStep(r) \/ UnitStep(r) \/ GiveUp(r))
    BY <1>1, <2>3, StepInside DEF Inside
  <2>5. Reject(r) => \A n \in {q.name, q.to} : Neat(n)'
    BY <2>1, <2>2 DEF Neat, Fresh, stores, host
  <2> QED BY <1>2, <2>1, <2>4, <2>5
<1>6. CASE StoreStep(r) \/ UnitStep(r)
  <2>1. Known(r, q)
    BY <1>1, <1>6, KnownCall
  <2>2. CASE Leave(r) /\ (Advance(r) => Then(q.op, q.pc) = "done")
    <3>1. \A n \in {q.name, q.to} : Neat(n)'
      BY <1>1, <1>6, <2>1, <2>2, NeatLeaves
    <3> QED BY <1>2, <1>3, <2>2, <3>1
  <2>3. CASE \E pc : /\ Continues(r, pc)
                     /\ Advance(r) => pc = Then(q.op, q.pc)
                     /\ ~Advance(r) => RecordReplaced(r) /\ pc \in {"base2", "write"}
    <3>1. NeatCall(r)'
      BY <1>1, <1>6, <2>1, <2>3, NeatContinues
    <3>2. lock' = lock
      BY <2>3 DEF Continues
    <3> QED BY <3>1, <3>2
  <2> QED BY <1>1, <1>6, <2>2, <2>3, StepMoves
<1>7. CASE GiveUp(r)
  <2>1. Known(r, q)
    BY <1>1, <1>7, KnownCall
  <2>2. CASE Fail(r)
    BY <1>1, <1>2, <1>3, <2>1, <2>2, NeatFails
  <2>3. CASE Undo(r)
    <3>1. Leave(r) /\ \A n \in {q.name, q.to} : Neat(n)'
      BY <1>1, <2>1, <2>3, NeatUndone DEF Undo
    <3> QED BY <1>2, <1>3, <3>1
  <2> QED BY <1>7, <2>2, <2>3 DEF GiveUp
<1> QED BY <1>4, <1>5, <1>6, <1>7 DEF Proceed

LEMMA NeatStep ==
    ASSUME RemovalCompletes, NeatInv, [Next]_vars
    PROVE  NeatInv'
<1>1. CallsInv /\ TypeOK /\ RenamesInv'
  BY RenamesStep DEF NeatInv, RenamesInv, CallsInv
<1>2. CASE UNCHANGED vars
  BY <1>1, <1>2 DEF NeatInv, NeatCall, Neat, Fresh, Inside, FirstKey, Sorted, Target, vars,
                    stores, host
<1>3. ASSUME NEW r \in Requests, Arrive(r) \/ Proceed(r) \/ GiveUp(r)
      PROVE  NeatInv'
  <2>1. CallsKept(r) /\ FilesKept(r)
    BY <1>1, <1>3, StepKept
  <2>2. \A s \in Requests \ {r} : NeatCall(s)'
    BY <1>1, <2>1, OtherNeatCalls DEF NeatInv
  <2>3. ASSUME NEW n \in Names, lock[n] = None PROVE Neat(n)'
    <3>1. Neat(n) /\ lock[n] # r
      BY <2>3, ConstantsAssumption DEF NeatInv
    <3> QED BY <2>1, <3>1 DEF FilesKept, Neat, Fresh
  <2> QED BY <1>1, <1>3, <2>2, <2>3, OwnNeat DEF NeatInv
<1>4. ASSUME NEW m \in Names, Exit(m)
      PROVE  NeatInv'
  <2>1. /\ UNCHANGED <<disk, pending, started, options, unit, lock, req>>
        /\ \A n \in Names : proc'[n] = None \/ proc'[n] = proc[n]
    BY <1>1, <1>4 DEF Exit, stores, TypeOK
  <2>2. \A n \in Names : (Neat(n) => Neat(n)') /\ (Fresh(n) => Fresh(n)')
    BY <2>1 DEF Neat, Fresh
  <2>3. ASSUME NEW r \in Requests PROVE NeatCall(r)'
    <3> PICK q : q = req[r]
      OBVIOUS
    <3>1. /\ q.name \in Names /\ q.to \in Names /\ FirstKey(q) \in Names
          /\ Target(q) \in Names /\ NeatCall(r)
      BY <1>1, Fields DEF NeatInv
    <3> QED BY <2>1, <2>2, <3>1 DEF NeatCall, Inside
  <2> QED BY <1>1, <2>1, <2>2, <2>3 DEF NeatInv
<1> QED BY <1>2, <1>3, <1>4 DEF Next

\* If no step of a removal fails half-way, a name without a config has nothing of an
\* earlier instance: whatever else fails, whatever is rolled back, whatever exits and
\* however creates, renames and deletes interleave.
THEOREM RemovalIsComplete ==
    ASSUME RemovalCompletes
    PROVE  Spec => []NothingLeftBehind
<1>1. NeatInv => NothingLeftBehind
  BY DEF NeatInv, Neat, Fresh, NothingLeftBehind, Free
<1>2. NeatInv /\ [Next]_vars => NeatInv'
  BY NeatStep
<1> QED BY <1>1, <1>2, NeatInit, PTL DEF Spec

-----------------------------------------------------------------------------
(***************************************************************************)
(* The options of an instance and the unit file they render to.            *)
(***************************************************************************)
OptionsComplete == CanFail \cap {"install", "clear", "opts", "teardown", "conf"} = {}

Rendered(n) == unit[n] # None => unit[n] = OptionsOf(n)

\* No options wait for the next instance of a name.
Unset(n) == disk[n] = None => options[n] = None

Fits(n) == Rendered(n) /\ Unset(n)

\* A rename installs the new unit long before it moves the options: until then the new
\* unit renders the options that are still stored under the old name.
MovesOptions(q) ==
    /\ q.pc \in {"stop", "write", "install", "start", "undo", "teardown", "conf", "clear",
                 "opts"} =>
         options[q.to] = None /\ q.opts = OptionsOf(q.name)
    /\ q.pc \in {"stop", "write", "install"} => Rendered(q.to)
    /\ q.pc \in {"start", "teardown", "conf", "clear", "opts"} => unit[q.to] = q.opts
    /\ q.pc \in {"conf", "clear", "opts", "forget", "record", "record2"} => unit[q.name] = None
    /\ q.pc \in {"forget", "record", "record2"} => Rendered(q.to) /\ options[q.name] = None

RenderCall(r) == LET q == req[r] IN
    /\ q.op \notin {"options", "rename"} => q.opts = DefaultOpts
    /\ q.pc = "lock2" => Fits(FirstKey(q))
    /\ q.pc = "check" => Fits(q.name) /\ Fits(q.to)
    /\ Inside(q) =>
         /\ ~(q.op = "options" /\ q.pc = "install") => Rendered(q.name)
         /\ q.op = "options" /\ q.pc = "install" => options[q.name] = q.opts
         /\ q.op = "create" => options[q.name] = None
         /\ q.op = "delete" =>
              /\ q.pc \in {"stop", "teardown"} => disk[q.name] # None
              /\ q.pc \in {"conf", "clear", "opts", "forget"} => unit[q.name] = None
              /\ q.pc = "forget" => options[q.name] = None
         /\ q.op = "rename" => MovesOptions(q)

RenderInv ==
    /\ RenamesInv
    /\ \A n \in Names : lock[n] = None => Fits(n)
    /\ \A r \in Requests : RenderCall(r)

LEMMA OtherRenderCalls ==
    ASSUME CallsInv, NEW r \in Requests, CallsKept(r), FilesKept(r),
           NEW s \in Requests \ {r}, RenderCall(s)
    PROVE  RenderCall(s)'
<1> PICK q : q = req[s]
  OBVIOUS
<1>1. req'[s] = q /\ CallInv(s) /\ TypeOK
  BY DEF CallsKept, CallsInv
<1>2. ASSUME NEW n \in Names, lock[n] = s
      PROVE  /\ SameName(n)
             /\ Rendered(n) <=> Rendered(n)'
             /\ Fits(n) => Fits(n)'
             /\ OptionsOf(n)' = OptionsOf(n)
  BY <1>2 DEF FilesKept, SameName, Rendered, Unset, Fits, OptionsOf
<1>3. CASE q.pc \in Outside
  BY <1>1, <1>3 DEF RenderCall, Inside, Outside
<1>4. CASE q.pc = "lock2"
  <2>1. FirstKey(q) \in Names /\ lock[FirstKey(q)] = s
    BY <1>1, <1>4, Fields DEF CallInv, LockInv
  <2> QED BY <1>1, <1>2, <1>4, <2>1 DEF RenderCall, Inside
<1>5. CASE q.pc \notin Outside \cup {"lock2"}
  <2>1. /\ q.name \in Names /\ q.to \in Names
        /\ lock[q.name] = s /\ lock[q.to] = s
    BY <1>1, <1>5, Fields, Holds
  <2>2. MovesOptions(q) => MovesOptions(q)'
    BY <1>2, <2>1 DEF MovesOptions, SameName
  <2> QED BY <1>1, <1>2, <1>5, <2>1, <2>2 DEF RenderCall, SameName, Inside, Outside
<1> QED BY <1>3, <1>4, <1>5

LEMMA RenderContinues ==
    ASSUME NEW r \in Requests, RenderCall(r), StoreStep(r) \/ UnitStep(r),
           NEW q, Known(r, q), NEW pc, Continues(r, pc),
           Advance(r) => pc = Then(q.op, q.pc),
           ~Advance(r) => RecordReplaced(r) /\ pc \in {"base2", "write"}
    PROVE  RenderCall(r)'
<1> USE DEF Known
<1>1. /\ req'[r].pc = pc /\ req'[r].name = q.name /\ req'[r].to = q.to
      /\ req'[r].op = q.op /\ req'[r].opts = q.opts
  BY DEF Continues, Onward
<1>2. pc \notin {"lock2", "check"}
  BY DEF Then, AfterCheck, AfterMark, AfterClear, StepsOf, Inside, AllOps, Saves
<1>3. q.opts \in Opts /\ q.opts # None /\ DefaultOpts # None
  BY ConstantsAssumption DEF RequestState
<1> USE <1>1, <1>2, <1>3 DEF StepsOf, At, Then, AfterMark, AfterClear, Saves, AllOps,
        RenderCall, MovesOptions, Inside, Outside, Rendered, OptionsOf, Target, TypeOK
<1>4. CASE UNCHANGED <<options, unit>> /\ ~(Write(r) \/ RemoveConf(r) \/ Install(r) \/ Teardown(r) \/ SetOptions(r))
  BY <1>4 DEF StoreStep, RecordReplaced, RecordReplacedApplied, Mark, Clear, Record,
         RecordApplied, SetApplied, Forget, UnitStep, Start, Stop, Restart, ReloadComplete,
         ReloadPartial, ReloadNothing, stores, host
<1>5. CASE Write(r)
  BY <1>5 DEF Write, host
<1>6. CASE RemoveConf(r)
  BY <1>6 DEF RemoveConf, host
<1>7. CASE Install(r)
  BY <1>7 DEF Install, stores
<1>8. CASE Teardown(r)
  BY <1>8 DEF Teardown, stores
<1>9. CASE SetOptions(r)
  BY <1>9 DEF SetOptions, OptionsAfter, host
<1>10. Write(r) \/ RemoveConf(r) \/ Install(r) \/ Teardown(r) \/ SetOptions(r)
         \/ UNCHANGED <<options, unit>>
  BY DEF StoreStep, RecordReplaced, RecordReplacedApplied, Mark, Clear, Record,
         RecordApplied, SetApplied, Forget, UnitStep, Start, Stop, Restart, ReloadComplete,
         ReloadPartial, ReloadNothing, stores, host
<1> QED BY <1>4, <1>5, <1>6, <1>7, <1>8, <1>9, <1>10

LEMMA RenderLeaves ==
    ASSUME NEW r \in Requests, RenderCall(r), StoreStep(r) \/ UnitStep(r),
           NEW q, Known(r, q), Leave(r), Advance(r) => Then(q.op, q.pc) = "done",
           NEW n \in {q.name, q.to}
    PROVE  Fits(n)'
<1> USE DEF Known, Fits
<1>1. CASE q.op \notin {"create", "rename", "delete"}
  <2>1. disk[n] # None /\ n = q.name
    BY <1>1 DEF FileInv, StepsOf, AllOps, Saves
  <2>2. disk'[n] # None /\ UNCHANGED <<options, unit>> /\ q.pc # "install"
    <3>1. ~(RemoveConf(r) \/ SetOptions(r) \/ Install(r) \/ Teardown(r))
      <4>1. ~(SetOptions(r) \/ Install(r) \/ Teardown(r) \/ RemoveConf(r)) \/ Advance(r)
        BY DEF SetOptions, Install, Teardown, RemoveConf
      <4> QED BY <1>1, <4>1 DEF RemoveConf, SetOptions, Install, Teardown, At, Then, StepsOf,
                               AllOps, Saves
    <3>2. CASE Write(r)
      BY <1>1, <3>2 DEF Write, At, Then, StepsOf, AllOps, Saves
    <3> QED BY <2>1, <3>1, <3>2
         DEF StoreStep, RecordReplaced, RecordReplacedApplied, Mark, Clear, Record,
         RecordApplied, SetApplied, Forget, UnitStep, Start, Stop, Restart,
         ReloadComplete, ReloadPartial, ReloadNothing, stores, host, At
  <2> QED BY <1>1, <2>1, <2>2 DEF RenderCall, Rendered, Unset, OptionsOf
<1>2. CASE q.op \in {"create", "rename", "delete"}
  <2>1. CASE RecordApplied(r)
    <3>1. /\ q.pc = "record2" /\ q.op \in {"create", "rename"} /\ disk[Target(q)] # None
          /\ UNCHANGED <<disk, options, unit>>
      BY <1>2, <2>1 DEF RecordApplied, At, host, FileInv, StepsOf, AllOps, Saves
    <3>2. Fits(n)
      BY <3>1 DEF RenderCall, MovesOptions, Rendered, Unset, Target
    <3> QED BY <3>1, <3>2 DEF Rendered, Unset, OptionsOf
  <2>2. CASE Forget(r)
    <3>1. /\ q.pc = "forget" /\ q.op = "delete" /\ n = q.name
          /\ UNCHANGED <<disk, options, unit>>
      BY <1>2, <2>2 DEF Forget, At, host, Then, StepsOf, AllOps, Saves
    <3> QED BY <3>1 DEF RenderCall, Rendered, Unset, OptionsOf
  <2>3. Advance(r) /\ (RecordApplied(r) \/ Forget(r))
    BY <1>2 DEF StoreStep, RecordReplaced, RecordReplacedApplied, Write, Mark, Clear, Record,
         RecordApplied, SetApplied, Forget, SetOptions, RemoveConf, UnitStep, Install, Start,
         Stop, Restart, Teardown, ReloadComplete, ReloadPartial, ReloadNothing, At, Then,
         StepsOf, AllOps, Saves, AfterMark, AfterClear
  <2> QED BY <2>1, <2>2, <2>3
<1> QED BY <1>1, <1>2

LEMMA RenderFails ==
    ASSUME OptionsComplete, NEW r \in Requests, RenderCall(r), Fail(r), NEW q, Known(r, q)
    PROVE  /\ Leave(r) => \A n \in {q.name, q.to} : Fits(n)'
           /\ ~Leave(r) => RenderCall(r)'
<1> USE DEF Known
<1>1. UNCHANGED disk /\ MayFail(q)
  BY DEF Fail
<1>2. /\ q.pc \notin {"install", "clear", "opts", "conf"}
      /\ q.pc = "teardown" => q.op = "delete" /\ unit[q.name] = None
  BY <1>1 DEF MayFail, OptionsComplete, FileInv, StepsOf, AllOps, Saves
<1>3. UNCHANGED options /\ (unit' = unit \/ (q.pc = "teardown" /\ unit'[q.name] = None))
  BY <1>2 DEF Fail, Halfway, host, TypeOK
<1>4. ASSUME Leave(r), NEW n \in {q.name, q.to} PROVE Fits(n)'
  <2>1. q.pc \notin {"start", "undo"}
    <3>1. req'[r].pc # "undo"
      BY <1>4 DEF Leave, Idle, TypeOK
    <3>2. RollsBack(q) => req'[r].pc = "undo"
      BY DEF Fail, Goto, TypeOK, RequestState
    <3> QED BY <1>1, <3>1, <3>2, ConstantsAssumption
         DEF RollsBack, MayFail, Steps, StepsOf, AllOps, Saves
  <2>2. Unset(n)
    BY <1>2, <2>1, ConstantsAssumption
       DEF RenderCall, MovesOptions, Unset, FileInv, StepsOf, Target, Inside, AllOps, Saves
  <2>3. Rendered(n)
    BY <1>2, <2>1
       DEF RenderCall, MovesOptions, Rendered, StepsOf, AllOps, Saves
  <2> QED BY <1>1, <1>2, <1>3, <2>2, <2>3 DEF Fits, Rendered, Unset, OptionsOf
<1>5. ASSUME ~Leave(r) PROVE RenderCall(r)'
  <2>1. RollsBack(q) /\ Goto(r, "undo")
    BY <1>5 DEF Fail
  <2>2. /\ req'[r].pc = "undo" /\ req'[r].name = q.name /\ req'[r].to = q.to
        /\ req'[r].op = q.op /\ req'[r].opts = q.opts
    BY <2>1 DEF Goto, TypeOK, RequestState
  <2>3. q.op \in {"create", "rename"} /\ q.pc \in {"write", "start"}
    BY <1>2, <2>1 DEF RollsBack
  <2>4. UNCHANGED unit
    BY <1>3, <2>3
  <2> QED BY <1>1, <1>3, <2>2, <2>3, <2>4
       DEF RenderCall, MovesOptions, Rendered, OptionsOf, Inside, Outside
<1> QED BY <1>4, <1>5

LEMMA RenderUndone ==
    ASSUME OptionsComplete, NEW r \in Requests, RenderCall(r), Undo(r), NEW q, Known(r, q),
           NEW n \in {q.name, q.to}
    PROVE  Fits(n)'
<1> USE DEF Known
<1>1. q.pc = "undo" /\ q.op \in {"create", "rename"} /\ UNCHANGED options
  BY DEF Undo, At, StepsOf, AllOps, Saves
<1>2. CASE n = Target(q)
  <2>1. unit'[n] = None
    BY <1>1, <1>2 DEF Undo, OptionsComplete, Target, TypeOK
  <2>2. options[n] = None
    BY <1>1, <1>2 DEF RenderCall, MovesOptions, Target
  <2> QED BY <1>1, <2>1, <2>2 DEF Fits, Rendered, Unset
<1>3. CASE n # Target(q)
  <2>1. q.op = "rename" /\ n = q.name
    BY <1>1, <1>3 DEF Target
  <2>2. disk'[n] # None /\ (unit'[n] = unit[n])
    BY <1>1, <1>3, <2>1 DEF Undo, FileInv, Target, TypeOK
  <2> QED BY <1>1, <2>1, <2>2 DEF RenderCall, Fits, Rendered, Unset, OptionsOf
<1> QED BY <1>2, <1>3

LEMMA RenderChecks ==
    ASSUME CallsInv, NEW r \in Requests, RenderCall(r), Check(r)
    PROVE  RenderCall(r)'
<1> PICK q : q = req[r]
  OBVIOUS
<1>1. /\ q.op \in AllOps /\ q.name \in Names /\ q.to \in Names
      /\ (q.op # "rename" => q.to = q.name) /\ TypeOK
  BY Fields DEF CallsInv, CallInv, ShapeInv
<1>2. /\ q.pc = "check" /\ Admissible(q) /\ UNCHANGED <<stores, host>>
      /\ req'[r].pc = AfterCheck(q.op) /\ req'[r].op = q.op /\ req'[r].name = q.name
      /\ req'[r].to = q.to
      /\ req'[r].opts = IF q.op = "rename" THEN OptionsOf(q.name) ELSE q.opts
  BY CheckContinues
<1>3. Fits(q.name) /\ Fits(q.to)
  BY <1>2 DEF RenderCall
<1> QED BY <1>1, <1>2, <1>3
     DEF RenderCall, MovesOptions, Fits, Rendered, Unset, OptionsOf, Admissible, AfterCheck,
         stores, host, AllOps, Saves, Inside, Outside

\* The options of a call that brings none.
LEMMA SubmitOptions ==
    ASSUME NEW r \in Requests, CallsInv, Submit(r)
    PROVE  req'[r].op \notin {"options", "rename"} => req'[r].opts = DefaultOpts
<1>1. PICK op \in Ops, n \in Names :
        \E m \in (IF op = "rename" THEN Names ELSE {n}),
           t \in (IF op \in Saves \cup {"create"} THEN Text ELSE {None}),
           v \in (IF op \in Saves THEN IfMatches ELSE {None}),
           o \in (IF op = "options" THEN Opts ELSE {DefaultOpts}) :
             req' = [req EXCEPT ![r] = NewCall(op, n, m, t, v, o)]
  BY DEF Submit
<1>2. PICK m \in (IF op = "rename" THEN Names ELSE {n}),
           t \in (IF op \in Saves \cup {"create"} THEN Text ELSE {None}),
           v \in (IF op \in Saves THEN IfMatches ELSE {None}),
           o \in (IF op = "options" THEN Opts ELSE {DefaultOpts}) :
             req' = [req EXCEPT ![r] = NewCall(op, n, m, t, v, o)]
  BY <1>1
<1>3. req'[r].op = op /\ req'[r].opts = o
  BY <1>2 DEF NewCall, Idle, CallsInv, TypeOK
<1> QED BY <1>3

LEMMA RenderArrives ==
    ASSUME CallsInv, NEW r \in Requests, RenderCall(r), Arrive(r),
           \A n \in Names : lock[n] = None => Fits(n)
    PROVE  RenderCall(r)'
<1>1. req \in [Requests -> RequestState] /\ req[r] \in RequestState
  BY DEF CallsInv, TypeOK
<1>2. UNCHANGED <<disk, unit, options>>
  BY DEF Arrive, Submit, List, Pick, Lock, LockSecond, Acquire, stores, host
<1>3. ASSUME NEW n \in Names, Fits(n) PROVE Fits(n)'
  BY <1>2, <1>3 DEF Fits, Rendered, Unset, OptionsOf
<1>4. req'[r].op \notin {"options", "rename"} => req'[r].opts = DefaultOpts
  <2>1. CASE Submit(r)
    BY <2>1, SubmitOptions
  <2>2. CASE List(r)
    BY <1>1, <2>2 DEF List, Idle, RequestState, RenderCall
  <2>3. CASE Pick(r)
    BY <1>1, <2>3 DEF Pick, RequestState, RenderCall
  <2>4. CASE Lock(r) \/ LockSecond(r)
    BY <1>1, <2>4 DEF Lock, LockSecond, Acquire, RequestState, RenderCall
  <2> QED BY <2>1, <2>2, <2>3, <2>4 DEF Arrive
<1>5. CASE req'[r].pc \in Outside
  BY <1>4, <1>5 DEF RenderCall, Inside, Outside
<1>6. CASE Lock(r)
  <2>1. Fits(FirstKey(req[r])) /\ FirstKey(req[r]) \in Names
    BY <1>6, Fields DEF Lock, Acquire, CallsInv
  <2>2. /\ req'[r].name = req[r].name /\ req'[r].to = req[r].to
        /\ req'[r].pc = IF req[r].name = req[r].to THEN "check" ELSE "lock2"
    BY <1>1, <1>6 DEF Lock, Acquire, RequestState
  <2>3. Fits(FirstKey(req[r]))' /\ FirstKey(req'[r]) = FirstKey(req[r])
    <3>1. FirstKey(req'[r]) = FirstKey(req[r])
      BY <2>2 DEF FirstKey, Sorted
    <3>2. PICK n : n = FirstKey(req[r])
      OBVIOUS
    <3>3. Fits(n)'
      BY <1>3, <2>1, <3>2
    <3>4. FirstKey(req'[r]) = n
      BY <3>1, <3>2
    <3> QED BY <3>1, <3>2, <3>3, <3>4 DEF Fits, Rendered, Unset, OptionsOf
  <2> QED BY <1>4, <2>2, <2>3 DEF RenderCall, FirstKey, Sorted, Inside, Outside
<1>7. CASE LockSecond(r)
  <2>1. Fits(FirstKey(req[r])) /\ Fits(SecondKey(req[r]))
    BY <1>7, Fields DEF LockSecond, At, Acquire, CallsInv, RenderCall
  <2>2. /\ req'[r].name = req[r].name /\ req'[r].to = req[r].to /\ req'[r].pc = "check"
    BY <1>1, <1>7 DEF LockSecond, Acquire, RequestState
  <2> QED BY <1>2, <1>4, <2>1, <2>2
       DEF RenderCall, Fits, Rendered, Unset, OptionsOf, FirstKey, SecondKey, Inside, Outside
<1> QED BY <1>5, <1>6, <1>7, ArriveOutside

LEMMA RenderInit == Init => RenderInv
BY RenamesInit
   DEF RenderInv, Init, Idle, Fits, Rendered, Unset, OptionsOf, RenderCall, Inside, Outside

\* The call that takes the step, and the names it lets go.
LEMMA OwnRender ==
    ASSUME OptionsComplete, RenderInv, NEW r \in Requests,
           Arrive(r) \/ Proceed(r) \/ GiveUp(r)
    PROVE  /\ RenderCall(r)'
           /\ \A n \in Names : lock[n] # None /\ lock'[n] = None => Fits(n)'
<1>1. CallsInv /\ RenderCall(r) /\ RenameInv(r) /\ \A n \in Names : lock[n] = None => Fits(n)
  BY DEF RenderInv, RenamesInv
<1> PICK q : q = req[r]
  OBVIOUS
<1>2. \A n \in Names : lock[n] # None /\ lock'[n] = None =>
        /\ Leave(r) /\ n \in {q.name, q.to}
        /\ Reject(r) \/ StoreStep(r) \/ UnitStep(r) \/ GiveUp(r)
  BY <1>1, Freed
<1>3. Leave(r) => RenderCall(r)'
  <2>1. ASSUME Leave(r) PROVE req'[r].pc \in Outside
    BY <1>1, <2>1, LeaveOutside
  <2>2. ASSUME Leave(r)
        PROVE  req'[r].op \notin {"options", "rename"} => req'[r].opts = DefaultOpts
    BY <1>1, <2>2 DEF Leave, Idle, RenderCall, CallsInv, TypeOK, RequestState
  <2> QED BY <2>1, <2>2 DEF RenderCall, Inside, Outside
<1>4. CASE Arrive(r)
  <2>1. ~(Reject(r) \/ StoreStep(r) \/ UnitStep(r) \/ GiveUp(r))
    <3>1. req[r].pc \in Outside \cup {"lock2"}
      BY <1>4 DEF Arrive, Submit, List, Pick, Lock, LockSecond, At, Outside
    <3> QED BY <1>1, <3>1, StepInside DEF Reject, At, Inside, Outside
  <2> QED BY <1>1, <1>2, <1>4, <2>1, RenderArrives
<1>5. CASE Check(r)
  <2>1. ~(Reject(r) \/ StoreStep(r) \/ UnitStep(r) \/ GiveUp(r)) \/ Reject(r)
    BY <1>1, <1>5, StepInside DEF Check, At, Inside
  <2>2. lock' = lock
    BY <1>5 DEF Check
  <2> QED BY <1>1, <1>5, <2>2, RenderChecks
<1>6. CASE Reject(r)
  <2>1. Leave(r) /\ UNCHANGED <<stores, host>> /\ Fits(q.name) /\ Fits(q.to)
    BY <1>1, <1>6 DEF Reject, At, RenderCall
  <2>2. \A n \in {q.name, q.to} : Fits(n)'
    BY <2>1 DEF Fits, Rendered, Unset, OptionsOf, stores, host
  <2> QED BY <1>2, <1>3, <2>1, <2>2
<1>7. CASE StoreStep(r) \/ UnitStep(r)
  <2>1. Known(r, q)
    BY <1>1, <1>7, KnownCall
  <2>2. CASE Leave(r) /\ (Advance(r) => Then(q.op, q.pc) = "done")
    <3>1. \A n \in {q.name, q.to} : Fits(n)'
      BY <1>1, <1>7, <2>1, <2>2, RenderLeaves
    <3> QED BY <1>2, <1>3, <2>2, <3>1
  <2>3. CASE \E pc : /\ Continues(r, pc)
                     /\ Advance(r) => pc = Then(q.op, q.pc)
                     /\ ~Advance(r) => RecordReplaced(r) /\ pc \in {"base2", "write"}
    <3>1. RenderCall(r)'
      BY <1>1, <1>7, <2>1, <2>3, RenderContinues
    <3>2. lock' = lock
      BY <2>3 DEF Continues
    <3> QED BY <3>1, <3>2
  <2> QED BY <1>1, <1>7, <2>2, <2>3, StepMoves
<1>8. CASE GiveUp(r)
  <2>1. Known(r, q)
    BY <1>1, <1>8, KnownCall
  <2>2. CASE Fail(r)
    BY <1>1, <1>2, <1>3, <2>1, <2>2, RenderFails
  <2>3. CASE Undo(r)
    <3>1. Leave(r) /\ \A n \in {q.name, q.to} : Fits(n)'
      BY <1>1, <2>1, <2>3, RenderUndone DEF Undo
    <3> QED BY <1>2, <1>3, <3>1
  <2> QED BY <1>8, <2>2, <2>3 DEF GiveUp
<1> QED BY <1>4, <1>5, <1>6, <1>7, <1>8 DEF Proceed

LEMMA RenderStep ==
    ASSUME OptionsComplete, RenderInv, [Next]_vars
    PROVE  RenderInv'
<1>1. CallsInv /\ TypeOK /\ RenamesInv'
  BY RenamesStep DEF RenderInv, RenamesInv, CallsInv
<1>2. CASE UNCHANGED <<disk, options, unit, lock, req>>
  <2>1. \A n \in Names : (Fits(n) <=> Fits(n)') /\ (Rendered(n) <=> Rendered(n)')
    BY <1>2 DEF Fits, Rendered, Unset, OptionsOf
  <2>2. ASSUME NEW r \in Requests PROVE RenderCall(r)'
    <3> PICK q : q = req[r]
      OBVIOUS
    <3>1. /\ q.name \in Names /\ q.to \in Names /\ FirstKey(q) \in Names
          /\ RenderCall(r) /\ req'[r] = q
      BY <1>1, <1>2, Fields DEF RenderInv
    <3>2. MovesOptions(q) => MovesOptions(q)'
      BY <1>2, <2>1, <3>1 DEF MovesOptions, OptionsOf
    <3> QED BY <1>2, <2>1, <3>1, <3>2 DEF RenderCall, Inside
  <2> QED BY <1>1, <1>2, <2>1, <2>2 DEF RenderInv
<1>3. ASSUME NEW r \in Requests, Arrive(r) \/ Proceed(r) \/ GiveUp(r)
      PROVE  RenderInv'
  <2>1. CallsKept(r) /\ FilesKept(r)
    BY <1>1, <1>3, StepKept
  <2>2. \A s \in Requests \ {r} : RenderCall(s)'
    BY <1>1, <2>1, OtherRenderCalls DEF RenderInv
  <2>3. ASSUME NEW n \in Names, lock[n] = None PROVE Fits(n)'
    <3>1. Fits(n) /\ lock[n] # r
      BY <2>3, ConstantsAssumption DEF RenderInv
    <3> QED BY <2>1, <3>1 DEF FilesKept, Fits, Rendered, Unset, OptionsOf
  <2> QED BY <1>1, <1>3, <2>2, <2>3, OwnRender DEF RenderInv
<1>4. ASSUME UNCHANGED vars \/ \E n \in Names : Exit(n)
      PROVE  UNCHANGED <<disk, options, unit, lock, req>>
  BY <1>4 DEF Exit, vars, stores, host
<1> QED BY <1>2, <1>3, <1>4 DEF Next

\* If no step that changes a unit file or the options fails half-way, the unit file of an
\* instance renders its stored options: through option changes, renames that move them,
\* deletes and re-creations of the name, whatever else fails or exits.
THEOREM UnitsFollowOptions ==
    ASSUME OptionsComplete
    PROVE  Spec => []UnitRendersOptions
<1>1. RenderInv => UnitRendersOptions
  BY DEF RenderInv, Fits, Rendered, UnitRendersOptions, Free
<1>2. RenderInv /\ [Next]_vars => RenderInv'
  BY RenderStep
<1> QED BY <1>1, <1>2, RenderInit, PTL DEF Spec

-----------------------------------------------------------------------------
(***************************************************************************)
(* The pending marks and the baselines between calls.                      *)
(*                                                                         *)
(* A restart, a live apply, a create or a rename changes the process first *)
(* and its records afterwards, and an error in between leaves them apart;  *)
(* an options change marks an instance that may have no baseline yet, and  *)
(* clears the mark only if the restart succeeds. These are the steps that  *)
(* must not fail.                                                          *)
(***************************************************************************)
RecordsComplete ==
    /\ CanFail \cap {"clear", "applied", "record", "record2"} = {}
    /\ "rename" \in Ops =>
         CanFail \cap {"write", "install", "start", "teardown", "conf", "opts"} = {}
    /\ "options" \in Ops => Adopted = {} \/ CanFail \cap {"mark", "restart"} = {}

(***************************************************************************)
(* The inductive invariant.                                                *)
(***************************************************************************)
Kept(n) == IF started[n] = None THEN applied[n] = None ELSE Based(n)

\* Without adopted instances, the panel has recorded what every process loaded.
Panelled(n) == Adopted = {} => started[n] # None

\* An instance between calls.  A baseline without a process binds nothing: whatever
\* starts the process records a new one.
Settled(n) ==
    proc[n] # None =>
      /\ disk[n] # None
      /\ Kept(n) /\ Panelled(n)
      /\ n \in pending => started[n] # None
      /\ n \notin pending => Loads(n) /\ (started[n] # None => AppliedOf(n) = disk[n])

\* What the steps of a call rely on.
SaveKnows(q, n) ==
    proc[n] # None =>
      /\ q.pc = "base" => Settled(n)
      /\ q.pc = "base2" =>
           started[n] = disk[n] /\ applied[n] = None /\ n \notin pending /\ Loads(n)
      /\ q.pc = "write" => Settled(n) /\ started[n] # None
      /\ q.pc \in {"mark", "reload"} => Based(n)
      /\ q.op = "saveRestart" /\ q.pc = "restart" => Based(n) /\ n \in pending
      /\ q.pc = "reload" => n \in pending
      /\ q.op = "live" /\ q.pc \in {"clear", "applied"} =>
           Based(n) /\ Loads(n) /\ started[n].fixed = disk[n].fixed

RestartKnows(q, n) ==
    /\ q.op \in {"restart", "restartAll"} /\ q.pc = "restart" => Settled(n)
    /\ q.pc \in {"clear", "record", "record2"} => Loads(n)
    /\ q.pc = "record2" => started[n] = disk[n]

OptionsKnow(q, n) ==
    /\ q.pc \in {"opts", "install", "mark"} => Settled(n)
    /\ q.pc \in {"mark", "restart"} => unit[n] # None
    /\ q.pc = "restart" /\ proc[n] # None => Kept(n) /\ Panelled(n) /\ n \in pending

BringsUp(q, n) ==
    /\ q.pc \in {"stop", "write", "install", "start", "undo"} => proc[n] = None
    /\ q.pc \in {"teardown", "conf", "clear", "opts", "forget", "record", "record2"} => Loads(n)
    /\ q.pc = "record2" => started[n] = disk[n]

TakesDown(q, n) ==
    /\ q.pc = "stop" => Settled(n)
    /\ Inside(q) /\ q.pc # "stop" => proc[n] = None

SoundCall(r) == LET q == req[r] IN
    /\ q.pc # "idle" => q.op \in Ops
    /\ q.pc = "lock2" => Settled(FirstKey(q))
    /\ q.pc = "check" => Settled(q.name) /\ Settled(q.to)
    /\ q.op \in Saves => SaveKnows(q, q.name)
    /\ q.op \in RestartOps => RestartKnows(q, q.name)
    /\ q.op = "options" => OptionsKnow(q, q.name)
    /\ q.op \in {"create", "rename"} => BringsUp(q, Target(q))
    /\ q.op \in {"rename", "delete"} => TakesDown(q, q.name)
    /\ q.op = "rename" => q.pc # "undo"

SoundInv ==
    /\ RenamesInv
    /\ \A n \in Names : lock[n] = None => Settled(n)
    /\ \A r \in Requests : SoundCall(r)

(***************************************************************************)
(* What other calls and an exit leave.                                     *)
(***************************************************************************)
\* Nothing changes of an instance, except that its process may have exited.
Still(n) ==
    /\ disk'[n] = disk[n] /\ unit'[n] = unit[n]
    /\ started'[n] = started[n] /\ applied'[n] = applied[n]
    /\ n \in pending' <=> n \in pending
    /\ proc'[n] = proc[n] \/ proc'[n] = None

LEMMA SettledStill ==
    ASSUME NEW n, Still(n)
    PROVE  /\ Settled(n) => Settled(n)'
           /\ Loads(n) => Loads(n)'
           /\ Based(n) => Based(n)'
           /\ Kept(n) => Kept(n)'
           /\ Panelled(n) => Panelled(n)'
BY DEF Still, Settled, Loads, Based, Kept, Panelled, AppliedOf

LEMMA KnowsStill ==
    ASSUME NEW q, NEW n, Still(n)
    PROVE  /\ SaveKnows(q, n) => SaveKnows(q, n)'
           /\ RestartKnows(q, n) => RestartKnows(q, n)'
           /\ OptionsKnow(q, n) => OptionsKnow(q, n)'
           /\ BringsUp(q, n) => BringsUp(q, n)'
           /\ TakesDown(q, n) => TakesDown(q, n)'
<1>1. /\ Settled(n) => Settled(n)'
      /\ Loads(n) => Loads(n)'
      /\ Based(n) => Based(n)'
      /\ Kept(n) => Kept(n)'
      /\ Panelled(n) => Panelled(n)'
  BY SettledStill
<1>2. SaveKnows(q, n) => SaveKnows(q, n)'
  BY <1>1 DEF SaveKnows, Still
<1>3. RestartKnows(q, n) => RestartKnows(q, n)'
  BY <1>1 DEF RestartKnows, Still
<1>4. OptionsKnow(q, n) => OptionsKnow(q, n)'
  BY <1>1 DEF OptionsKnow, Still
<1>5. (BringsUp(q, n) => BringsUp(q, n)') /\ (TakesDown(q, n) => TakesDown(q, n)')
  BY <1>1 DEF BringsUp, TakesDown, Still
<1> QED BY <1>2, <1>3, <1>4, <1>5

LEMMA SoundStill ==
    ASSUME CallsInv, NEW s \in Requests, SoundCall(s), req'[s] = req[s],
           \A n \in Names : lock[n] = s => Still(n)
    PROVE  SoundCall(s)'
<1> PICK q : q = req[s]
  OBVIOUS
<1>1. CallInv(s) /\ TypeOK
  BY DEF CallsInv
<1>2. CASE q.pc \in Outside
  BY <1>2 DEF SoundCall, SaveKnows, RestartKnows, OptionsKnow, BringsUp, TakesDown, Inside, Outside
<1>3. CASE q.pc = "lock2"
  <2>1. FirstKey(q) \in Names /\ lock[FirstKey(q)] = s
    BY <1>1, <1>3, Fields DEF CallInv, LockInv
  <2>2. Settled(FirstKey(q))'
    BY <1>3, <2>1, SettledStill DEF SoundCall
  <2> QED BY <1>3, <2>2
       DEF SoundCall, SaveKnows, RestartKnows, OptionsKnow, BringsUp, TakesDown, Inside
<1>4. CASE q.pc \notin Outside \cup {"lock2"}
  <2>1. /\ q.name \in Names /\ q.to \in Names /\ Target(q) \in Names
        /\ lock[q.name] = s /\ lock[q.to] = s /\ lock[Target(q)] = s
    BY <1>1, <1>4, Fields, Holds
  <2>2. Still(q.name) /\ Still(q.to) /\ Still(Target(q))
    BY <2>1
  <2>3. /\ Settled(q.name) => Settled(q.name)'
        /\ Settled(q.to) => Settled(q.to)'
    BY <2>2, SettledStill
  <2>4. /\ SaveKnows(q, q.name) => SaveKnows(q, q.name)'
        /\ RestartKnows(q, q.name) => RestartKnows(q, q.name)'
        /\ OptionsKnow(q, q.name) => OptionsKnow(q, q.name)'
        /\ TakesDown(q, q.name) => TakesDown(q, q.name)'
    BY <2>2, KnowsStill
  <2>5. BringsUp(q, Target(q)) => BringsUp(q, Target(q))'
    BY <2>2, KnowsStill
  <2> QED BY <1>4, <2>3, <2>4, <2>5 DEF SoundCall, Outside
<1> QED BY <1>2, <1>3, <1>4

(***************************************************************************)
(* A step of a call leaves what its next step relies on.                   *)
(***************************************************************************)
\* What is known of a name with a config, when its process is compared with it.
LEMMA LoadsParts ==
    ASSUME TypeOK, NEW n \in Names, disk[n] # None
    PROVE  /\ Loads(n) <=> (proc[n] # None => proc[n].live = disk[n].live
                                               /\ proc[n].fixed = disk[n].fixed)
           /\ disk[n] = [live |-> disk[n].live, fixed |-> disk[n].fixed]
           /\ disk[n] \in Text
BY DEF TypeOK, Optional, Text, TextOf, Loads

LEMMA SaveContinues ==
    ASSUME NEW r \in Requests, SoundCall(r), StoreStep(r) \/ UnitStep(r),
           NEW q, Known(r, q), q.op \in Saves, NEW p, p.pc # q.pc, p.op = q.op,
           Advance(r) => p.pc = Then(q.op, q.pc),
           ~Advance(r) => /\ RecordReplaced(r)
                          /\ p.pc = IF started[q.name] = None /\ q.name \notin pending
                                    THEN "base2" ELSE "write"
    PROVE  SaveKnows(p, q.name)'
<1> PICK n \in Names : n = q.name
  BY DEF Known
<1> USE DEF Known
<1>1. /\ SaveKnows(q, n) /\ disk[n] # None /\ Target(q) = n /\ q.text \in Text
      /\ q.pc \in {"base", "base2", "write"} => disk[n] = q.prev
      /\ q.pc \notin {"base", "base2", "write"} => disk[n] = q.text
      /\ q.op \in RestartOps => RestartKnows(q, n)
  BY DEF SoundCall, FileInv, Target, Saves, StepsOf
<1>2. /\ Loads(n) <=> (proc[n] # None => proc[n].live = disk[n].live
                                               /\ proc[n].fixed = disk[n].fixed)
      /\ disk[n] = [live |-> disk[n].live, fixed |-> disk[n].fixed]
  BY <1>1, LoadsParts
<1> USE <1>1, <1>2 DEF StepsOf, At, Then, AfterMark, AfterClear, Saves, AllOps, SaveKnows,
                       Settled, Kept, Panelled, Based, AppliedOf, TypeOK, RestartOps
<1>3. CASE RecordReplaced(r)
  BY <1>3 DEF RecordReplaced, host, Loads
<1>4. CASE RecordReplacedApplied(r)
  BY <1>4 DEF RecordReplacedApplied, host, Loads
<1>5. CASE Write(r)
  BY <1>5 DEF Write, host
<1>6. CASE Mark(r)
  BY <1>6 DEF Mark, host
<1>7. CASE Clear(r)
  BY <1>7 DEF Clear, host, Loads
<1>8. CASE Record(r) \/ RecordApplied(r)
  BY <1>8 DEF Record, RecordApplied
<1>9. CASE SetApplied(r)
  BY <1>9 DEF SetApplied, host
<1>10. CASE Forget(r) \/ SetOptions(r) \/ RemoveConf(r) \/ Install(r) \/ Start(r) \/ Stop(r)
            \/ Teardown(r)
  BY <1>10 DEF Forget, SetOptions, RemoveConf, Install, Start, Stop, Teardown
<1>11. CASE Restart(r)
  BY <1>11 DEF Restart, stores, Loads
<1>12. CASE ReloadComplete(r)
  <2>1. /\ proc[n] # None /\ Based(n) /\ proc' = [proc EXCEPT ![n].live = disk[n].live]
        /\ UNCHANGED <<disk, started, applied>> /\ q.op = "live" /\ p.pc = "clear"
    BY <1>12 DEF ReloadComplete, TakesLive, Reachable, stores
  <2>2. started[n].fixed = disk[n].fixed
    BY <1>12, <2>1 DEF ReloadComplete, RestartOnly, Baseline
  <2>3. /\ proc'[n].live = disk[n].live /\ proc'[n].fixed = proc[n].fixed
        /\ proc[n].fixed = started[n].fixed
    BY <2>1, ConstantsAssumption DEF Process
  <2>4. Based(n)' /\ Loads(n)'
    BY <2>1, <2>2, <2>3 DEF Loads, TextOf
  <2> QED BY <2>1, <2>2, <2>4
<1>13. CASE ReloadPartial(r) \/ ReloadNothing(r)
  BY <1>13 DEF ReloadPartial, ReloadNothing, RecordReplaced, Advance, Goto, Leave, Idle, RequestState
<1> QED BY <1>3, <1>4, <1>5, <1>6, <1>7, <1>8, <1>9, <1>10, <1>11, <1>12, <1>13
        DEF StoreStep, UnitStep

LEMMA RestartContinues ==
    ASSUME NEW r \in Requests, SoundCall(r), StoreStep(r) \/ UnitStep(r),
           NEW q, Known(r, q), q.op \in RestartOps, NEW p, p.op = q.op,
           Advance(r) => p.pc = Then(q.op, q.pc),
           ~Advance(r) => RecordReplaced(r) /\ p.pc \in {"base2", "write"}
    PROVE  RestartKnows(p, q.name)'
<1> PICK n \in Names : n = q.name
  BY DEF Known
<1> USE DEF Known
<1>1. RestartKnows(q, n) /\ Target(q) = n
  BY DEF SoundCall, Target, RestartOps
<1>2. /\ q.pc \notin {"base", "base2", "write"} => disk[n] # None
      /\ q.op = "saveRestart" /\ q.pc \in {"restart", "clear", "record", "record2"} =>
           disk[n] = q.text
  BY DEF FileInv, StepsOf, RestartOps, Saves
<1> USE <1>1, <1>2 DEF StepsOf, At, Then, AfterMark, AfterClear, Saves, AllOps, RestartKnows,
                       TypeOK, RestartOps
<1>3. CASE Clear(r)
  BY <1>3 DEF Clear, host, Loads
<1>4. CASE Record(r)
  BY <1>4 DEF Record, host, Loads
<1>5. CASE RecordApplied(r)
  BY <1>5 DEF RecordApplied
<1>6. CASE Restart(r)
  BY <1>6, LoadedText DEF Restart, stores, Loads
<1>7. CASE RecordReplaced(r) \/ RecordReplacedApplied(r) \/ Write(r) \/ Mark(r) \/ SetOptions(r)
           \/ Install(r)
  BY <1>7 DEF RecordReplaced, RecordReplacedApplied, Write, Mark, SetOptions, Install
<1>8. CASE SetApplied(r) \/ Forget(r) \/ RemoveConf(r) \/ Start(r) \/ Stop(r) \/ Teardown(r)
           \/ ReloadComplete(r) \/ ReloadPartial(r) \/ ReloadNothing(r)
  BY <1>8 DEF SetApplied, Forget, RemoveConf, Start, Stop, Teardown, ReloadComplete,
              ReloadPartial, ReloadNothing
<1> QED BY <1>3, <1>4, <1>5, <1>6, <1>7, <1>8 DEF StoreStep, UnitStep

LEMMA OptionsContinues ==
    ASSUME NEW r \in Requests, SoundCall(r), StoreStep(r) \/ UnitStep(r),
           NEW q, Known(r, q), q.op = "options", NEW p,
           Advance(r), p.pc = Then(q.op, q.pc)
    PROVE  OptionsKnow(p, q.name)'
<1> PICK n \in Names : n = q.name
  BY DEF Known
<1> USE DEF Known
<1>1. OptionsKnow(q, n) /\ Target(q) = n /\ q.opts # None
  BY ConstantsAssumption DEF SoundCall, Target, RequestState
<1> USE <1>1 DEF StepsOf, At, Then, AfterMark, AfterClear, Saves, AllOps, OptionsKnow, TypeOK
<1>2. CASE SetOptions(r)
  <2>1. Still(n)
    BY <1>2 DEF SetOptions, host, Still
  <2> QED BY <1>2, <2>1, SettledStill DEF SetOptions
<1>3. CASE Install(r)
  <2>1. UNCHANGED <<stores, proc>> /\ unit'[n] = q.opts /\ q.pc = "install"
    BY <1>3 DEF Install
  <2>2. Settled(n) => Settled(n)'
    BY <2>1 DEF Settled, Kept, Panelled, Based, AppliedOf, Loads, stores
  <2> QED BY <2>1, <2>2
<1>4. CASE Mark(r)
  BY <1>4 DEF Mark, host, Settled, Kept, Panelled, Based, AppliedOf
<1>5. CASE Restart(r) \/ Clear(r) \/ Record(r) \/ RecordApplied(r)
  BY <1>5 DEF Restart, Clear, Record, RecordApplied
<1>6. CASE RecordReplaced(r) \/ RecordReplacedApplied(r) \/ Write(r) \/ SetApplied(r)
           \/ Forget(r) \/ RemoveConf(r) \/ Start(r) \/ Stop(r) \/ Teardown(r)
           \/ ReloadComplete(r) \/ ReloadPartial(r) \/ ReloadNothing(r)
  BY <1>6 DEF RecordReplaced, RecordReplacedApplied, Write, SetApplied, Forget, RemoveConf,
              Start, Stop, Teardown, ReloadComplete, ReloadPartial, ReloadNothing
<1> QED BY <1>2, <1>3, <1>4, <1>5, <1>6 DEF StoreStep, UnitStep

LEMMA BringsUpContinues ==
    ASSUME NEW r \in Requests, SoundCall(r), StoreStep(r) \/ UnitStep(r),
           NEW q, Known(r, q), q.op \in {"create", "rename"}, NEW p,
           Advance(r), p.pc = Then(q.op, q.pc)
    PROVE  BringsUp(p, Target(q))'
<1> PICK n \in Names : n = Target(q)
  BY DEF Known, Target
<1> USE DEF Known
<1>1. BringsUp(q, n) /\ (q.op = "rename" => n # q.name) /\ (q.op = "create" => n = q.name)
  BY DEF SoundCall, Target
<1>2. q.pc \notin {"stop", "write"} => disk[n] = q.text \/ q.pc = "undo"
  BY DEF FileInv, StepsOf
<1> USE <1>1, <1>2 DEF StepsOf, At, Then, AfterMark, AfterClear, Saves, AllOps, BringsUp, TypeOK
<1>3. CASE RecordReplaced(r) \/ RecordReplacedApplied(r) \/ Mark(r) \/ SetApplied(r)
           \/ Restart(r) \/ ReloadComplete(r) \/ ReloadPartial(r) \/ ReloadNothing(r)
  BY <1>3 DEF RecordReplaced, RecordReplacedApplied, Mark, SetApplied, Restart,
              ReloadComplete, ReloadPartial, ReloadNothing
<1>4. CASE Write(r)
  BY <1>4 DEF Write, host
<1>5. CASE Clear(r) \/ SetOptions(r) \/ Forget(r)
  BY <1>5 DEF Clear, SetOptions, Forget, host, Loads
<1>6. CASE Record(r) \/ RecordApplied(r)
  BY <1>6 DEF Record, RecordApplied, host, Loads
<1>7. CASE RemoveConf(r)
  BY <1>7 DEF RemoveConf, host, Loads
<1>8. CASE Install(r) \/ Teardown(r)
  BY <1>8 DEF Install, Teardown, stores, Loads
<1>9. CASE Start(r)
  BY <1>9, LoadedText DEF Start, stores, Loads
<1>10. CASE Stop(r)
  BY <1>10 DEF Stop, stores
<1> QED BY <1>3, <1>4, <1>5, <1>6, <1>7, <1>8, <1>9, <1>10 DEF StoreStep, UnitStep

LEMMA TakesDownContinues ==
    ASSUME NEW r \in Requests, SoundCall(r), StoreStep(r) \/ UnitStep(r),
           NEW q, Known(r, q), q.op \in {"rename", "delete"}, NEW p,
           Advance(r), p.pc = Then(q.op, q.pc)
    PROVE  TakesDown(p, q.name)'
<1> PICK n \in Names : n = q.name
  BY DEF Known
<1> USE DEF Known
<1>1. TakesDown(q, n) /\ (q.op = "rename" => Target(q) # n) /\ p.pc # "stop"
  BY DEF SoundCall, Target, Then, AfterClear, StepsOf, Saves
<1> USE <1>1 DEF StepsOf, At, Then, AfterMark, AfterClear, Saves, AllOps, TakesDown, TypeOK
<1>2. CASE Stop(r)
  BY <1>2 DEF Stop, stores
<1>3. CASE Start(r)
  BY <1>3 DEF Start, stores
<1>4. CASE RecordReplaced(r) \/ RecordReplacedApplied(r) \/ Mark(r) \/ SetApplied(r)
           \/ Restart(r) \/ ReloadComplete(r) \/ ReloadPartial(r) \/ ReloadNothing(r)
  BY <1>4 DEF RecordReplaced, RecordReplacedApplied, Mark, SetApplied, Restart,
              ReloadComplete, ReloadPartial, ReloadNothing
<1>5. CASE ~Stop(r) /\ proc' = proc
  BY <1>5 DEF StoreStep, RecordReplaced, RecordReplacedApplied, Write, Mark, Clear, Record,
         RecordApplied, SetApplied, Forget, SetOptions, RemoveConf, UnitStep, Install, Start,
         Restart, Teardown, ReloadComplete, ReloadPartial, ReloadNothing
<1> QED BY <1>2, <1>3, <1>4, <1>5
     DEF StoreStep, Write, Clear, Record, RecordApplied, Forget, SetOptions, RemoveConf, UnitStep,
         Install, Teardown, host

LEMMA SoundContinues ==
    ASSUME NEW r \in Requests, SoundCall(r), StoreStep(r) \/ UnitStep(r),
           NEW q, Known(r, q), NEW pc, Continues(r, pc),
           Advance(r) => pc = Then(q.op, q.pc),
           ~Advance(r) => /\ RecordReplaced(r)
                          /\ pc = IF started[q.name] = None /\ q.name \notin pending
                                  THEN "base2" ELSE "write"
    PROVE  SoundCall(r)'
<1> PICK p : p = req'[r]
  OBVIOUS
<1>1. /\ p.pc = pc /\ p.name = q.name /\ p.to = q.to /\ p.op = q.op /\ Target(p) = Target(q)
  BY DEF Known, Continues, Onward, Target
<1>2. pc \notin {"lock2", "check", "idle", "undo"} /\ pc # q.pc
  BY DEF Known, Then, AfterCheck, AfterMark, AfterClear, StepsOf, Inside, AllOps, Saves,
         RecordReplaced, At
<1>3. q.op \in Ops
  BY DEF Known, SoundCall, Inside, Outside
<1>4. q.op \in Saves => SaveKnows(p, q.name)'
  BY <1>1, <1>2, SaveContinues
<1>5. q.op \in RestartOps => RestartKnows(p, q.name)'
  BY <1>1, RestartContinues
<1>6. q.op \in {"options", "create", "rename", "delete"} => Advance(r)
  BY DEF Known, RecordReplaced, At, StepsOf, Saves
<1>7. q.op = "options" => OptionsKnow(p, q.name)'
  BY <1>1, <1>6, OptionsContinues
<1>8. q.op \in {"create", "rename"} => BringsUp(p, Target(q))'
  BY <1>1, <1>6, BringsUpContinues
<1>9. q.op \in {"rename", "delete"} => TakesDown(p, q.name)'
  BY <1>1, <1>6, TakesDownContinues
<1> QED BY <1>1, <1>2, <1>3, <1>4, <1>5, <1>7, <1>8, <1>9 DEF SoundCall

(***************************************************************************)
(* A call that ends leaves its names settled.                              *)
(***************************************************************************)
LEMMA SaveLeaves ==
    ASSUME NEW r \in Requests, SoundCall(r), StoreStep(r) \/ UnitStep(r),
           NEW q, Known(r, q), q.op \in Saves,
           Advance(r) => Then(q.op, q.pc) = "done", ~RecordReplaced(r)
    PROVE  Settled(q.name)'
<1> PICK n \in Names : n = q.name
  BY DEF Known
<1> USE DEF Known
<1>1. /\ SaveKnows(q, n) /\ disk[n] # None /\ Target(q) = n
      /\ q.pc \notin {"base", "base2", "write"} => disk[n] = q.text
      /\ q.op \in RestartOps => RestartKnows(q, n)
  BY DEF SoundCall, FileInv, Target, Saves, StepsOf
<1> USE <1>1 DEF Settled, Kept, Panelled, Based, AppliedOf, TypeOK
<1>2. CASE Mark(r)
  BY <1>2 DEF Mark, At, host, SaveKnows
<1>3. CASE SetApplied(r)
  BY <1>3 DEF SetApplied, At, host, SaveKnows, StepsOf, Saves, Loads
<1>4. CASE RecordApplied(r)
  BY <1>4 DEF RecordApplied, At, host, RestartKnows, StepsOf, Saves, RestartOps, Loads,
              TextOf
<1>5. CASE ReloadPartial(r) \/ ReloadNothing(r)
  <2>1. /\ UNCHANGED stores /\ q.pc = "reload"
        /\ proc' = proc \/ (proc[n] # None /\ proc' = [proc EXCEPT ![n].live = disk[n].live])
    BY <1>5 DEF ReloadPartial, ReloadNothing, At, host, TakesLive, Reachable
  <2>2. proc'[n] # None => proc[n] # None /\ proc'[n].fixed = proc[n].fixed
    BY <2>1, ConstantsAssumption DEF Process, Optional
  <2>3. proc[n] # None => Based(n) /\ n \in pending
    BY <2>1 DEF SaveKnows
  <2>4. disk' = disk /\ pending' = pending /\ started' = started /\ applied' = applied
    BY <2>1 DEF stores
  <2>5. CASE proc'[n] # None
    <3>1. Kept(n)' /\ n \in pending'
      BY <2>2, <2>3, <2>4, <2>5
    <3> QED BY <2>2, <2>3, <2>4, <2>5, <3>1
  <2> QED BY <2>5
<1> QED BY <1>2, <1>3, <1>4, <1>5
     DEF StoreStep, RecordReplacedApplied, Write, Clear, Record, Forget, SetOptions,
         RemoveConf, UnitStep, Install, Start, Stop, Restart, Teardown, ReloadComplete, At,
         Then, AfterMark, AfterClear, StepsOf, Saves, AllOps

LEMMA SoundLeaves ==
    ASSUME NEW r \in Requests, SoundCall(r), StoreStep(r) \/ UnitStep(r),
           NEW q, Known(r, q), Leave(r), Advance(r) => Then(q.op, q.pc) = "done",
           ~RecordReplaced(r), NEW n \in {q.name, q.to}
    PROVE  Settled(n)'
<1> USE DEF Known
<1>1. CASE q.op \in Saves
  BY <1>1, SaveLeaves DEF Saves
<1>2. CASE q.op \notin Saves
  <2>1. Advance(r) /\ (RecordApplied(r) \/ Forget(r))
    BY <1>2 DEF StoreStep, RecordReplaced, RecordReplacedApplied, Write, Mark, Clear, Record,
         RecordApplied, SetApplied, Forget, SetOptions, RemoveConf, UnitStep, Install, Start,
         Stop, Restart, Teardown, ReloadComplete, ReloadPartial, ReloadNothing, At, Then,
         StepsOf, AllOps, Saves, AfterMark, AfterClear
  <2>2. CASE RecordApplied(r)
    <3>1. q.pc = "record2" /\ UNCHANGED <<disk, pending, started, proc>>
      BY <2>2 DEF RecordApplied, At, host
    <3>2. CASE n = Target(q)
      <4>1. Loads(n) /\ started[n] = disk[n] /\ disk[n] # None
        BY <1>2, <3>1, <3>2
           DEF SoundCall, RestartKnows, BringsUp, FileInv, Target, RestartOps, StepsOf, Saves,
               AllOps
      <4>2. applied'[n] = started[n] /\ n \in Names
        BY <2>2, <3>2 DEF RecordApplied, TypeOK, Target
      <4> QED BY <3>1, <4>1, <4>2 DEF Settled, Kept, Panelled, Based, AppliedOf, Loads, TextOf
    <3>3. CASE n # Target(q)
      <4>1. q.op = "rename" /\ n = q.name
        BY <3>3 DEF Target
      <4> QED BY <3>1, <4>1 DEF SoundCall, TakesDown, Settled
    <3> QED BY <3>2, <3>3
  <2>3. CASE Forget(r)
    <3>1. q.pc = "forget" /\ q.op = "delete" /\ n = q.name /\ proc' = proc
      BY <1>2, <2>1, <2>3 DEF Forget, At, host, Then, StepsOf, AllOps, Saves
    <3> QED BY <3>1 DEF SoundCall, TakesDown, Settled
  <2> QED BY <2>1, <2>2, <2>3
<1> QED BY <1>1, <1>2

\* What a failing step changes of what Settled looks at.
LEMMA Failed ==
    ASSUME NEW r \in Requests, Fail(r), NEW q, Known(r, q)
    PROVE  /\ UNCHANGED <<disk, started, applied>> /\ MayFail(q)
           /\ proc' = proc \/ (q.pc = "restart" /\ proc' = [proc EXCEPT ![q.name] = None])
           /\ q.pc = "mark" => pending' = pending \cup {q.name}
           /\ q.pc \notin {"mark", "clear"} => pending' = pending
           /\ IF RollsBack(q) THEN Goto(r, "undo") ELSE Leave(r)
BY DEF Known, Fail, Halfway, host

LEMMA SoundFails ==
    ASSUME RecordsComplete, NEW r \in Requests, SoundCall(r), Fail(r), NEW q, Known(r, q)
    PROVE  /\ Leave(r) => \A n \in {q.name, q.to} : Settled(n)'
           /\ ~Leave(r) => SoundCall(r)'
<1> USE DEF Known
<1>1. /\ UNCHANGED <<disk, started, applied>> /\ MayFail(q)
      /\ proc' = proc \/ (q.pc = "restart" /\ proc' = [proc EXCEPT ![q.name] = None])
      /\ q.pc = "mark" => pending' = pending \cup {q.name}
      /\ q.pc \notin {"mark", "clear"} => pending' = pending
      /\ IF RollsBack(q) THEN Goto(r, "undo") ELSE Leave(r)
  BY Failed
<1>2. /\ q.pc \notin {"clear", "applied", "record", "record2"} /\ q.op \in Ops
      /\ q.op = "rename" => q.pc = "stop"
      /\ q.op = "options" /\ q.pc = "mark" => Adopted = {}
      /\ q.op = "options" /\ q.pc = "restart" => Adopted = {} \/ unit[q.name] = None
  <2>1. q.op \in Ops /\ q.op \in AllOps
    BY DEF SoundCall, Inside, Outside
  <2>2. q.pc \in Steps /\ q.pc # "forget"
    BY <1>1, ConstantsAssumption DEF MayFail, Steps
  <2> QED BY <1>1, <2>1, <2>2
       DEF MayFail, RecordsComplete, SoundCall, FileInv, StepsOf, Steps
<1>3. CASE q.op \in Saves
  <2>1. ~RollsBack(q) /\ q.to = q.name
    BY <1>3 DEF RollsBack, Saves
  <2>2. q.pc \in {"base", "base2", "write", "mark", "reload", "restart"} /\ SaveKnows(q, q.name)
    BY <1>2, <1>3 DEF SoundCall, StepsOf, Saves
  <2>3. disk[q.name] # None
    BY <1>3, <2>2 DEF FileInv, Saves, StepsOf
  <2>4. q.pc = "restart" => q.op = "saveRestart"
    BY <1>3 DEF StepsOf, Saves
  <2>5. ASSUME proc'[q.name] # None PROVE proc[q.name] # None /\ proc'[q.name] = proc[q.name]
    BY <1>1, <2>5 DEF TypeOK
  <2>6. Settled(q.name)'
    <3> SUFFICES ASSUME proc'[q.name] # None PROVE Settled(q.name)'
      BY DEF Settled
    <3>1. CASE q.pc \in {"base", "write"}
      BY <1>1, <2>2, <2>5, <3>1 DEF SaveKnows, Settled, Kept, Panelled, Based, AppliedOf, Loads
    <3>2. CASE q.pc = "base2"
      BY <1>1, <2>2, <2>3, <2>5, <3>2, ConstantsAssumption
         DEF SaveKnows, Settled, Kept, Panelled, Based, AppliedOf, Loads, TextOf
    <3>3. CASE q.pc \in {"mark", "reload", "restart"}
      BY <1>1, <2>2, <2>3, <2>4, <2>5, <3>3
         DEF SaveKnows, Settled, Kept, Panelled, Based, AppliedOf
    <3> QED BY <2>2, <3>1, <3>2, <3>3
  <2> QED BY <1>1, <2>1, <2>6
<1>4. CASE q.op \in {"restart", "restartAll", "options"}
  <2>1. ~RollsBack(q) /\ q.to = q.name
    BY <1>4 DEF RollsBack
  <2>2. disk[q.name] # None
    BY <1>2, <1>4 DEF FileInv, Saves, StepsOf
  <2>3. ASSUME proc'[q.name] # None PROVE proc[q.name] # None /\ proc'[q.name] = proc[q.name]
    BY <1>1, <2>3 DEF TypeOK
  <2>4. Settled(q.name)'
    <3> SUFFICES ASSUME proc'[q.name] # None PROVE Settled(q.name)'
      BY DEF Settled
    <3>1. CASE q.op \in {"restart", "restartAll"} \/ q.pc \in {"opts", "install"}
      <4>1. Settled(q.name) /\ pending' = pending
        BY <1>1, <1>2, <1>4, <3>1
           DEF SoundCall, RestartKnows, OptionsKnow, StepsOf, RestartOps, Saves
      <4> QED BY <1>1, <2>3, <4>1 DEF Settled, Kept, Panelled, Based, AppliedOf, Loads
    <3>2. CASE q.op = "options" /\ q.pc = "mark"
      <4>1. Settled(q.name) /\ Adopted = {} /\ q.name \in pending'
        BY <1>1, <1>2, <3>2 DEF SoundCall, OptionsKnow
      <4> QED BY <1>1, <2>2, <2>3, <4>1 DEF Settled, Kept, Panelled, Based, AppliedOf
    <3>3. CASE q.op = "options" /\ q.pc = "restart"
      <4>1. /\ Kept(q.name) /\ Panelled(q.name) /\ Adopted = {} /\ q.name \in pending'
        BY <1>1, <1>2, <2>3, <3>3 DEF SoundCall, OptionsKnow
      <4> QED BY <1>1, <2>2, <2>3, <4>1 DEF Settled, Kept, Panelled, Based, AppliedOf
    <3> QED BY <1>2, <1>4, <3>1, <3>2, <3>3 DEF StepsOf, Saves
  <2> QED BY <1>1, <2>1, <2>4
<1>5. CASE q.op = "create"
  <2>1. q.pc \in {"write", "install", "start"} /\ proc[q.name] = None /\ q.to = q.name
    BY <1>1, <1>2, <1>5, ConstantsAssumption
       DEF StepsOf, SoundCall, BringsUp, Target, MayFail, Steps, Saves
  <2>2. proc'[q.name] = None
    BY <1>1, <2>1
  <2>3. Settled(q.name)'
    BY <2>2 DEF Settled
  <2>4. ASSUME Goto(r, "undo") PROVE SoundCall(r)'
    <3>1. /\ req'[r].pc = "undo" /\ req'[r].op = "create" /\ req'[r].name = q.name
      BY <1>5, <2>4 DEF Goto, TypeOK, RequestState
    <3> QED BY <1>2, <1>5, <2>2, <3>1
         DEF SoundCall, BringsUp, Target, Saves, RestartOps
  <2> QED BY <1>1, <2>1, <2>3, <2>4
<1>6. CASE q.op = "delete"
  <2>1. ~RollsBack(q) /\ q.to = q.name /\ proc' = proc /\ TakesDown(q, q.name)
    BY <1>1, <1>6 DEF RollsBack, StepsOf, SoundCall, Saves
  <2>2. CASE q.pc = "stop"
    BY <1>1, <2>1, <2>2
       DEF TakesDown, Settled, Kept, Panelled, Based, AppliedOf, Loads
  <2>3. CASE q.pc # "stop"
    BY <1>1, <2>1, <2>3 DEF TakesDown, Settled
  <2> QED BY <1>1, <2>1, <2>2, <2>3
<1>7. CASE q.op = "rename"
  <2>1. q.pc = "stop" /\ ~RollsBack(q) /\ proc' = proc /\ pending' = pending
    BY <1>1, <1>2, <1>7 DEF RollsBack
  <2>2. Settled(q.name) /\ proc[q.to] = None
    BY <1>7, <2>1 DEF SoundCall, TakesDown, BringsUp, Target
  <2>3. Settled(q.name)'
    BY <1>1, <2>1, <2>2 DEF Settled, Kept, Panelled, Based, AppliedOf, Loads
  <2>4. Settled(q.to)'
    BY <2>1, <2>2 DEF Settled
  <2> QED BY <1>1, <2>1, <2>3, <2>4
<1> QED BY <1>3, <1>4, <1>5, <1>6, <1>7 DEF AllOps

LEMMA SoundUndone ==
    ASSUME NEW r \in Requests, SoundCall(r), Undo(r), NEW q, Known(r, q),
           NEW n \in {q.name, q.to}
    PROVE  Settled(n)'
<1>1. q.op = "create" /\ q.pc = "undo" /\ n = q.name
  BY DEF Known, Undo, At, StepsOf, AllOps, Saves, SoundCall
<1>2. proc[n] = None /\ proc' = proc
  BY <1>1 DEF Known, Undo, SoundCall, BringsUp, Target
<1> QED BY <1>2 DEF Settled

LEMMA SoundChecks ==
    ASSUME CallsInv, NEW r \in Requests, SoundCall(r), Check(r)
    PROVE  SoundCall(r)'
<1> PICK q : q = req[r]
  OBVIOUS
<1>1. /\ q.op \in AllOps /\ q.name \in Names /\ q.to \in Names
      /\ (q.op # "rename" => q.to = q.name) /\ TypeOK
  BY Fields DEF CallsInv, CallInv, ShapeInv
<1>2. /\ q.pc = "check" /\ Admissible(q) /\ UNCHANGED <<stores, host>>
      /\ req'[r].pc = AfterCheck(q.op) /\ req'[r].op = q.op /\ req'[r].name = q.name
      /\ req'[r].to = q.to
  BY CheckContinues
<1>3. Settled(q.name) /\ Settled(q.to) /\ q.op \in Ops
  BY <1>2 DEF SoundCall
<1>4. Settled(q.name)' /\ Settled(q.to)'
  BY <1>2, <1>3 DEF Settled, Kept, Panelled, Based, AppliedOf, Loads, stores, host
<1>5. /\ q.op = "create" => proc'[q.name] = None
      /\ q.op = "rename" => proc'[q.to] = None
  BY <1>2, <1>3 DEF Settled, Admissible, host
<1> QED BY <1>1, <1>2, <1>3, <1>4, <1>5
     DEF SoundCall, SaveKnows, RestartKnows, OptionsKnow, BringsUp, TakesDown, AfterCheck,
         AllOps, Saves, RestartOps, Target, Inside, Outside

\* Every call is one of the operations clients call.
LEMMA ArriveOps ==
    ASSUME CallsInv, NEW r \in Requests, SoundCall(r), Arrive(r)
    PROVE  req'[r].pc # "idle" => req'[r].op \in Ops
<1>1. req \in [Requests -> RequestState] /\ req[r] \in RequestState
  BY DEF CallsInv, TypeOK
<1>2. CASE Submit(r)
  <2>1. PICK op \in Ops, n \in Names :
          \E m \in (IF op = "rename" THEN Names ELSE {n}),
             t \in (IF op \in Saves \cup {"create"} THEN Text ELSE {None}),
             v \in (IF op \in Saves THEN IfMatches ELSE {None}),
             o \in (IF op = "options" THEN Opts ELSE {DefaultOpts}) :
               req' = [req EXCEPT ![r] = NewCall(op, n, m, t, v, o)]
    BY <1>2 DEF Submit
  <2>2. req'[r].op = op
    BY <1>1, <2>1 DEF NewCall, Idle
  <2> QED BY <2>2
<1>3. CASE List(r)
  BY <1>1, <1>3 DEF List, At, Idle, RequestState, SoundCall
<1>4. CASE Pick(r)
  BY <1>1, <1>4 DEF Pick, At, RequestState, SoundCall
<1>5. CASE Lock(r) \/ LockSecond(r)
  BY <1>1, <1>5 DEF Lock, LockSecond, At, Acquire, RequestState, SoundCall
<1> QED BY <1>2, <1>3, <1>4, <1>5 DEF Arrive

LEMMA SoundArrives ==
    ASSUME CallsInv, NEW r \in Requests, SoundCall(r), Arrive(r),
           \A n \in Names : lock[n] = None => Settled(n)
    PROVE  SoundCall(r)'
<1>1. req \in [Requests -> RequestState] /\ req[r] \in RequestState
  BY DEF CallsInv, TypeOK
<1>2. UNCHANGED <<stores, host>>
  BY DEF Arrive, Submit, List, Pick, Lock, LockSecond, Acquire, stores, host
<1>3. ASSUME NEW n \in Names, Settled(n) PROVE Settled(n)'
  BY <1>2, <1>3, SettledStill DEF Still, stores, host
<1>4. req'[r].pc # "idle" => req'[r].op \in Ops
  BY ArriveOps
<1> USE DEF SoundCall, SaveKnows, RestartKnows, OptionsKnow, BringsUp, TakesDown, Inside, Outside
<1>5. CASE req'[r].pc \in Outside
  BY <1>4, <1>5
<1>6. CASE Lock(r)
  <2>1. PICK n \in Names : n = FirstKey(req[r]) /\ Settled(n)
    BY <1>6, Fields DEF Lock, Acquire, CallsInv
  <2>2. /\ req'[r].name = req[r].name /\ req'[r].to = req[r].to
        /\ req'[r].pc = IF req[r].name = req[r].to THEN "check" ELSE "lock2"
    BY <1>1, <1>6 DEF Lock, Acquire, RequestState
  <2>3. Settled(n)' /\ FirstKey(req'[r]) = n
    BY <1>3, <2>1, <2>2 DEF FirstKey, Sorted
  <2>4. req[r].name = req[r].to => n = req'[r].name /\ n = req'[r].to
    BY <2>1, <2>2 DEF FirstKey, Sorted
  <2> QED BY <1>4, <2>2, <2>3, <2>4
<1>7. CASE LockSecond(r)
  <2>1. Settled(FirstKey(req[r])) /\ Settled(SecondKey(req[r]))
    BY <1>7, Fields DEF LockSecond, At, Acquire, CallsInv
  <2>2. PICK n \in Names, m \in Names : n = req[r].name /\ m = req[r].to
    BY Fields DEF CallsInv
  <2>3. Settled(n)' /\ Settled(m)'
    BY <1>3, <2>1, <2>2 DEF FirstKey, SecondKey
  <2>4. /\ req'[r].name = n /\ req'[r].to = m /\ req'[r].pc = "check"
    BY <1>1, <1>7, <2>2 DEF LockSecond, Acquire, RequestState
  <2> QED BY <1>4, <2>3, <2>4
<1> QED BY <1>5, <1>6, <1>7, ArriveOutside

\* An instance that ran before the panel was installed runs its file, unrecorded.
LEMMA SoundInit == Init => SoundInv
<1> SUFFICES ASSUME Init PROVE SoundInv
  OBVIOUS
<1>1. ASSUME NEW n \in Names PROVE Settled(n)
  <2>1. CASE n \in Adopted
    BY <2>1, RenamesInit, LoadedText
       DEF Init, RenamesInv, CallsInv, Settled, Kept, Panelled, Loads
  <2>2. CASE n \notin Adopted
    BY <2>2 DEF Init, Settled
  <2> QED BY <2>1, <2>2
<1>2. ASSUME NEW r \in Requests PROVE SoundCall(r)
  BY DEF Init, Idle, SoundCall, SaveKnows, RestartKnows, OptionsKnow, BringsUp, TakesDown,
         Inside, Outside, Saves, RestartOps
<1> QED BY <1>1, <1>2, RenamesInit DEF SoundInv

\* The call that takes the step, and the names it lets go.
LEMMA OwnSound ==
    ASSUME RecordsComplete, SoundInv, NEW r \in Requests,
           Arrive(r) \/ Proceed(r) \/ GiveUp(r)
    PROVE  /\ SoundCall(r)'
           /\ \A n \in Names : lock[n] # None /\ lock'[n] = None => Settled(n)'
<1>1. CallsInv /\ SoundCall(r) /\ RenameInv(r) /\ \A n \in Names : lock[n] = None => Settled(n)
  BY DEF SoundInv, RenamesInv
<1> PICK q : q = req[r]
  OBVIOUS
<1>2. \A n \in Names : lock[n] # None /\ lock'[n] = None =>
        /\ Leave(r) /\ n \in {q.name, q.to}
        /\ Reject(r) \/ StoreStep(r) \/ UnitStep(r) \/ GiveUp(r)
  BY <1>1, Freed
<1>3. ASSUME Leave(r), Reject(r) \/ StoreStep(r) \/ UnitStep(r) \/ GiveUp(r)
      PROVE  SoundCall(r)'
  <2>1. req'[r].pc \in Outside
    BY <1>1, <1>3, LeaveOutside
  <2>2. req'[r].pc # "idle" => req'[r].op \in Ops
    <3>1. q.pc # "idle"
      BY <1>1, <1>3, StepInside DEF Reject, At, Inside, Outside
    <3> QED BY <1>1, <1>3, <3>1 DEF Leave, Idle, SoundCall, CallsInv, TypeOK, RequestState
  <2> QED BY <2>1, <2>2
       DEF SoundCall, SaveKnows, RestartKnows, OptionsKnow, BringsUp, TakesDown, Inside, Outside
<1>4. CASE Arrive(r)
  <2>1. ~(Reject(r) \/ StoreStep(r) \/ UnitStep(r) \/ GiveUp(r))
    <3>1. req[r].pc \in Outside \cup {"lock2"}
      BY <1>4 DEF Arrive, Submit, List, Pick, Lock, LockSecond, At, Outside
    <3> QED BY <1>1, <3>1, StepInside DEF Reject, At, Inside, Outside
  <2> QED BY <1>1, <1>2, <1>4, <2>1, SoundArrives
<1>5. CASE Check(r)
  <2>1. lock' = lock
    BY <1>5 DEF Check
  <2> QED BY <1>1, <1>5, <2>1, SoundChecks
<1>6. CASE Reject(r)
  <2>1. Leave(r) /\ UNCHANGED <<stores, host>> /\ Settled(q.name) /\ Settled(q.to)
    BY <1>1, <1>6 DEF Reject, At, SoundCall
  <2>2. \A n \in {q.name, q.to} : Settled(n)'
    BY <2>1 DEF Settled, Kept, Panelled, Based, AppliedOf, Loads, stores, host
  <2> QED BY <1>2, <1>3, <1>6, <2>1, <2>2
<1>7. CASE StoreStep(r) \/ UnitStep(r)
  <2>1. Known(r, q)
    BY <1>1, <1>7, KnownCall
  <2>2. CASE Leave(r) /\ (Advance(r) => Then(q.op, q.pc) = "done")
    <3>1. ~RecordReplaced(r)
      BY <1>1, <2>2 DEF RecordReplaced, Goto, Leave, Idle, CallsInv, TypeOK, RequestState
    <3>2. \A n \in {q.name, q.to} : Settled(n)'
      BY <1>1, <1>7, <2>1, <2>2, <3>1, SoundLeaves
    <3> QED BY <1>2, <1>3, <1>7, <2>2, <3>2
  <2>3. CASE \E pc : /\ Continues(r, pc)
                     /\ Advance(r) => pc = Then(q.op, q.pc)
                     /\ ~Advance(r) => RecordReplaced(r) /\ pc \in {"base2", "write"}
    <3>1. PICK pc : /\ Continues(r, pc)
                    /\ Advance(r) => pc = Then(q.op, q.pc)
                    /\ ~Advance(r) => RecordReplaced(r) /\ pc \in {"base2", "write"}
      BY <2>3
    <3>2. RecordReplaced(r) =>
            pc = IF started[q.name] = None /\ q.name \notin pending THEN "base2" ELSE "write"
      BY <1>1, <3>1 DEF RecordReplaced, Goto, Continues, Onward, CallsInv, TypeOK, RequestState
    <3>3. SoundCall(r)'
      BY <1>1, <1>7, <2>1, <3>1, <3>2, SoundContinues
    <3>4. lock' = lock
      BY <3>1 DEF Continues
    <3> QED BY <3>3, <3>4
  <2> QED BY <1>1, <1>7, <2>2, <2>3, StepMoves
<1>8. CASE GiveUp(r)
  <2>1. Known(r, q)
    BY <1>1, <1>8, KnownCall
  <2>2. CASE Fail(r)
    BY <1>1, <1>2, <1>3, <1>8, <2>1, <2>2, SoundFails
  <2>3. CASE Undo(r)
    <3>1. Leave(r) /\ \A n \in {q.name, q.to} : Settled(n)'
      BY <1>1, <2>1, <2>3, SoundUndone DEF Undo
    <3> QED BY <1>2, <1>3, <1>8, <3>1
  <2> QED BY <1>8, <2>2, <2>3 DEF GiveUp
<1> QED BY <1>4, <1>5, <1>6, <1>7, <1>8 DEF Proceed

LEMMA SoundStep ==
    ASSUME RecordsComplete, SoundInv, [Next]_vars
    PROVE  SoundInv'
<1>1. CallsInv /\ TypeOK /\ RenamesInv'
  BY RenamesStep DEF SoundInv, RenamesInv, CallsInv
<1>2. ASSUME UNCHANGED <<lock, req>>, \A n \in Names : Still(n)
      PROVE  SoundInv'
  <2>1. \A n \in Names : Settled(n) => Settled(n)'
    BY <1>2, SettledStill
  <2>2. \A r \in Requests : SoundCall(r)'
    BY <1>1, <1>2, SoundStill DEF SoundInv
  <2> QED BY <1>1, <1>2, <2>1, <2>2 DEF SoundInv
<1>3. ASSUME NEW r \in Requests, Arrive(r) \/ Proceed(r) \/ GiveUp(r)
      PROVE  SoundInv'
  <2>1. CallsKept(r) /\ FilesKept(r)
    BY <1>1, <1>3, StepKept
  <2>2. ASSUME NEW n \in Names, lock[n] # r PROVE Still(n)
    BY <2>1, <2>2 DEF FilesKept, Still
  <2>3. ASSUME NEW s \in Requests \ {r} PROVE SoundCall(s)'
    BY <1>1, <2>1, <2>2, SoundStill DEF SoundInv, CallsKept
  <2>4. ASSUME NEW n \in Names, lock[n] = None PROVE Settled(n)'
    BY <2>2, <2>4, SettledStill, ConstantsAssumption DEF SoundInv
  <2> QED BY <1>1, <1>3, <2>3, <2>4, OwnSound DEF SoundInv
<1>4. ASSUME UNCHANGED vars \/ \E n \in Names : Exit(n)
      PROVE  UNCHANGED <<lock, req>> /\ \A n \in Names : Still(n)
  BY <1>1, <1>4 DEF Exit, vars, stores, host, Still, TypeOK
<1> QED BY <1>2, <1>3, <1>4 DEF Next

\* If the steps that change a process and its records do not fail in between, an instance
\* that is not marked pending runs exactly the config on disk, whatever other steps fail,
\* whatever exits and however the calls interleave: the pending chip misses nothing.
THEOREM NothingPendingIsRunning ==
    ASSUME RecordsComplete
    PROVE  Spec => []PendingSound
<1>1. SoundInv => PendingSound
  BY DEF SoundInv, Settled, Loads, PendingSound, Free, RunsItsFile
<1>2. SoundInv /\ [Next]_vars => SoundInv'
  BY SoundStep
<1> QED BY <1>1, <1>2, SoundInit, PTL DEF Spec

\* Under the same condition, a recorded baseline is what the process was started with, and
\* without a pending mark it is up to date with the file: plan_change compares a new
\* config with what really runs.
THEOREM BaselineIsWhatRuns ==
    ASSUME RecordsComplete
    PROVE  Spec => []BaselineSound
<1>1. SoundInv => BaselineSound
  BY DEF SoundInv, Settled, Kept, Based, AppliedOf, BaselineSound, Free, BaselineTrue, Baseline
<1>2. SoundInv /\ [Next]_vars => SoundInv'
  BY SoundStep
<1> QED BY <1>1, <1>2, SoundInit, PTL DEF Spec
=============================================================================
