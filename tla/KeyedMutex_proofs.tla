------------------------- MODULE KeyedMutex_proofs -------------------------
(***************************************************************************)
(* Proofs about KeyedMutex, for any keys, calls and mutexes.               *)
(***************************************************************************)
EXTENDS KeyedMutex, FiniteSetTheorems, FunctionTheorems, TLAPS

\* A call refers to the mutex that the map has for its key, until it is idle again.
Found(c) ==
    IF at[c].stage = "idle" THEN at[c].mutex = None
    ELSE /\ at[c].key \in Keys /\ at[c].mutex \in Mutexes
         /\ entry[at[c].key] = at[c].mutex

\* The permit is with the call that holds the mutex or is about to.
Permit(m) ==
    owner[m] # None =>
        at[owner[m]].mutex = m /\ at[owner[m]].stage \in {"queued", "held"}

Waiter(m, c) == at[c].mutex = m /\ at[c].stage = "queued" /\ owner[m] # c

Waiters(m) ==
    /\ \A i \in 1..Len(waiting[m]) : Waiter(m, waiting[m][i])
    /\ \A i, j \in 1..Len(waiting[m]) : waiting[m][i] = waiting[m][j] => i = j

MutexInv ==
    /\ TypeOK
    /\ \A c \in Calls : Found(c)
    /\ \A c \in Calls : at[c].stage = "held" => owner[at[c].mutex] = c
    /\ \A m \in Mutexes : Permit(m) /\ Waiters(m)

LEMMA MutexInit == Init => MutexInv
BY DEF Init, MutexInv, TypeOK, NoCall, Stages, Optional, Found, Permit, Waiters

(***************************************************************************)
(* A call's own record.                                                    *)
(***************************************************************************)
LEMMA MoveType ==
    ASSUME TypeOK, NEW c \in Calls, NEW stage \in Stages, Move(c, stage)
    PROVE  /\ at' \in [Calls -> [stage : Stages, key : Optional(Keys), mutex : Optional(Mutexes)]]
           /\ at'[c].stage = stage /\ at'[c].key = at[c].key /\ at'[c].mutex = at[c].mutex
           /\ \A d \in Calls \ {c} : at'[d] = at[d]
BY DEF TypeOK, Move

(***************************************************************************)
(* A mutex whose owner and queue a step leaves alone, and where the call   *)
(* that moves neither has the permit nor waits.                            *)
(***************************************************************************)
LEMMA WaitersKept ==
    ASSUME MutexInv, NEW c \in Calls, NEW n \in Mutexes,
           \A d \in Calls \ {c} : at'[d] = at[d],
           waiting'[n] = waiting[n],
           \A i \in 1..Len(waiting[n]) : waiting[n][i] # c /\ waiting[n][i] # owner'[n]
    PROVE  Waiters(n)'
<1>1. \A i \in 1..Len(waiting[n]) : waiting[n][i] \in Calls
  BY DEF MutexInv, TypeOK
<1>2. ASSUME NEW i \in 1..Len(waiting[n]) PROVE Waiter(n, waiting[n][i])'
  <2>1. Waiter(n, waiting[n][i])
    BY DEF MutexInv, Waiters
  <2>2. at'[waiting[n][i]] = at[waiting[n][i]]
    BY <1>1
  <2> QED BY <2>1, <2>2 DEF Waiter
<1>3. \A i, j \in 1..Len(waiting[n]) : waiting[n][i] = waiting[n][j] => i = j
  BY DEF MutexInv, Waiters
<1> QED BY <1>2, <1>3 DEF Waiters, Waiter

LEMMA Undisturbed ==
    ASSUME MutexInv, NEW c \in Calls, NEW n \in Mutexes,
           \A d \in Calls \ {c} : at'[d] = at[d],
           waiting'[n] = waiting[n], owner'[n] = owner[n], owner[n] # c,
           \A i \in 1..Len(waiting[n]) : waiting[n][i] # c
    PROVE  Permit(n)' /\ Waiters(n)'
<1>1. owner[n] # None => owner[n] \in Calls /\ Permit(n)
  BY DEF MutexInv, TypeOK, Optional
<1>2. Permit(n)'
  BY <1>1 DEF Permit
<1>3. \A i \in 1..Len(waiting[n]) : waiting[n][i] # owner[n]
  BY DEF MutexInv, Waiters, Waiter
<1> QED BY <1>2, <1>3, WaitersKept

LEMMA FindInv ==
    ASSUME MutexInv, NEW c \in Calls, NEW k \in Keys, Find(c, k)
    PROVE  MutexInv'
<1>1. TypeOK
  BY DEF MutexInv
<1>2. PICK m \in Mutexes :
        /\ m = IF Retained[k] # None THEN Retained[k] ELSE Fresh
        /\ entry' = [Retained EXCEPT ![k] = m]
        /\ at' = [at EXCEPT ![c] = [stage |-> "found", key |-> k, mutex |-> m]]
  BY DEF Find
<1>3. /\ at[c].stage = "idle"
      /\ UNCHANGED <<owner, waiting>>
      /\ at'[c] = [stage |-> "found", key |-> k, mutex |-> m]
      /\ \A d \in Calls \ {c} : at'[d] = at[d]
  BY <1>1, <1>2 DEF Find, TypeOK
<1>4. /\ entry'[k] = m
      /\ \A j \in Keys \ {k} : entry'[j] = Retained[j]
  BY <1>2 DEF Retained
<1>5. TypeOK'
  BY <1>1, <1>2, <1>3 DEF TypeOK, Retained, Optional, Stages
<1>6. ASSUME NEW d \in Calls PROVE Found(d)'
  <2>1. CASE d = c
    BY <1>3, <1>4, <2>1 DEF Found
  <2>2. CASE d # c /\ at[d].stage = "idle"
    BY <1>3, <2>2 DEF MutexInv, Found
  <2>3. CASE d # c /\ at[d].stage # "idle"
    <3>1. /\ at[d].key \in Keys /\ at[d].mutex \in Mutexes
          /\ entry[at[d].key] = at[d].mutex
      BY <2>3 DEF MutexInv, Found
    <3>2. Retained[at[d].key] = at[d].mutex /\ at[d].mutex # None
      BY <3>1, MutexAssumption DEF Retained, InUse
    <3>3. entry'[at[d].key] = at[d].mutex
      BY <1>2, <1>4, <3>1, <3>2
    <3> QED BY <1>3, <2>3, <3>1, <3>3 DEF Found
  <2> QED BY <2>1, <2>2, <2>3
<1>7. ASSUME NEW n \in Mutexes PROVE owner[n] # c /\ (\A i \in 1..Len(waiting[n]) : waiting[n][i] # c)
  BY <1>3, MutexAssumption DEF MutexInv, Permit, Waiters, Waiter
<1>8. ASSUME NEW d \in Calls, at'[d].stage = "held" PROVE owner'[at'[d].mutex] = d
  BY <1>3, <1>8 DEF MutexInv
<1>9. ASSUME NEW n \in Mutexes PROVE Permit(n)' /\ Waiters(n)'
  BY <1>3, <1>7, Undisturbed
<1> QED BY <1>5, <1>6, <1>8, <1>9 DEF MutexInv

LEMMA QueueInv ==
    ASSUME MutexInv, NEW c \in Calls, Queue(c)
    PROVE  MutexInv'
<1>0. PICK m \in Mutexes : m = at[c].mutex
  BY DEF MutexInv, Queue, Found
<1>1. /\ TypeOK /\ at[c].stage = "found" /\ c # None
      /\ Move(c, "queued") /\ "queued" \in Stages /\ UNCHANGED entry
  BY MutexAssumption DEF MutexInv, Queue, Stages
<1>2. /\ at'[c].stage = "queued" /\ at'[c].key = at[c].key /\ at'[c].mutex = m
      /\ \A d \in Calls \ {c} : at'[d] = at[d]
      /\ at' \in [Calls -> [stage : Stages, key : Optional(Keys), mutex : Optional(Mutexes)]]
  BY <1>0, <1>1, MoveType
<1>3. \A d \in Calls : Found(d)'
  BY <1>0, <1>1, <1>2 DEF MutexInv, Found
<1>4. \A n \in Mutexes : owner[n] # c /\ \A i \in 1..Len(waiting[n]) : waiting[n][i] # c
  BY <1>1 DEF MutexInv, Permit, Waiters, Waiter
<1>5. \A n \in Mutexes : /\ waiting[n] \in Seq(Calls)
                         /\ owner[n] # None => owner[n] \in Calls
                         /\ \A i \in 1..Len(waiting[n]) : waiting[n][i] \in Calls
  BY <1>1 DEF TypeOK, Optional
<1>6. CASE owner[m] = None
  <2>1. owner' = [owner EXCEPT ![m] = c] /\ UNCHANGED waiting
    BY <1>0, <1>6 DEF Queue
  <2>2. TypeOK'
    BY <1>1, <1>2, <2>1 DEF TypeOK, Optional
  <2>3. ASSUME NEW d \in Calls, at'[d].stage = "held" PROVE owner'[at'[d].mutex] = d
    <3>1. d # c /\ at[d].stage = "held" /\ at'[d].mutex = at[d].mutex
      BY <1>2, <2>3
    <3>2. owner[at[d].mutex] = d /\ at[d].mutex # m /\ d # None /\ at[d].mutex \in Mutexes
      BY <1>6, <3>1, MutexAssumption DEF MutexInv, Found
    <3> QED BY <1>1, <2>1, <3>1, <3>2 DEF TypeOK
  <2>4. ASSUME NEW n \in Mutexes PROVE Permit(n)' /\ Waiters(n)'
    <3>1. owner'[n] = IF n = m THEN c ELSE owner[n]
      BY <1>1, <2>1 DEF TypeOK
    <3>2. CASE n # m
      BY <1>2, <1>4, <2>1, <3>1, <3>2, Undisturbed
    <3>3. CASE n = m
      <4>1. Permit(n)'
        BY <1>0, <1>2, <3>1, <3>3 DEF Permit
      <4>2. Waiters(n)'
        BY <1>2, <1>4, <2>1, <3>1, <3>3, WaitersKept
      <4> QED BY <4>1, <4>2
    <3> QED BY <3>2, <3>3
  <2> QED BY <1>3, <2>2, <2>3, <2>4 DEF MutexInv
<1>7. CASE owner[m] # None
  <2>1. waiting' = [waiting EXCEPT ![m] = Append(@, c)] /\ UNCHANGED owner
    BY <1>0, <1>7 DEF Queue
  <2>2. TypeOK'
    BY <1>1, <1>2, <2>1 DEF TypeOK
  <2>3. ASSUME NEW d \in Calls, at'[d].stage = "held" PROVE owner'[at'[d].mutex] = d
    BY <1>2, <2>1, <2>3 DEF MutexInv
  <2>4. ASSUME NEW n \in Mutexes PROVE Permit(n)' /\ Waiters(n)'
    <3>1. CASE n # m
      <4>1. waiting'[n] = waiting[n]
        BY <1>1, <2>1, <3>1 DEF TypeOK
      <4> QED BY <1>2, <1>4, <2>1, <4>1, Undisturbed
    <3>2. CASE n = m
      <4> PICK w : w = waiting[m]
        OBVIOUS
      <4>1. w \in Seq(Calls) /\ waiting'[m] = Append(w, c)
        BY <1>1, <1>5, <2>1 DEF TypeOK
      <4>2. /\ Len(Append(w, c)) = Len(w) + 1 /\ Len(w) \in Nat
            /\ \A i \in 1..(Len(w) + 1) : Append(w, c)[i] = IF i <= Len(w) THEN w[i] ELSE c
        BY <4>1
      <4>3. Permit(m)'
        BY <1>1, <1>2, <1>4, <1>5, <2>1 DEF MutexInv, Permit
      <4>4. \A i \in 1..Len(w) : w[i] \in Calls /\ w[i] # c /\ Waiter(m, w[i])
        BY <1>1, <1>4, <1>5 DEF MutexInv, Waiters
      <4>5. \A i \in 1..(Len(w) + 1) : Waiter(m, Append(w, c)[i])'
        BY <1>1, <1>2, <1>4, <2>1, <4>2, <4>4 DEF Waiter
      <4>6. \A i, j \in 1..(Len(w) + 1) : Append(w, c)[i] = Append(w, c)[j] => i = j
        BY <1>1, <4>2, <4>4 DEF MutexInv, Waiters
      <4> QED BY <3>2, <4>1, <4>2, <4>3, <4>5, <4>6 DEF Waiters
    <3> QED BY <3>1, <3>2
  <2> QED BY <1>3, <2>2, <2>3, <2>4 DEF MutexInv
<1> QED BY <1>6, <1>7

(***************************************************************************)
(* A call that leaves its mutex.                                           *)
(***************************************************************************)
LEMMA FoundKept ==
    ASSUME MutexInv, NEW c \in Calls, NEW stage \in Stages \ {"idle"},
           at[c].stage # "idle", Move(c, stage), UNCHANGED entry
    PROVE  \A d \in Calls : Found(d)'
<1>1. /\ at'[c].stage = stage /\ at'[c].key = at[c].key /\ at'[c].mutex = at[c].mutex
      /\ \A d \in Calls \ {c} : at'[d] = at[d]
  BY MoveType DEF MutexInv
<1> QED BY <1>1 DEF MutexInv, Found

\* The calls at another mutex do not notice.
LEMMA OthersKept ==
    ASSUME MutexInv, NEW c \in Calls, NEW m \in Mutexes, m = at[c].mutex,
           \A d \in Calls \ {c} : at'[d] = at[d],
           NEW n \in Mutexes, n # m, owner'[n] = owner[n], waiting'[n] = waiting[n]
    PROVE  Permit(n)' /\ Waiters(n)'
<1>1. owner[n] # c /\ (\A i \in 1..Len(waiting[n]) : waiting[n][i] # c)
  BY MutexAssumption DEF MutexInv, Permit, Waiters, Waiter
<1> QED BY <1>1, Undisturbed

LEMMA HandOverInv ==
    ASSUME MutexInv, NEW c \in Calls, NEW m \in Mutexes, m = at[c].mutex, owner[m] = c,
           at[c].stage # "idle", HandOver(m), Move(c, "released"), UNCHANGED entry
    PROVE  MutexInv'
<1>1. TypeOK /\ "released" \in Stages \ {"idle"} /\ c # None
  BY MutexAssumption DEF MutexInv, Stages
<1>2. /\ at'[c].stage = "released"
      /\ \A d \in Calls \ {c} : at'[d] = at[d]
      /\ at' \in [Calls -> [stage : Stages, key : Optional(Keys), mutex : Optional(Mutexes)]]
  BY <1>1, MoveType
<1>3. \A d \in Calls : Found(d)'
  BY <1>1, FoundKept
<1> PICK w : w = waiting[m]
  OBVIOUS
<1>4. /\ w \in Seq(Calls)
      /\ \A i \in 1..Len(w) : w[i] \in Calls /\ w[i] # c /\ Waiter(m, w[i])
      /\ \A i, j \in 1..Len(w) : w[i] = w[j] => i = j
  BY <1>1 DEF TypeOK, MutexInv, Waiters, Waiter
<1>5. \A n \in Mutexes \ {m} : owner'[n] = owner[n] /\ waiting'[n] = waiting[n]
  BY <1>1 DEF HandOver, TypeOK
<1>6. TypeOK'
  <2>1. CASE w = <<>>
    BY <1>1, <1>2, <2>1 DEF HandOver, TypeOK, Optional
  <2>2. CASE w # <<>>
    <3>1. Head(w) \in Calls /\ Tail(w) \in Seq(Calls)
      BY <1>4, <2>2
    <3> QED BY <1>1, <1>2, <2>2, <3>1 DEF HandOver, TypeOK, Optional
  <2> QED BY <2>1, <2>2
<1>7. ASSUME NEW d \in Calls, at'[d].stage = "held" PROVE owner'[at'[d].mutex] = d
  <2>1. d # c /\ at'[d] = at[d]
    BY <1>2, <1>7
  <2>2. at[d].mutex \in Mutexes /\ owner[at[d].mutex] = d
    BY <1>7, <2>1 DEF MutexInv, Found
  <2> QED BY <1>5, <2>1, <2>2
<1>8. Permit(m)' /\ Waiters(m)'
  <2>1. CASE w = <<>>
    <3>1. owner'[m] = None /\ waiting'[m] = <<>>
      BY <1>1, <2>1 DEF HandOver, TypeOK
    <3> QED BY <3>1 DEF Permit, Waiters
  <2>2. CASE w # <<>>
    <3>1. owner'[m] = Head(w) /\ waiting'[m] = Tail(w)
      BY <1>1, <2>2 DEF HandOver, TypeOK
    <3>2. /\ Head(w) = w[1] /\ Len(w) \in Nat \ {0} /\ Len(Tail(w)) = Len(w) - 1
          /\ \A i \in 1..Len(Tail(w)) : Tail(w)[i] = w[i + 1] /\ i + 1 \in 1..Len(w)
      BY <1>4, <2>2
    <3>3. Permit(m)'
      <4>1. w[1] \in Calls \ {c} /\ Waiter(m, w[1])
        BY <1>4, <3>2
      <4> QED BY <1>2, <3>1, <3>2, <4>1 DEF Permit, Waiter
    <3>4. ASSUME NEW i \in 1..Len(Tail(w)) PROVE Waiter(m, Tail(w)[i])'
      <4>1. Tail(w)[i] \in Calls \ {c} /\ Waiter(m, Tail(w)[i]) /\ Tail(w)[i] # w[1]
        BY <1>4, <3>2
      <4> QED BY <1>2, <3>1, <3>2, <4>1 DEF Waiter
    <3>5. \A i, j \in 1..Len(Tail(w)) : Tail(w)[i] = Tail(w)[j] => i = j
      BY <1>4, <3>2
    <3> QED BY <3>1, <3>3, <3>4, <3>5 DEF Waiters, Waiter
  <2> QED BY <2>1, <2>2
<1>9. ASSUME NEW n \in Mutexes PROVE Permit(n)' /\ Waiters(n)'
  BY <1>2, <1>5, <1>8, OthersKept
<1> QED BY <1>3, <1>6, <1>7, <1>9 DEF MutexInv

\* What Without keeps: every element but one, in the same order.
LEMMA WithoutKeeps ==
    ASSUME NEW w \in Seq(Calls), NEW i \in 1..Len(w)
    PROVE  /\ Without(w, i) \in Seq(Calls) /\ Len(Without(w, i)) = Len(w) - 1
           /\ \A j \in 1..(Len(w) - 1) :
                Without(w, i)[j] = w[IF j < i THEN j ELSE j + 1]
<1>1. /\ Len(w) - 1 \in Nat
      /\ \A j \in 1..(Len(w) - 1) : Without(w, i)[j] = IF j < i THEN w[j] ELSE w[j + 1]
  BY DEF Without
<1>2. Without(w, i) \in [1..(Len(w) - 1) -> Calls]
  <2>1. \A j \in 1..(Len(w) - 1) : (IF j < i THEN w[j] ELSE w[j + 1]) \in Calls
    OBVIOUS
  <2> QED BY <2>1 DEF Without
<1>3. Without(w, i) \in Seq(Calls)
  BY <1>1, <1>2
<1>4. Len(Without(w, i)) = Len(w) - 1
  BY <1>1, <1>2, <1>3
<1> QED BY <1>1, <1>3, <1>4

LEMMA LeaveQueueInv ==
    ASSUME MutexInv, NEW c \in Calls, NEW m \in Mutexes, m = at[c].mutex, owner[m] # c,
           at[c].stage = "queued", NEW i \in 1..Len(waiting[m]), waiting[m][i] = c,
           waiting' = [waiting EXCEPT ![m] = Without(@, i)],
           Move(c, "released"), UNCHANGED <<entry, owner>>
    PROVE  MutexInv'
<1>1. TypeOK /\ "released" \in Stages \ {"idle"} /\ c # None
  BY MutexAssumption DEF MutexInv, Stages
<1>2. /\ at'[c].stage = "released"
      /\ \A d \in Calls \ {c} : at'[d] = at[d]
      /\ at' \in [Calls -> [stage : Stages, key : Optional(Keys), mutex : Optional(Mutexes)]]
  BY <1>1, MoveType
<1>3. \A d \in Calls : Found(d)'
  BY <1>1, FoundKept
<1> PICK w \in Seq(Calls) : w = waiting[m]
  BY <1>1 DEF TypeOK
<1> PICK v : v = Without(w, i)
  OBVIOUS
<1>4. /\ v \in Seq(Calls) /\ Len(v) = Len(w) - 1 /\ Len(w) \in Nat
      /\ \A j \in 1..Len(v) : v[j] = w[IF j < i THEN j ELSE j + 1]
  <2>1. i \in 1..Len(w)
    OBVIOUS
  <2>2. /\ v \in Seq(Calls) /\ Len(v) = Len(w) - 1
        /\ \A j \in 1..(Len(w) - 1) : v[j] = w[IF j < i THEN j ELSE j + 1]
    BY <2>1, WithoutKeeps
  <2> QED BY <2>2
<1>5. /\ waiting'[m] = v
      /\ \A n \in Mutexes \ {m} : owner'[n] = owner[n] /\ waiting'[n] = waiting[n]
  BY <1>1 DEF TypeOK
<1>6. TypeOK'
  BY <1>1, <1>2, <1>4 DEF TypeOK
<1>7. ASSUME NEW d \in Calls, at'[d].stage = "held" PROVE owner'[at'[d].mutex] = d
  <2>1. d # c /\ at'[d] = at[d]
    BY <1>2, <1>7
  <2> QED BY <1>7, <2>1 DEF MutexInv
<1>8. Permit(m)' /\ Waiters(m)'
  <2>1. /\ \A j \in 1..Len(w) : w[j] \in Calls /\ Waiter(m, w[j])
        /\ \A j, l \in 1..Len(w) : w[j] = w[l] => j = l
    BY <1>1 DEF TypeOK, MutexInv, Waiters
  <2>2. Permit(m)'
    <3>1. owner[m] # None => owner[m] \in Calls \ {c} /\ Permit(m)
      BY <1>1 DEF TypeOK, Optional, MutexInv
    <3> QED BY <1>2, <3>1 DEF Permit
  <2>3. ASSUME NEW j \in 1..Len(v) PROVE Waiter(m, v[j])'
    <3> DEFINE Old == IF j < i THEN j ELSE j + 1
    <3>0. Old \in 1..Len(w) /\ Old # i /\ v[j] = w[Old]
      BY <1>4
    <3>1. PICK l \in 1..Len(w) : v[j] = w[l] /\ l # i
      BY <3>0
    <3>2. w[l] \in Calls \ {c} /\ Waiter(m, w[l])
      BY <2>1, <3>1
    <3> QED BY <1>2, <3>1, <3>2 DEF Waiter
  <2>4. ASSUME NEW j \in 1..Len(v), NEW l \in 1..Len(v), v[j] = v[l] PROVE j = l
    <3> DEFINE Old(x) == IF x < i THEN x ELSE x + 1
    <3>1. Old(j) \in 1..Len(w) /\ Old(l) \in 1..Len(w) /\ w[Old(j)] = w[Old(l)]
      BY <1>4, <2>4
    <3>2. Old(j) = Old(l)
      BY <2>1, <3>1
    <3> QED BY <1>4, <3>2
  <2> QED BY <1>5, <2>2, <2>3, <2>4 DEF Waiters, Waiter
<1>9. ASSUME NEW n \in Mutexes PROVE Permit(n)' /\ Waiters(n)'
  BY <1>2, <1>5, <1>8, OthersKept
<1> QED BY <1>3, <1>6, <1>7, <1>9 DEF MutexInv

(***************************************************************************)
(* The steps of a call.                                                    *)
(***************************************************************************)
LEMMA EnterInv ==
    ASSUME MutexInv, NEW c \in Calls, Enter(c)
    PROVE  MutexInv'
<1> PICK m \in Mutexes : m = at[c].mutex
  BY DEF MutexInv, Enter, Found
<1>1. /\ TypeOK /\ "held" \in Stages \ {"idle"} /\ c # None
      /\ at[c].stage = "queued" /\ owner[m] = c /\ Move(c, "held")
      /\ UNCHANGED <<entry, owner, waiting>>
  BY MutexAssumption DEF MutexInv, Stages, Enter
<1>2. /\ at'[c].stage = "held" /\ at'[c].mutex = m
      /\ \A d \in Calls \ {c} : at'[d] = at[d]
      /\ at' \in [Calls -> [stage : Stages, key : Optional(Keys), mutex : Optional(Mutexes)]]
  BY <1>1, MoveType
<1>3. \A d \in Calls : Found(d)'
  BY <1>1, FoundKept
<1>4. TypeOK'
  BY <1>1, <1>2 DEF TypeOK
<1>5. ASSUME NEW d \in Calls, at'[d].stage = "held" PROVE owner'[at'[d].mutex] = d
  BY <1>1, <1>2, <1>5 DEF MutexInv
<1>6. Permit(m)' /\ Waiters(m)'
  <2>1. Permit(m)'
    BY <1>1, <1>2 DEF Permit
  <2>2. \A i \in 1..Len(waiting[m]) : waiting[m][i] # c
    BY <1>1 DEF MutexInv, Waiters, Waiter
  <2>3. Waiters(m)'
    BY <1>1, <1>2, <2>2, WaitersKept
  <2> QED BY <2>1, <2>3
<1>7. ASSUME NEW n \in Mutexes PROVE Permit(n)' /\ Waiters(n)'
  BY <1>1, <1>2, <1>6, OthersKept
<1> QED BY <1>3, <1>4, <1>5, <1>7 DEF MutexInv

LEMMA ReleaseInv ==
    ASSUME MutexInv, NEW c \in Calls, Release(c)
    PROVE  MutexInv'
<1> PICK m \in Mutexes : m = at[c].mutex
  BY DEF MutexInv, Release, Found
<1>1. owner[m] = c
  BY DEF MutexInv, Release
<1> QED BY <1>1, HandOverInv DEF Release

LEMMA AbandonInv ==
    ASSUME MutexInv, NEW c \in Calls, Abandon(c)
    PROVE  MutexInv'
<1> PICK m \in Mutexes : m = at[c].mutex
  BY DEF MutexInv, Abandon, Found
<1>1. /\ at[c].stage \in {"found", "queued"} /\ Move(c, "released") /\ UNCHANGED entry
  BY DEF Abandon
<1>2. CASE at[c].stage = "queued" /\ owner[m] = c
  BY <1>1, <1>2, HandOverInv DEF Abandon
<1>3. CASE at[c].stage = "queued" /\ owner[m] # c
  <2>1. PICK i \in 1..Len(waiting[m]) :
          /\ waiting[m][i] = c
          /\ waiting' = [waiting EXCEPT ![m] = Without(@, i)]
          /\ UNCHANGED owner
    BY <1>3 DEF Abandon
  <2> QED BY <1>1, <1>3, <2>1, LeaveQueueInv
<1>4. CASE at[c].stage = "found"
  <2>1. UNCHANGED <<owner, waiting>>
    BY <1>4 DEF Abandon
  <2>2. TypeOK /\ "released" \in Stages \ {"idle"} /\ c # None
    BY MutexAssumption DEF MutexInv, Stages
  <2>3. /\ at'[c].stage = "released"
        /\ \A d \in Calls \ {c} : at'[d] = at[d]
        /\ at' \in [Calls -> [stage : Stages, key : Optional(Keys), mutex : Optional(Mutexes)]]
    BY <1>1, <2>2, MoveType
  <2>4. \A d \in Calls : Found(d)'
    BY <1>1, <1>4, <2>2, FoundKept
  <2>5. TypeOK'
    BY <1>1, <2>1, <2>2, <2>3 DEF TypeOK
  <2>6. ASSUME NEW d \in Calls, at'[d].stage = "held" PROVE owner'[at'[d].mutex] = d
    BY <2>1, <2>3, <2>6 DEF MutexInv
  <2>7. ASSUME NEW n \in Mutexes PROVE Permit(n)' /\ Waiters(n)'
    <3>1. owner[n] # c /\ (\A i \in 1..Len(waiting[n]) : waiting[n][i] # c)
      BY <1>4, <2>2 DEF MutexInv, Permit, Waiters, Waiter
    <3> QED BY <2>1, <2>3, <3>1, Undisturbed
  <2> QED BY <2>4, <2>5, <2>6, <2>7 DEF MutexInv
<1> QED BY <1>1, <1>2, <1>3, <1>4

LEMMA ForgetInv ==
    ASSUME MutexInv, NEW c \in Calls, Forget(c)
    PROVE  MutexInv'
<1>1. /\ TypeOK /\ c # None /\ at[c].stage = "released"
      /\ at' = [at EXCEPT ![c] = NoCall]
      /\ UNCHANGED <<entry, owner, waiting>>
  BY MutexAssumption DEF MutexInv, Forget
<1>2. at'[c] = NoCall /\ \A d \in Calls \ {c} : at'[d] = at[d]
  BY <1>1 DEF TypeOK
<1>3. TypeOK'
  BY <1>1 DEF TypeOK, NoCall, Stages, Optional
<1>4. ASSUME NEW d \in Calls PROVE Found(d)'
  BY <1>1, <1>2 DEF MutexInv, Found, NoCall
<1>5. ASSUME NEW d \in Calls, at'[d].stage = "held" PROVE owner'[at'[d].mutex] = d
  BY <1>1, <1>2, <1>5 DEF MutexInv, NoCall
<1>6. ASSUME NEW n \in Mutexes PROVE Permit(n)' /\ Waiters(n)'
  <2>1. owner[n] # c /\ (\A i \in 1..Len(waiting[n]) : waiting[n][i] # c)
    BY <1>1 DEF MutexInv, Permit, Waiters, Waiter
  <2> QED BY <1>1, <1>2, <2>1, Undisturbed
<1> QED BY <1>3, <1>4, <1>5, <1>6 DEF MutexInv

LEMMA MutexStep == MutexInv /\ [Next]_vars => MutexInv'
<1> SUFFICES ASSUME MutexInv, [Next]_vars PROVE MutexInv'
  OBVIOUS
<1>1. CASE UNCHANGED vars
  BY <1>1 DEF vars, MutexInv, TypeOK, Found, Permit, Waiters, Waiter
<1>2. ASSUME NEW c \in Calls, NEW k \in Keys, Find(c, k) PROVE MutexInv'
  BY <1>2, FindInv
<1>3. ASSUME NEW c \in Calls,
             Queue(c) \/ Enter(c) \/ Release(c) \/ Abandon(c) \/ Forget(c)
      PROVE  MutexInv'
  BY <1>3, QueueInv, EnterInv, ReleaseInv, AbandonInv, ForgetInv
<1> QED BY <1>1, <1>2, <1>3 DEF Next

(***************************************************************************)
(* keyed_mutex.rs: the map drops entries on every lookup, yet no two calls *)
(* ever hold the same key.                                                 *)
(***************************************************************************)
THEOREM MutexExclusive == Spec => []MutualExclusion
<1>1. MutexInv => MutualExclusion
  BY DEF MutexInv, Found, MutualExclusion, Holds
<1> QED BY <1>1, MutexInit, MutexStep, PTL DEF Spec

(***************************************************************************)
(* The size of the map.  An entry nobody uses stays until the next lookup, *)
(* so what bounds the map is the lookup: it keeps the entries the other    *)
(* calls use, no two of which share a call, and adds one.                  *)
(***************************************************************************)
Distinct == \A j, k \in Keys : entry[j] = entry[k] /\ entry[j] # None => j = k

MapInv == MutexInv /\ Distinct /\ MapBounded

Entries == {k \in Keys : entry[k] # None}

KeptEntries == {k \in Keys : Retained[k] # None}

UsedMutexes == {m \in Mutexes : InUse(m)}

\* A set with a user among the other calls for each of its elements, no call twice.
LEMMA FewerThanCalls ==
    ASSUME NEW c \in Calls, NEW S, NEW f \in [S -> Calls \ {c}],
           \A x, y \in S : f[x] = f[y] => x = y
    PROVE  IsFiniteSet(S) /\ Cardinality(S) \in Nat /\ Cardinality(S) + 1 <= Cardinality(Calls)
<1>1. f \in Injection(S, Calls \ {c})
  BY Fun_IsInj
<1>2. /\ IsFiniteSet(Calls \ {c})
      /\ Cardinality(Calls \ {c}) = Cardinality(Calls) - 1
  BY MutexAssumption, FS_RemoveElement
<1>3. IsFiniteSet(S) /\ Cardinality(S) <= Cardinality(Calls \ {c})
  BY <1>1, <1>2, FS_Injection
<1>4. Cardinality(Calls) \in Nat /\ Cardinality(S) \in Nat
  BY <1>3, MutexAssumption, FS_CardinalityType
<1> QED BY <1>2, <1>3, <1>4

LEMMA KeptIsSmall ==
    ASSUME MutexInv, Distinct, NEW c \in Calls, at[c].stage = "idle"
    PROVE  /\ IsFiniteSet(KeptEntries) /\ Cardinality(KeptEntries) \in Nat
           /\ Cardinality(KeptEntries) + 1 <= Cardinality(Calls)
<1> DEFINE user == [k \in KeptEntries |-> CHOOSE d \in Calls : at[d].mutex = entry[k]]
<1>1. at[c].mutex = None
  BY DEF MutexInv, Found
<1>2. ASSUME NEW k \in KeptEntries
      PROVE  user[k] \in Calls \ {c} /\ at[user[k]].key = k
  <2>1. k \in Keys /\ entry[k] # None /\ \E d \in Calls : at[d].mutex = entry[k]
    BY DEF KeptEntries, Retained, InUse
  <2>2. user[k] \in Calls /\ at[user[k]].mutex = entry[k]
    BY <2>1
  <2>3. at[user[k]].key \in Keys /\ entry[at[user[k]].key] = entry[k]
    BY <2>1, <2>2 DEF MutexInv, Found
  <2> QED BY <1>1, <2>1, <2>2, <2>3 DEF Distinct
<1>3. user \in [KeptEntries -> Calls \ {c}]
  BY <1>2
<1>4. \A j, k \in KeptEntries : user[j] = user[k] => j = k
  BY <1>2
<1> HIDE DEF user
<1> QED BY <1>3, <1>4, FewerThanCalls

\* There is a mutex for a key that has none.
LEMMA FreshIsFree ==
    ASSUME MutexInv, NEW c \in Calls, at[c].stage = "idle"
    PROVE  Fresh \in Mutexes /\ ~InUse(Fresh) /\ \A k \in Keys : Retained[k] # Fresh
<1> DEFINE user == [m \in UsedMutexes |-> CHOOSE d \in Calls : at[d].mutex = m]
<1>1. at[c].mutex = None
  BY DEF MutexInv, Found
<1>2. ASSUME NEW m \in UsedMutexes
      PROVE  user[m] \in Calls \ {c} /\ at[user[m]].mutex = m
  BY <1>1, MutexAssumption DEF UsedMutexes, InUse
<1>3. user \in [UsedMutexes -> Calls \ {c}]
  BY <1>2
<1>4. \A m, n \in UsedMutexes : user[m] = user[n] => m = n
  BY <1>2
<1>5. /\ IsFiniteSet(UsedMutexes) /\ Cardinality(UsedMutexes) \in Nat
      /\ Cardinality(UsedMutexes) + 1 <= Cardinality(Calls)
  <2> HIDE DEF user
  <2> QED BY <1>3, <1>4, FewerThanCalls
<1>6. UsedMutexes # Mutexes
  BY <1>5, MutexesSuffice, MutexAssumption, FS_CardinalityType
<1>7. PICK m \in Mutexes : ~InUse(m)
  BY <1>6 DEF UsedMutexes
<1>8. \A k \in Keys : Retained[k] # m
  BY <1>7, MutexAssumption DEF Retained
<1> QED BY <1>7, <1>8 DEF Fresh

LEMMA FindBounds ==
    ASSUME MapInv, NEW c \in Calls, NEW k \in Keys, Find(c, k)
    PROVE  Distinct' /\ MapBounded'
<1>1. /\ at[c].stage = "idle" /\ MutexInv /\ Distinct
      /\ entry' = [Retained EXCEPT ![k] = IF Retained[k] # None THEN Retained[k] ELSE Fresh]
  BY DEF Find, MapInv
<1>2. Fresh \in Mutexes /\ \A j \in Keys : Retained[j] # Fresh
  BY <1>1, FreshIsFree
<1>3. /\ \A j \in Keys \ {k} : entry'[j] = Retained[j]
      /\ entry'[k] = IF Retained[k] # None THEN Retained[k] ELSE Fresh
  BY <1>1 DEF Retained
<1>4. \A i, j \in Keys : Retained[i] = Retained[j] /\ Retained[i] # None => i = j
  BY <1>1 DEF Distinct, Retained
<1>5. Distinct'
  BY <1>2, <1>3, <1>4 DEF Distinct
<1>6. Entries' \subseteq KeptEntries \cup {k}
  BY <1>3 DEF Entries, KeptEntries
<1>7. /\ IsFiniteSet(KeptEntries) /\ Cardinality(KeptEntries) \in Nat
      /\ Cardinality(KeptEntries) + 1 <= Cardinality(Calls)
  BY <1>1, KeptIsSmall
<1>8. /\ IsFiniteSet(KeptEntries \cup {k})
      /\ Cardinality(KeptEntries \cup {k}) <= Cardinality(KeptEntries) + 1
  <2>1. /\ IsFiniteSet(KeptEntries \cup {k})
        /\ Cardinality(KeptEntries \cup {k}) =
             IF k \in KeptEntries THEN Cardinality(KeptEntries) ELSE Cardinality(KeptEntries) + 1
    BY <1>7, FS_AddElement, Zenon
  <2> QED BY <1>7, <2>1
<1>9. Cardinality(Entries') <= Cardinality(Calls)
  <2>1. IsFiniteSet(Entries') /\ Cardinality(Entries') <= Cardinality(KeptEntries \cup {k})
    BY <1>6, <1>8, FS_Subset
  <2>2. Cardinality(Entries') \in Nat /\ Cardinality(KeptEntries \cup {k}) \in Nat
    BY <1>8, <2>1, FS_CardinalityType
  <2>3. Cardinality(Calls) \in Nat
    BY MutexAssumption, FS_CardinalityType
  <2> QED BY <1>7, <1>8, <2>1, <2>2, <2>3
<1> QED BY <1>5, <1>9 DEF MapBounded, Entries

(***************************************************************************)
(* keyed_mutex.rs 16-25: whatever keys were ever locked, the map has no    *)
(* more entries than there are calls at the same time.                     *)
(***************************************************************************)
THEOREM MapStaysBounded == Spec => []MapBounded
<1>1. Init => MapInv
  <2> SUFFICES ASSUME Init PROVE MapInv
    OBVIOUS
  <2>1. MutexInv /\ Distinct
    BY MutexInit DEF Init, Distinct
  <2>2. Entries = {}
    BY DEF Init, Entries
  <2>3. Cardinality(Entries) = 0 /\ Cardinality(Calls) \in Nat
    BY <2>2, FS_EmptySet, FS_CardinalityType, MutexAssumption
  <2>4. MapBounded
    BY <2>3 DEF MapBounded, Entries
  <2> QED BY <2>1, <2>4 DEF MapInv
<1>2. MapInv /\ [Next]_vars => MapInv'
  <2> SUFFICES ASSUME MapInv, [Next]_vars PROVE MapInv'
    OBVIOUS
  <2>1. MutexInv'
    BY MutexStep DEF MapInv
  <2>2. ASSUME NEW c \in Calls, NEW k \in Keys, Find(c, k) PROVE Distinct' /\ MapBounded'
    BY <2>2, FindBounds
  <2>3. ASSUME UNCHANGED entry PROVE Distinct' /\ MapBounded'
    <3>1. Entries' = Entries
      BY <2>3 DEF Entries
    <3> QED BY <2>3, <3>1 DEF MapInv, Distinct, MapBounded, Entries
  <2>4. UNCHANGED entry \/ \E c \in Calls, k \in Keys : Find(c, k)
    BY DEF Next, vars, Queue, Enter, Release, Abandon, Forget
  <2> QED BY <2>1, <2>2, <2>3, <2>4 DEF MapInv
<1>3. MapInv => MapBounded
  BY DEF MapInv
<1> QED BY <1>1, <1>2, <1>3, PTL DEF Spec

(***************************************************************************)
(* KeyedMutex implements NameLock.                                         *)
(***************************************************************************)
HolderIs(k) ==
    /\ \A c \in Calls : Holds(c, k) => HolderOf(k) = c
    /\ (\A c \in Calls : ~Holds(c, k)) => HolderOf(k) = None

LEMMA HolderNow == MutexInv => \A k \in Keys : HolderIs(k)
BY DEF HolderIs, HolderOf, MutexInv, Found, Holds

LEMMA HolderNext == MutexInv' => \A k \in Keys : HolderIs(k)'
BY DEF HolderIs, HolderOf, MutexInv, Found, Holds

\* A step that changes nobody's possession does not show.
LEMMA SameHolders ==
    ASSUME MutexInv, MutexInv', NEW k \in Keys,
           \A c \in Calls : Holds(c, k)' <=> Holds(c, k)
    PROVE  HolderOf(k)' = HolderOf(k)
<1>1. HolderIs(k) /\ HolderIs(k)'
  BY HolderNow, HolderNext
<1>2. CASE \E c \in Calls : Holds(c, k)
  <2>1. PICK c \in Calls : Holds(c, k)
    BY <1>2
  <2>2. HolderOf(k) = c
    BY <1>1, <2>1 DEF HolderIs
  <2>3. HolderOf(k)' = c
    BY <1>1, <2>1 DEF HolderIs
  <2> QED BY <2>2, <2>3
<1>3. CASE \A c \in Calls : ~Holds(c, k)
  <2>1. HolderOf(k) = None
    BY <1>1, <1>3 DEF HolderIs
  <2>2. HolderOf(k)' = None
    BY <1>1, <1>3 DEF HolderIs
  <2> QED BY <2>1, <2>2
<1> QED BY <1>2, <1>3

LEMMA EnterTakes ==
    ASSUME MutexInv, MutexInv', NEW c \in Calls, Enter(c)
    PROVE  Abstract!Take(c, at[c].key)
<1> PICK key \in Keys : key = at[c].key
  BY DEF MutexInv, Enter, Found
<1>1. \A d \in Calls, k \in Keys :
        Holds(d, k)' <=> IF d = c THEN k = key ELSE Holds(d, k)
  BY MoveType DEF MutexInv, Holds, Enter, Stages
<1>2. ~Holds(c, key) /\ Holds(c, key)'
  BY <1>1 DEF Holds, Enter
<1>3. \A d \in Calls : ~Holds(d, key)
  <2>1. MutualExclusion'
    BY DEF MutexInv, Found, MutualExclusion, Holds
  <2> QED BY <1>1, <1>2, <2>1 DEF MutualExclusion
<1>4. HolderOf(key) = None
  BY <1>3, HolderNow DEF HolderIs
<1>5. HolderOf(key)' = c
  BY <1>2, HolderNext DEF HolderIs
<1>6. \A k \in Keys \ {key} : HolderOf(k)' = HolderOf(k)
  BY <1>1, SameHolders DEF Holds, Enter
<1> QED BY <1>4, <1>5, <1>6 DEF Abstract!Take

LEMMA ReleaseGivesBack ==
    ASSUME MutexInv, MutexInv', NEW c \in Calls, Release(c)
    PROVE  Abstract!GiveBack({at[c].key})
<1> PICK key \in Keys : key = at[c].key
  BY DEF MutexInv, Release, Found
<1>1. \A d \in Calls, k \in Keys : Holds(d, k)' <=> d # c /\ Holds(d, k)
  BY MoveType DEF MutexInv, Holds, Release, Stages
<1>2. Holds(c, key)
  BY DEF Holds, Release
<1>3. \A d \in Calls : ~Holds(d, key)'
  <2>1. MutualExclusion
    BY DEF MutexInv, Found, MutualExclusion, Holds
  <2> QED BY <1>1, <1>2, <2>1 DEF MutualExclusion
<1>4. HolderOf(key)' = None
  BY <1>3, HolderNext DEF HolderIs
<1>5. \A k \in Keys \ {key} : HolderOf(k)' = HolderOf(k)
  <2>1. \A k \in Keys \ {key} : ~Holds(c, k)
    BY DEF Holds
  <2> QED BY <1>1, <2>1, SameHolders
<1> QED BY <1>4, <1>5 DEF Abstract!GiveBack

\* The other steps: they neither begin nor end a possession.
LEMMA QuietStep ==
    ASSUME MutexInv, MutexInv', NEW c \in Calls,
           \/ UNCHANGED vars
           \/ \E k \in Keys : Find(c, k)
           \/ Queue(c) \/ Abandon(c) \/ Forget(c)
    PROVE  \A k \in Keys : HolderOf(k)' = HolderOf(k)
<1>1. /\ at'[c] = at[c] \/ (at[c].stage # "held" /\ at'[c].stage # "held")
      /\ \A d \in Calls \ {c} : at'[d] = at[d]
  BY DEF vars, MutexInv, TypeOK, Find, Queue, Abandon, Forget, Move, NoCall
<1>2. \A d \in Calls, k \in Keys : Holds(d, k)' <=> Holds(d, k)
  BY <1>1 DEF Holds
<1> QED BY <1>2, SameHolders

(***************************************************************************)
(* keyed_mutex.rs 14-25: whatever becomes of the entries, the calls see a  *)
(* lock per key that is handed on only by being free in between.           *)
(***************************************************************************)
THEOREM MutexImplementsNameLock == Spec => ImplementsNameLock
<1>1. Init => Abstract!Init
  <2> SUFFICES ASSUME Init PROVE \A k \in Keys : HolderOf(k) = None
    BY DEF Abstract!Init
  <2>1. \A c \in Calls, k \in Keys : ~Holds(c, k)
    BY DEF Init, NoCall, Holds
  <2> QED BY <2>1 DEF HolderOf
<1>2. MutexInv /\ MutexInv' /\ [Next]_vars => [Abstract!Next]_[k \in Keys |-> HolderOf(k)]
  <2> SUFFICES ASSUME MutexInv, MutexInv', [Next]_vars
               PROVE  \/ Abstract!Next
                      \/ \A k \in Keys : HolderOf(k)' = HolderOf(k)
    OBVIOUS
  <2>1. ASSUME NEW c \in Calls, Enter(c) PROVE Abstract!Next
    <3>1. at[c].key \in Keys
      BY <2>1 DEF MutexInv, Enter, Found
    <3> QED BY <2>1, <3>1, EnterTakes DEF Abstract!Next
  <2>2. ASSUME NEW c \in Calls, Release(c) PROVE Abstract!Next
    <3>1. {at[c].key} \in SUBSET Keys
      BY <2>2 DEF MutexInv, Release, Found
    <3> QED BY <2>2, <3>1, ReleaseGivesBack DEF Abstract!Next
  <2>3. ASSUME NEW c \in Calls,
               (\E k \in Keys : Find(c, k)) \/ Queue(c) \/ Abandon(c) \/ Forget(c)
        PROVE  \A k \in Keys : HolderOf(k)' = HolderOf(k)
    BY <2>3, QuietStep
  <2>4. CASE UNCHANGED vars
    BY <2>4 DEF vars, HolderOf, Holds
  <2> QED BY <2>1, <2>2, <2>3, <2>4 DEF Next
<1> QED BY <1>1, <1>2, MutexInit, MutexStep, PTL DEF Spec, ImplementsNameLock, Abstract!Spec
=============================================================================
