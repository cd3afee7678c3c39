----------------------------- MODULE KeyedMutex -----------------------------
(***************************************************************************)
(* KeyedMutex (crates/airband-supervisor/src/keyed_mutex.rs): a map from a *)
(* key to a reference-counted tokio mutex, whose entries go away when      *)
(* nobody uses them.                                                       *)
(*                                                                         *)
(* A call is one use of lock(): it looks its key up under the map's own    *)
(* lock (one step), queues at the mutex it found, holds it, gives the      *)
(* permit back and only then drops its reference.  Other threads run       *)
(* between any two of these steps, and a call that waits may be dropped.   *)
(***************************************************************************)
EXTENDS Integers, Sequences, FiniteSets

CONSTANTS
    Keys,
    Calls,
    Mutexes,    \* the tokio mutexes that can exist at the same time
    None

ASSUME MutexAssumption ==
    /\ None \notin Keys \cup Mutexes \cup Calls
    /\ IsFiniteSet(Keys) /\ IsFiniteSet(Calls)

\* A new mutex can always be allocated: no fewer of them than calls at the same time.
ASSUME MutexesSuffice ==
    IsFiniteSet(Mutexes) => Cardinality(Calls) <= Cardinality(Mutexes)

VARIABLES
    entry,      \* the map: the mutex of a key
    at,         \* the calls: where they are, their key and the mutex they refer to
    owner,      \* who has the permit of a mutex
    waiting     \* who waits for it, in the order they came

vars == <<entry, at, owner, waiting>>

Optional(S) == S \cup {None}

NoCall == [stage |-> "idle", key |-> None, mutex |-> None]

Stages == {"idle", "found", "queued", "held", "released"}

TypeOK ==
    /\ entry \in [Keys -> Optional(Mutexes)]
    /\ at \in [Calls -> [stage : Stages, key : Optional(Keys), mutex : Optional(Mutexes)]]
    /\ owner \in [Mutexes -> Optional(Calls)]
    /\ waiting \in [Mutexes -> Seq(Calls)]

\* Arc::strong_count(m) - 1, for a mutex in the map: how many calls refer to it.
InUse(m) == \E c \in Calls : at[c].mutex = m

\* Mutants: entries are kept only while someone holds them; never dropped.
RetainedHeld == [k \in Keys |->
    IF entry[k] # None /\ owner[entry[k]] # None THEN entry[k] ELSE None]
RetainedAll == entry

\* locks.retain(|_, l| Arc::strong_count(l) > 1)
Retained == [k \in Keys |->
    IF entry[k] # None /\ InUse(entry[k]) THEN entry[k] ELSE None]

\* The mutex that or_default() creates: one that nobody refers to any more.  Which of
\* those stands for it makes no difference.
Fresh == CHOOSE m \in Mutexes : ~InUse(m) /\ \A k \in Keys : Retained[k] # m

Find(c, k) ==
    /\ at[c].stage = "idle"
    /\ \E m \in Mutexes :
         /\ m = IF Retained[k] # None THEN Retained[k] ELSE Fresh
         /\ entry' = [Retained EXCEPT ![k] = m]
         /\ at' = [at EXCEPT ![c] = [stage |-> "found", key |-> k, mutex |-> m]]
    /\ UNCHANGED <<owner, waiting>>

Move(c, stage) == at' = [at EXCEPT ![c].stage = stage]

\* lock_owned() is polled for the first time: it takes a free permit or queues.
Queue(c) == LET m == at[c].mutex IN
    /\ at[c].stage = "found"
    /\ IF owner[m] = None
         THEN owner' = [owner EXCEPT ![m] = c] /\ UNCHANGED waiting
         ELSE waiting' = [waiting EXCEPT ![m] = Append(@, c)] /\ UNCHANGED owner
    /\ Move(c, "queued")
    /\ UNCHANGED entry

\* The task with the permit runs on: lock() returns its guard.
Enter(c) ==
    /\ at[c].stage = "queued" /\ owner[at[c].mutex] = c
    /\ Move(c, "held")
    /\ UNCHANGED <<entry, owner, waiting>>

\* Mutant: the permit is given back and the first waiter is not told.
HandOverSilent(m) ==
    /\ owner' = [owner EXCEPT ![m] = None]
    /\ UNCHANGED waiting

\* The permit goes to the first waiter, before it has woken.
HandOver(m) ==
    IF waiting[m] = <<>>
      THEN owner' = [owner EXCEPT ![m] = None] /\ UNCHANGED waiting
      ELSE /\ owner' = [owner EXCEPT ![m] = Head(waiting[m])]
           /\ waiting' = [waiting EXCEPT ![m] = Tail(@)]

\* The guard is dropped: first the permit ...
Release(c) ==
    /\ at[c].stage = "held"
    /\ HandOver(at[c].mutex)
    /\ Move(c, "released")
    /\ UNCHANGED entry

\* s without its i-th element.
Without(s, i) == [j \in 1..(Len(s) - 1) |-> IF j < i THEN s[j] ELSE s[j + 1]]

\* A call is dropped while it waits: it leaves the queue, or passes on a permit that
\* it was given and did not know of yet.
Abandon(c) == LET m == at[c].mutex IN
    /\ at[c].stage \in {"found", "queued"}
    /\ CASE at[c].stage = "queued" /\ owner[m] = c -> HandOver(m)
         [] at[c].stage = "queued" /\ owner[m] # c ->
              \E i \in 1..Len(waiting[m]) :
                /\ waiting[m][i] = c
                /\ waiting' = [waiting EXCEPT ![m] = Without(@, i)]
                /\ UNCHANGED owner
         [] OTHER -> UNCHANGED <<owner, waiting>>
    /\ Move(c, "released")
    /\ UNCHANGED entry

\* ... then the reference.
Forget(c) ==
    /\ at[c].stage = "released"
    /\ at' = [at EXCEPT ![c] = NoCall]
    /\ UNCHANGED <<entry, owner, waiting>>

-----------------------------------------------------------------------------
Init ==
    /\ entry = [k \in Keys |-> None]
    /\ at = [c \in Calls |-> NoCall]
    /\ owner = [m \in Mutexes |-> None]
    /\ waiting = [m \in Mutexes |-> <<>>]

Next == \E c \in Calls :
    \/ \E k \in Keys : Find(c, k)
    \/ Queue(c) \/ Enter(c) \/ Release(c) \/ Abandon(c) \/ Forget(c)

Spec == Init /\ [][Next]_vars

\* Tasks that can run do, and an operation that holds a lock returns (EveryCallReturns
\* of Instances); nobody has to call lock() or to give up.
Fairness == \A c \in Calls :
    WF_vars(Queue(c)) /\ WF_vars(Enter(c)) /\ WF_vars(Release(c)) /\ WF_vars(Forget(c))

FairSpec == Spec /\ Fairness

-----------------------------------------------------------------------------
Holds(c, k) == at[c].stage = "held" /\ at[c].key = k

\* At most one call holds a key, although the mutex behind it comes and goes: an
\* entry is never dropped and made again under a call that found the old one.
MutualExclusion == \A c, d \in Calls, k \in Keys : Holds(c, k) /\ Holds(d, k) => c = d

\* "so the map doesn't grow forever": whatever keys were ever locked, it has no more
\* entries than there are calls at the same time.
MapBounded == Cardinality({k \in Keys : entry[k] # None}) <= Cardinality(Calls)

\* The queue is fair: a call that waits gets the lock unless it gives up.  This is why
\* Instances assumes strong fairness of Lock.
EveryWaiterIsServed == \A c \in Calls :
    at[c].stage = "queued" ~> at[c].stage \in {"held", "released"}

\* The lock that the operations of the panel see.
HolderOf(k) ==
    IF \E c \in Calls : Holds(c, k) THEN CHOOSE c \in Calls : Holds(c, k) ELSE None

Abstract == INSTANCE NameLock WITH Nobody <- None, holder <- [k \in Keys |-> HolderOf(k)]

\* A key is handed on only by being free in between: what a holder of the key has
\* written is complete before the next one reads.
ImplementsNameLock == Abstract!Spec
=============================================================================
