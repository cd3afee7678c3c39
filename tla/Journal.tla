------------------------------- MODULE Journal -------------------------------
(***************************************************************************)
(* The journal side of the error log (panel/src/events.rs): one follower    *)
(* task per instance, reopened with backoff, and the table that folds       *)
(* repeats of a line into the next stored copy and is cut down when full.   *)
(***************************************************************************)
EXTENDS Integers, FiniteSets

CONSTANTS
  Names,       \* instance names
  Lines,       \* messages that classify as errors or warnings
  MaxLines,    \* entries kept before old ones are dropped (2000)
  Retain,      \* windows an entry is kept for then (10)
  MaxBackoff,  \* MAX_BACKOFF, as a number of doublings of MIN_BACKOFF
  MaxOwed      \* bound: occurrences of a line not yet reported

ASSUME JournalAssumption ==
  /\ MaxLines \in Nat /\ Retain \in Nat \ {0} /\ MaxBackoff \in Nat /\ MaxOwed \in Nat

VARIABLES
  instances, \* the configs on disk
  stream,    \* a follower: none, opening, open, or asleep until it reopens
  backoff,   \* its backoff
  entry,     \* EventLog::lines: windows since the last stored copy, and the repeats since
  owed,      \* history: occurrences seen and not yet reported, with a count or by themselves
  since      \* history: windows since a copy was stored, entry or no entry

journalVars == <<instances, stream, backoff, entry, owed, since>>

Keys == Names \X Lines
Absent == [age |-> -1, suppressed |-> 0]
Present == {k \in Keys : entry[k] # Absent}
Never == Retain

JournalInit ==
  /\ instances = {}
  /\ stream = [n \in Names |-> "none"]
  /\ backoff = [n \in Names |-> 0]
  /\ entry = [k \in Keys |-> Absent]
  /\ owed = [k \in Keys |-> 0]
  /\ since = [k \in Keys |-> Never]

table == <<entry, owed, since>>
tasks == <<instances, stream, backoff>>
-----------------------------------------------------------------------------
(* journal_watcher and follow_one *)

Create(n) == n \notin instances /\ instances' = instances \cup {n} /\ UNCHANGED <<stream, backoff, table>>
Delete(n) == n \in instances /\ instances' = instances \ {n} /\ UNCHANGED <<stream, backoff, table>>

\* Mutant: followers of deleted instances are left alone.
FollowerAddedOnly(n) == IF n \in instances /\ stream[n] = "none" THEN "opening" ELSE stream[n]

\* The follower of n after a rescan.
Follower(n) ==
  IF n \notin instances THEN "none"
  ELSE IF stream[n] = "none" THEN "opening"
  ELSE stream[n]

Rescan ==
  /\ stream' = [n \in Names |-> Follower(n)]
  /\ backoff' = [n \in Names |-> IF stream[n] = "none" THEN 0 ELSE backoff[n]]
  /\ UNCHANGED <<instances, table>>

Open(n) ==
  /\ stream[n] = "opening"
  /\ stream' = [stream EXCEPT ![n] = "open"]
  /\ UNCHANGED <<instances, backoff, table>>

\* The stream ends, or does not open; only a long one resets the backoff.
Close(n) ==
  /\ stream[n] \in {"opening", "open"}
  /\ \/ stream[n] = "open" /\ backoff' = [backoff EXCEPT ![n] = 0]
     \/ backoff' = [backoff EXCEPT ![n] = IF @ < MaxBackoff THEN @ + 1 ELSE MaxBackoff]
  /\ stream' = [stream EXCEPT ![n] = "asleep"]
  /\ UNCHANGED <<instances, table>>

Wake(n) ==
  /\ stream[n] = "asleep"
  /\ stream' = [stream EXCEPT ![n] = "opening"]
  /\ UNCHANGED <<instances, backoff, table>>
-----------------------------------------------------------------------------
(* log_line *)

\* Mutant: a full table is cleared.
KeptNothing(k) == IF Cardinality(Present) > MaxLines THEN Absent ELSE entry[k]

\* What is left of the table before a line is looked up.
Kept(k) ==
  IF Cardinality(Present) > MaxLines /\ entry[k].age >= Retain THEN Absent ELSE entry[k]

\* Mutant: every occurrence is stored.
StoredAlways(e) == TRUE

\* Whether a line is stored rather than counted.
Stored(e) == e = Absent \/ e.age >= 1

Line(n, l) ==
  LET k == <<n, l>>
      e == Kept(k)
  IN  /\ stream[n] = "open"
      /\ owed[k] < MaxOwed
      /\ IF Stored(e)
           THEN /\ entry' = [q \in Keys |-> IF q = k THEN [age |-> 0, suppressed |-> 0] ELSE Kept(q)]
                /\ owed' = [owed EXCEPT ![k] = @ - e.suppressed]
                /\ since' = [since EXCEPT ![k] = 0]
           ELSE /\ entry' = [q \in Keys |-> IF q = k THEN [e EXCEPT !.suppressed = @ + 1]
                                                     ELSE Kept(q)]
                /\ owed' = [owed EXCEPT ![k] = @ + 1]
                /\ UNCHANGED since
      /\ UNCHANGED tasks

LineWindowPasses ==
  /\ entry' = [k \in Keys |-> IF entry[k] = Absent \/ entry[k].age = Retain
                                THEN entry[k] ELSE [entry[k] EXCEPT !.age = @ + 1]]
  /\ since' = [k \in Keys |-> IF since[k] = Never THEN Never ELSE since[k] + 1]
  /\ UNCHANGED <<tasks, owed>>
-----------------------------------------------------------------------------
JournalNext ==
  \/ \E n \in Names :
       \/ Create(n) \/ Delete(n)
       \/ Open(n) \/ Close(n) \/ Wake(n)
       \/ \E l \in Lines : Line(n, l)
  \/ Rescan
  \/ LineWindowPasses

JournalSpec == JournalInit /\ [][JournalNext]_journalVars
-----------------------------------------------------------------------------
(* Properties *)

Unreported(k) == owed[k] - entry[k].suppressed

\* A count that no stored copy will carry any more is lost only with an entry that
\* has been quiet for Retain windows.
CountsOutlastEviction ==
  [][\A k \in Keys : Unreported(k)' > Unreported(k) => entry[k].age >= Retain]_journalVars

\* Copies of one line are a window apart, also when the table overflows and its
\* entry was dropped in between.
OncePerWindow ==
  [][\A n \in Names, l \in Lines :
       Line(n, l) /\ Stored(Kept(<<n, l>>)) => since[<<n, l>>] >= 1]_journalVars

\* The followers match the configs again and again: a new instance gets one, which
\* opens its journal again whatever ends the stream, and a deleted one loses its.
FollowersMatch ==
  \A n \in Names : []<>(n \in instances <=> stream[n] \in {"opening", "open"})
=============================================================================
