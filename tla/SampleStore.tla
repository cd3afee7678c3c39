----------------------------- MODULE SampleStore -----------------------------
(***************************************************************************)
(* What the statistics database promises its readers: each series' history *)
(* is a set of polls; a poll enters the history of the series it reports   *)
(* when it arrives; only pruning takes samples out, and losing the memory  *)
(* takes out no more than what was not yet written.                        *)
(***************************************************************************)
EXTENDS Integers, Sequences

CONSTANTS Keys, Instances, NoGroup, Times, Cutoffs, BucketLen, Hardware

VARIABLES
  polls,   \* what was reported
  log,     \* history of a series, and of the hardware readings, as readers see it
  safe,    \* the part of it that survives the memory
  heard    \* when a series was last heard from, 0 if never

vars == <<polls, log, safe, heard>>

BucketOf(ts) == ts \div BucketLen
Boundary(c) == BucketOf(c) * BucketLen

Init ==
  /\ polls = <<>>
  /\ log = [k \in Keys \cup {Hardware} |-> {}]
  /\ safe = log
  /\ heard = [k \in Keys |-> 0]

Same(k, old) == old.instance = k.instance /\ old.group = k.group

\* `new` may take over the history of `old`: a series of the same frequency that
\* this poll does not report, while no other such series has any history.
MayInherit(new, old, ks) ==
  /\ new \in ks /\ old \in Keys \ ks
  /\ Same(new, old) /\ new.group # NoGroup
  /\ log[new] = {}
  /\ \A k \in Keys \ (ks \cup {old}) : Same(new, k) => log[k] = {}

\* The histories once each k has taken over that of from[k].
Moved(l, from) ==
  [k \in DOMAIN l |->
     IF k \in DOMAIN from THEN l[from[k]]
     ELSE IF \E n \in DOMAIN from : from[n] = k THEN {} ELSE l[k]]

Report(r) ==
  /\ polls' = Append(polls, r)
  /\ \E heirs \in SUBSET r.keys : \E from \in [heirs -> Keys] :
       /\ \A n \in heirs : MayInherit(n, from[n], r.keys)
       /\ \A m, n \in heirs : from[m] = from[n] => m = n
       /\ safe' = Moved(safe, from)
       /\ log' = [k \in DOMAIN log |->
                    Moved(log, from)[k] \cup
                    (IF k \in r.keys \/ (k = Hardware /\ r.keys = {})
                       THEN {Len(polls) + 1} ELSE {})]
       /\ heard' = [k \in Keys |->
                      IF k \in r.keys THEN r.ts
                      ELSE IF \E n \in heirs : from[n] = k THEN 0 ELSE heard[k]]

\* A poll that cannot be stored is as one that had nothing to report.
Refuse(r) ==
  r.keys # {} /\ polls' = Append(polls, [r EXCEPT !.keys = {}]) /\ UNCHANGED <<log, safe, heard>>

Persist == UNCHANGED polls /\ safe' = log /\ UNCHANGED <<log, heard>>

\* The memory is lost, in a crash or because writing keeps failing.
Lose ==
  UNCHANGED polls /\ log' = safe /\ heard' \in [Keys -> Times \cup {0}] /\ UNCHANGED safe

Kept(k, c) ==
  IF k = Hardware THEN {p \in log[k] : polls[p].ts >= c}
  ELSE IF heard[k] < Boundary(c) THEN {}
  ELSE {p \in log[k] : BucketOf(polls[p].ts) >= BucketOf(c)}

Prune ==
  /\ UNCHANGED polls
  /\ safe = log
  /\ \E c \in Cutoffs :
       /\ heard' = [k \in Keys |-> IF heard[k] < Boundary(c) THEN 0 ELSE heard[k]]
       /\ log' = [k \in DOMAIN log |-> Kept(k, c)]
  /\ safe' = log'

Reports ==
  {r \in [instance : Instances, ts : Times, keys : (SUBSET Keys) \ {{}}] :
     \A k \in r.keys : k.instance = r.instance}
    \cup [instance : {NoGroup}, ts : Times, keys : {{}}]

Next ==
  \/ Persist
  \/ \E r \in Reports : Report(r) \/ Refuse(r)
  \/ Lose
  \/ Prune

Spec == Init /\ [][Next]_vars
=============================================================================
