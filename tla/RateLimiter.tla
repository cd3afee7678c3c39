------------------------------ MODULE RateLimiter ------------------------------
(***************************************************************************)
(* The rate limits of the HTTP API (panel/src/http/middleware.rs): fixed    *)
(* windows per client and route, kept in a table that drops expired windows *)
(* once it is large.                                                        *)
(***************************************************************************)
EXTENDS Integers, FiniteSets

CONSTANTS
  Hosts,          \* client addresses
  Window,         \* WINDOW (60 s), in ticks
  GlobalMax,      \* GLOBAL_MAX (300)
  MutatingMax,    \* MUTATING_MAX (60)
  MaxWindows      \* windows kept before expired ones are dropped (10 000)

ASSUME RateLimiterAssumption ==
  /\ Window \in Nat \ {0}
  /\ GlobalMax \in Nat /\ MutatingMax \in Nat
  /\ MaxWindows \in Nat

VARIABLES
  windows,   \* RateLimiter::windows: the age in ticks of a window, and its hits
  waiting,   \* clients whose request passed the global limit and is yet to hit its route's
  subject,   \* history: the key that is watched
  hits,      \* history: its hits in the last t + 1 ticks, for each t below Window
  passed,    \* history: those of them that were let through
  refused    \* history: whether its limit refused the last request

limiterVars == <<windows, waiting, subject, hits, passed, refused>>

\* The global budget, and that of one route that changes state.
LimitKeys == Hosts \X {"*", "mutating"}
Limit(k) == IF k[2] = "*" THEN GlobalMax ELSE MutatingMax
NoWindow == [age |-> Window, n |-> 0]
Ticks == 0..(Window - 1)

LimiterInit ==
  /\ windows = [k \in LimitKeys |-> NoWindow]
  /\ waiting = {}
  /\ subject \in LimitKeys
  /\ hits = [t \in Ticks |-> 0]
  /\ passed = [t \in Ticks |-> 0]
  /\ refused = FALSE
-----------------------------------------------------------------------------
(* hit *)

Tracked == {k \in LimitKeys : windows[k] # NoWindow}

\* Mutant: a table that is too large is cleared.
ForgetAll(w) ==
  IF Cardinality(Tracked) > MaxWindows
    THEN [k \in LimitKeys |-> NoWindow]
    ELSE w

\* The retain: expired windows only.
Trimmed(w) ==
  IF Cardinality(Tracked) > MaxWindows
    THEN [k \in LimitKeys |-> IF w[k].age >= Window THEN NoWindow ELSE w[k]]
    ELSE w

\* Mutant: the count goes on in an expired window.
NeverRestarted(w) == IF w = NoWindow THEN [age |-> 0, n |-> 0] ELSE w

\* The entry a hit counts in: an expired one starts again.
Current(w) == IF w.age >= Window THEN [age |-> 0, n |-> 0] ELSE w

OneHit(w) == [w EXCEPT !.n = @ + 1]

\* The table after a hit, which counts also when it is refused.
Hit(k) == [Trimmed(windows) EXCEPT ![k] = OneHit(Current(@))]

Allowed(k) == Hit(k)[k].n <= Limit(k)

OneMore(f) == [t \in Ticks |-> f[t] + 1]

Count(k) ==
  /\ Current(windows[k]).n <= Limit(k)     \* bound: hits of a window
  /\ windows' = Hit(k)
  /\ hits' = IF k = subject THEN OneMore(hits) ELSE hits
  /\ passed' = IF k = subject /\ Allowed(k) THEN OneMore(passed) ELSE passed
  /\ refused' = (k = subject /\ ~Allowed(k))
  /\ UNCHANGED subject
-----------------------------------------------------------------------------
(* rate_limit *)

Ask(h, mutating) ==
  /\ h \notin waiting
  /\ Count(<<h, "*">>)
  /\ waiting' = IF mutating /\ Allowed(<<h, "*">>) THEN waiting \cup {h} ELSE waiting

AskRoute(h) ==
  /\ h \in waiting
  /\ Count(<<h, "mutating">>)
  /\ waiting' = waiting \ {h}

Aged(f) == [t \in Ticks |-> IF t = 0 THEN 0 ELSE f[t - 1]]

WindowTick ==
  /\ windows' = [k \in LimitKeys |->
                   IF windows[k].age < Window THEN [windows[k] EXCEPT !.age = @ + 1] ELSE windows[k]]
  /\ hits' = Aged(hits)
  /\ passed' = Aged(passed)
  /\ refused' = FALSE
  /\ UNCHANGED <<waiting, subject>>

LimiterNext ==
  \/ \E h \in Hosts : AskRoute(h) \/ \E mutating \in BOOLEAN : Ask(h, mutating)
  \/ WindowTick

LimiterSpec == LimiterInit /\ [][LimiterNext]_limiterVars
-----------------------------------------------------------------------------
(* Properties *)

Recent(f) == f[Window - 1]

\* In any span of one window's length a client gets at most twice its limit
\* through, also while the table overflows and windows are dropped from it.
BurstBounded == Recent(passed) <= 2 * Limit(subject)

\* A request is refused only if that very client hit that very limit more often
\* than allowed within one window: what others do costs nobody anything.
RefusedOnlyIfBusy == refused => Recent(hits) > Limit(subject)
=============================================================================
