----------------------------- MODULE HardwareRates -----------------------------
(***************************************************************************)
(* The counter rates of the Hardware page (panel/src/hardware.rs): several  *)
(* requests and the feed's watcher take snapshots at once, each reads the   *)
(* instance's counters over its control socket, and each then turns its     *)
(* reading into a rate against the one remembered last, whichever came      *)
(* first.                                                                   *)
(***************************************************************************)
EXTENDS Integers

CONSTANTS
  Requests,    \* concurrent callers of snapshot
  MaxClock,    \* bound: distinct instants
  MaxEvents    \* bound: overflows counted in a behaviour

ASSUME HardwareRatesAssumption == MaxClock \in Nat /\ MaxEvents \in Nat

VARIABLES
  clock,     \* Instant::now
  counter,   \* the process's cumulative counter; Down without one to talk to
  events,    \* history: all overflows so far, over every process
  exists,    \* whether the instance's config exists
  reading,   \* a caller's reply, until it is recorded
  previous,  \* HardwareService::counters for the device
  rate      \* history: the rate of the snapshot recorded last

hardwareVars == <<clock, counter, events, exists, reading, previous, rate>>

Down == -1
NoReading == [live |-> FALSE]
NoRate == [any |-> FALSE]

HardwareInit ==
  /\ clock = 0 /\ events = 0
  /\ counter = 0
  /\ exists = TRUE
  /\ reading = [r \in Requests |-> [at |-> "idle"]]
  /\ previous = NoReading
  /\ rate = NoRate
-----------------------------------------------------------------------------
(* The clock and RTLSDR-Airband *)

panelSide == <<reading, previous, rate>>

Tock == clock < MaxClock /\ clock' = clock + 1 /\ UNCHANGED <<counter, events, exists, panelSide>>

Overflow ==
  /\ counter # Down /\ events < MaxEvents
  /\ counter' = counter + 1
  /\ events' = events + 1
  /\ UNCHANGED <<clock, exists, panelSide>>

Exit == counter # Down /\ counter' = Down /\ UNCHANGED <<clock, events, exists, panelSide>>

Run == counter = Down /\ exists /\ counter' = 0 /\ UNCHANGED <<clock, events, exists, panelSide>>

\* The instance is deleted, or made again under its name.
Replace ==
  /\ exists' = ~exists
  /\ counter' = Down
  /\ UNCHANGED <<clock, events, panelSide>>
-----------------------------------------------------------------------------
(* take_snapshot *)

Idle == [at |-> "idle"]

\* all_health lists the instance, and its control socket answers or does not.
Reply(r) ==
  /\ reading[r] = Idle
  /\ reading' = [reading EXCEPT ![r] =
       [at |-> "gathered", listed |-> exists,
        reply |-> IF counter = Down THEN NoReading
                  ELSE [live |-> TRUE, count |-> counter, time |-> clock, events |-> events]]]
  /\ UNCHANGED <<clock, counter, events, exists, previous, rate>>

\* Mutant: the time between two readings, in either order.
Apart(now, prev) == IF now >= prev THEN now - prev ELSE prev - now

\* checked_duration_since: nothing when the remembered reading is the later one.
Elapsed(now, prev) == IF now >= prev THEN now - prev ELSE 0

\* rate: none across a restart, or over no time.
Rate(now, prev) ==
  IF now.count >= prev.count /\ Elapsed(now.time, prev.time) > 0
    THEN [any |-> TRUE, rise |-> now.count - prev.count, secs |-> Elapsed(now.time, prev.time),
          happened |-> now.events - prev.events, passed |-> now.time - prev.time]
    ELSE NoRate

\* Under the lock: readings of instances that are gone are dropped, the reply is
\* compared with the remembered one and takes its place.
Record(r) ==
  /\ reading[r] # Idle
  /\ LET now == reading[r].reply
         known == IF reading[r].listed THEN previous ELSE NoReading
     IN  /\ rate' = IF now.live /\ known.live THEN Rate(now, known) ELSE NoRate
         /\ previous' = IF now.live THEN now ELSE known
  /\ reading' = [reading EXCEPT ![r] = Idle]
  /\ UNCHANGED <<clock, counter, events, exists>>
-----------------------------------------------------------------------------
HardwareNext ==
  \/ Tock \/ Overflow \/ Exit \/ Run \/ Replace
  \/ \E r \in Requests : Reply(r) \/ Record(r)

HardwareSpec == HardwareInit /\ [][HardwareNext]_hardwareVars
-----------------------------------------------------------------------------
(* Properties *)

\* A rate is never above the true one, and is over a time that really passed from
\* the older reading to the newer: not when a restart hides part of the
\* count, not when snapshots finish in another order than they read, and not
\* when the instance was deleted and made again in between.
RateIsNeverOverstated ==
  rate.any => rate.secs > 0 /\ rate.secs = rate.passed /\ rate.rise \in 0..rate.happened
=============================================================================
