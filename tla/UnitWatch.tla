------------------------------ MODULE UnitWatch ------------------------------
(***************************************************************************)
(* The unit watcher of the error log (panel/src/events.rs): it compares a   *)
(* unit's systemd status with the one before and reports what the panel did *)
(* not do itself, while the panel restarts units and notes that it did only *)
(* when systemctl has returned.                                             *)
(***************************************************************************)
EXTENDS Integers

CONSTANTS
  MaxStarts,   \* bound: starts of the unit
  Grace        \* PANEL_RESTART_GRACE, in polls of the watcher

ASSUME UnitWatchAssumption == MaxStarts \in Nat /\ Grace \in Nat \ {0, 1}

VARIABLES
  unit,      \* the unit: its ActiveState, and its ActiveEnterTimestamp as the number of
             \* that start (0: never started)
  lastSeen,  \* what the watcher saw last
  watch,     \* the watcher: waiting, or with a status it has read
  grace,     \* polls for which the panel's own restart still counts as recent
  restart,   \* the panel's restart call
  mine,      \* history: the starts the panel made
  reported   \* history: how often a start was reported as unexpected

unitVars == <<unit, lastSeen, watch, grace, restart, mine, reported>>

Starts == 1..MaxStarts
Unseen == [state |-> "unseen", entered |-> 0]

UnitInit ==
  /\ unit = [state |-> "inactive", entered |-> 0]
  /\ lastSeen = Unseen
  /\ watch = [at |-> "idle"]
  /\ grace = 0
  /\ restart = "idle"
  /\ mine = {}
  /\ reported = [s \in Starts |-> 0]
-----------------------------------------------------------------------------
(* The unit, as systemd and its users change it *)

unitOnly == <<lastSeen, watch, grace, restart, reported>>

Started == [state |-> "active", entered |-> unit.entered + 1]

OutsideStart ==
  /\ restart # "stopped"
  /\ unit.entered < MaxStarts
  /\ unit' = Started
  /\ UNCHANGED <<unitOnly, mine>>

End ==
  /\ unit.state = "active"
  /\ \E s \in {"inactive", "failed"} : unit' = [unit EXCEPT !.state = s]
  /\ UNCHANGED <<unitOnly, mine>>
-----------------------------------------------------------------------------
(* The panel's own restart *)

panelOnly == <<lastSeen, watch, reported>>

\* systemctl restart stops the unit first.
BeginRestart ==
  /\ restart = "idle"
  /\ unit.entered < MaxStarts
  /\ unit' = [unit EXCEPT !.state = IF @ = "active" THEN "inactive" ELSE @]
  /\ restart' = "stopped"
  /\ UNCHANGED <<panelOnly, grace, mine>>

EndRestart ==
  /\ restart = "stopped"
  /\ \/ /\ unit' = Started /\ mine' = mine \cup {unit'.entered}
        /\ restart' = "unnoted"
     \/ /\ unit' = [unit EXCEPT !.state = "failed"]     \* systemctl fails: no observer
        /\ restart' = "idle"
        /\ UNCHANGED mine
  /\ UNCHANGED <<panelOnly, grace>>

\* EventLog::restarted.
Note ==
  /\ restart = "unnoted"
  /\ grace' = Grace
  /\ restart' = "idle"
  /\ UNCHANGED <<panelOnly, unit, mine>>
-----------------------------------------------------------------------------
(* The watcher *)

\* all_health: the status as it is now, judged a moment later.
Read ==
  /\ watch.at = "idle"
  /\ watch' = [at |-> "judge", status |-> unit]
  /\ UNCHANGED <<unit, lastSeen, grace, restart, mine, reported>>

\* A poll that cannot read statuses is skipped; one in a grace period succeeds.
ReadFails ==
  /\ watch.at = "idle"
  /\ grace > 1
  /\ grace' = grace - 1
  /\ UNCHANGED <<unit, lastSeen, watch, restart, mine, reported>>

\* Mutant: a restart shows only by the state in between.
StateChanged(prev, now) == now.state = "active" /\ prev.state # "active"

\* unit_change_events: a new ActiveEnterTimestamp.
Restarted(prev, now) == now.entered # 0 /\ now.entered # prev.entered

\* Mutant: what was suppressed is looked at again.
RememberUnlessSuppressed(now) == IF grace > 0 THEN lastSeen ELSE now

\* Mutant: the status before a restart is kept.
RememberQuiet(now) == IF lastSeen # Unseen /\ Restarted(lastSeen, now) THEN lastSeen ELSE now

\* What the next poll compares with: what this one saw.
Remembered(now) == now

Judge ==
  /\ watch.at = "judge"
  /\ reported' =
       IF lastSeen # Unseen /\ Restarted(lastSeen, watch.status) /\ grace = 0
         THEN [reported EXCEPT ![watch.status.entered] = @ + 1]
         ELSE reported
  /\ lastSeen' = Remembered(watch.status)
  /\ grace' = IF grace > 0 THEN grace - 1 ELSE 0
  /\ watch' = [at |-> "idle"]
  /\ UNCHANGED <<unit, restart, mine>>
-----------------------------------------------------------------------------
UnitNext ==
  \/ OutsideStart \/ End
  \/ BeginRestart \/ EndRestart \/ Note
  \/ Read \/ ReadFails \/ Judge

UnitSpec == UnitInit /\ [][UnitNext]_unitVars
-----------------------------------------------------------------------------
(* Properties *)

\* The panel's own restart is reported as unexpected only by a poll that falls
\* between systemctl's return and the note.
OwnRestartNotReported ==
  [][\A s \in mine : reported'[s] > reported[s] => restart = "unnoted"]_unitVars

\* A start is reported at most once, however polls, failed reads and grace
\* periods fall.
ReportedOnce == \A s \in Starts : reported[s] <= 1

\* A start behind the panel's back is reported, unless another start hides it or
\* the panel restarts the unit before it is.
OutsideStartReported ==
  \A s \in Starts :
    /\ unit.entered = s /\ s \notin mine
    /\ lastSeen # Unseen /\ lastSeen.entered # s
    /\ grace = 0
    ~> reported[s] > 0 \/ unit.entered # s \/ grace > 0
=============================================================================
