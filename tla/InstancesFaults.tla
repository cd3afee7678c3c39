-------------------------- MODULE InstancesFaults --------------------------
(***************************************************************************)
(* Instances under what the panel does not control: a client that goes     *)
(* away, the panel or the host going down between two steps of a call, and *)
(* units restarted by someone else.                                        *)
(***************************************************************************)
EXTENDS Instances

CONSTANT Events     \* which of them happen

ASSUME EventsAssumption == Events \subseteq {"cancel", "crash", "reboot", "outside"}

VARIABLE damaged    \* the instances whose stores may be wrong, see below

varsFaults == <<vars, damaged>>

\* History: a call for the instance ended early, or its process was restarted with
\* a config the panel knew was pending.  A restart through the panel that
\* succeeds heals it.
Damage(S) == damaged' = damaged \cup S
Held(r) == {n \in Names : lock[n] = r}
Healed(r) ==
    IF At(r, "record2") /\ req[r].op \notin {"create", "rename"} THEN {req[r].name} ELSE {}

\* A handler is a future that axum drops when the client's connection closes:
\* the call stops at whatever await it is at, its guards drop, nothing is rolled
\* back.
Cancel(r) ==
    /\ "cancel" \in Events
    /\ ~At(r, "idle")
    /\ req' = [req EXCEPT ![r] = Idle]
    /\ lock' = [n \in Names |-> IF lock[n] = r THEN None ELSE lock[n]]
    /\ Halfway(req[r]) \/ UNCHANGED <<pending, options, host>>
    /\ UNCHANGED <<disk, pendingFile, started, applied>>

\* The panel process ends and is started again: only the files remain.
PanelDown ==
    /\ req' = [r \in Requests |-> Idle]
    /\ lock' = [n \in Names |-> None]
    /\ pending' = pendingFile
    /\ UNCHANGED <<disk, pendingFile, started, applied, options, unit>>

Interrupted == {n \in Names : lock[n] # None}

Crash ==
    /\ "crash" \in Events
    /\ PanelDown
    /\ Damage(Interrupted)
    /\ UNCHANGED proc

\* systemd starts every enabled unit at boot, with the file on disk.
Reboot ==
    /\ "reboot" \in Events
    /\ PanelDown
    /\ proc' = [n \in Names |->
                  IF unit[n] # None /\ disk[n] # None THEN Loaded(n) ELSE None]
    /\ Damage(Interrupted \cup pending)

\* `systemctl restart` typed by an operator.
OutsideRestart(n) ==
    /\ "outside" \in Events
    /\ unit[n] # None /\ disk[n] # None
    /\ proc' = [proc EXCEPT ![n] = Loaded(n)]
    /\ Damage({n} \cap (Interrupted \cup pending))
    /\ UNCHANGED <<stores, unit, lock, req>>

InitFaults == Init /\ damaged = {}

NextFaults ==
    \/ \E r \in Requests :
         \/ (Arrive(r) \/ Proceed(r)) /\ damaged' = damaged \ Healed(r)
         \/ (GiveUp(r) \/ Cancel(r)) /\ Damage(Held(r))
    \/ Crash
    \/ Reboot
    \/ \E n \in Names : OutsideRestart(n) \/ (Exit(n) /\ UNCHANGED damaged)

SpecFaults == InitFaults /\ [][NextFaults]_varsFaults

-----------------------------------------------------------------------------
\* Whatever is interrupted, fails or happens behind the panel's back harms only the
\* instance concerned, and only until the next restart through the panel that
\* succeeds: every other instance still satisfies PendingSound and BaselineSound.
DamageContained == \A n \in Names \ damaged :
    Free(n) /\ disk[n] # None /\ proc[n] # None
        => /\ n \notin pending => RunsItsFile(n)
           /\ started[n] # None => BaselineTrue(n)
=============================================================================
