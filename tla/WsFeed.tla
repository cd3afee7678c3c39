-------------------------------- MODULE WsFeed --------------------------------
(***************************************************************************)
(* The event feed (panel/src/http/ws.rs): clients that join, fall behind    *)
(* and leave; the health watcher that publishes a status only when it       *)
(* differs from what it published last; and the hardware topic, sent only   *)
(* while somebody is subscribed to it.                                      *)
(***************************************************************************)
EXTENDS Integers, Sequences, FiniteSets

CONSTANTS
  Clients,
  MaxStatus,   \* bound: changes of the units' status
  Capacity     \* of the broadcast channel (256)

ASSUME WsFeedAssumption ==
  MaxStatus \in Nat /\ Capacity \in Nat \ {0} /\ IsFiniteSet(Clients)

VARIABLES
  status,    \* what all_health would return, as the number of its last change
  pc,        \* a client: off, joining (subscribed), greeting (its snapshot read), or ready
  queue,     \* what its receiver has yet to take
  lagged,    \* whether its receiver has lost messages
  shown,     \* the status its browser shows
  active,    \* HardwareSubscription::active
  count,     \* hardware_subscribers
  watcher,   \* health_watcher: waiting, or with a status it has read
  sent       \* health_watcher's `last`

feedVars == <<status, pc, queue, lagged, shown, active, count, watcher, sent>>

Unset == -1
Frame == Unset           \* a hardware frame, among the health messages

\* Mutant: a client subscribes when it has been sent its snapshot.
Greeted == {c \in Clients : pc[c] = "ready"}

\* The clients with a receiver.
Receivers == {c \in Clients : pc[c] # "off"}

FeedInit ==
  /\ status = 0
  /\ pc = [c \in Clients |-> "off"]
  /\ queue = [c \in Clients |-> <<>>]
  /\ lagged = [c \in Clients |-> FALSE]
  /\ shown = [c \in Clients |-> Unset]
  /\ active = [c \in Clients |-> FALSE]
  /\ count = 0
  /\ watcher = [at |-> "idle"]
  /\ sent = Unset

Change ==
  /\ status < MaxStatus
  /\ status' = status + 1
  /\ UNCHANGED <<pc, queue, lagged, shown, active, count, watcher, sent>>
-----------------------------------------------------------------------------
(* broadcast::Sender::send *)

\* A full receiver loses its oldest message and learns of it.
Send(m) ==
  /\ queue' = [c \in Clients |->
                 IF c \notin Receivers THEN <<>>
                 ELSE IF Len(queue[c]) = Capacity THEN Append(Tail(queue[c]), m)
                 ELSE Append(queue[c], m)]
  /\ lagged' = [c \in Clients |->
                  lagged[c] \/ (c \in Receivers /\ Len(queue[c]) = Capacity)]
-----------------------------------------------------------------------------
(* client *)

\* The client subscribes before anything else.
Join(c) ==
  /\ pc[c] = "off"
  /\ pc' = [pc EXCEPT ![c] = "joining"]
  /\ UNCHANGED <<status, queue, lagged, shown, active, count, watcher, sent>>

\* The status as it is now is read, and on its way to the client.
Snapshot(c) ==
  /\ pc[c] = "joining"
  /\ pc' = [pc EXCEPT ![c] = "greeting"]
  /\ shown' = [shown EXCEPT ![c] = status]
  /\ UNCHANGED <<status, queue, lagged, active, count, watcher, sent>>

Greet(c) ==
  /\ pc[c] = "greeting"
  /\ pc' = [pc EXCEPT ![c] = "ready"]
  /\ UNCHANGED <<status, queue, lagged, shown, active, count, watcher, sent>>

\* Mutant: a repeated message counts again.
CountAlways(c, on) == IF on THEN count + 1 ELSE IF active[c] THEN count - 1 ELSE count

\* HardwareSubscription::set.
Counted(c, on) ==
  IF on = active[c] THEN count ELSE IF on THEN count + 1 ELSE count - 1

\* The connection ends, however it does; the guard takes the client out again.
Leave(c) ==
  /\ pc' = [pc EXCEPT ![c] = "off"]
  /\ queue' = [queue EXCEPT ![c] = <<>>]
  /\ lagged' = [lagged EXCEPT ![c] = FALSE]
  /\ shown' = [shown EXCEPT ![c] = Unset]
  /\ count' = Counted(c, FALSE)
  /\ active' = [active EXCEPT ![c] = FALSE]
  /\ UNCHANGED <<status, watcher, sent>>

\* It goes away, at any await.
Disconnect(c) == pc[c] # "off" /\ Leave(c)

\* It has fallen behind and is closed.
Lag(c) == pc[c] = "ready" /\ lagged[c] /\ Leave(c)

Deliver(c) ==
  /\ pc[c] = "ready"
  /\ ~lagged[c]
  /\ queue[c] # <<>>
  /\ shown' = [shown EXCEPT ![c] = IF Head(queue[c]) = Frame THEN @ ELSE Head(queue[c])]
  /\ queue' = [queue EXCEPT ![c] = Tail(@)]
  /\ UNCHANGED <<status, pc, lagged, active, count, watcher, sent>>

\* A subscribe or unsubscribe message, repeated or not.
SetHardware(c, on) ==
  /\ pc[c] = "ready"
  /\ count' = Counted(c, on)
  /\ active' = [active EXCEPT ![c] = on]
  /\ UNCHANGED <<status, pc, queue, lagged, shown, watcher, sent>>
-----------------------------------------------------------------------------
(* The watchers *)

\* health_watcher: nobody listens, or the status is read.
Tick ==
  /\ watcher.at = "idle"
  /\ IF Receivers = {}
       THEN sent' = Unset /\ UNCHANGED watcher
       ELSE watcher' = [at |-> "publish", status |-> status] /\ UNCHANGED sent
  /\ UNCHANGED <<status, pc, queue, lagged, shown, active, count>>

\* Mutant: only the first status is news.
NewsOnce == sent = Unset

\* Whether what was read is news.
News == watcher.status # sent

Publish ==
  /\ watcher.at = "publish"
  /\ IF News
       THEN Send(watcher.status) /\ sent' = watcher.status
       ELSE UNCHANGED <<queue, lagged, sent>>
  /\ watcher' = [at |-> "idle"]
  /\ UNCHANGED <<status, pc, shown, active, count>>

\* hardware_watcher, while it is watched.
HardwareTick ==
  /\ count > 0
  /\ Send(Frame)
  /\ UNCHANGED <<status, pc, shown, active, count, watcher, sent>>
-----------------------------------------------------------------------------
ClientStep(c) == Snapshot(c) \/ Greet(c) \/ Deliver(c) \/ Lag(c)

FeedNext ==
  \/ Change
  \/ \E c \in Clients :
       \/ Join(c) \/ Disconnect(c) \/ ClientStep(c)
       \/ \E on \in BOOLEAN : SetHardware(c, on)
  \/ Tick \/ Publish \/ HardwareTick

FeedSpec == FeedInit /\ [][FeedNext]_feedVars
-----------------------------------------------------------------------------
(* Properties *)

Behind(c) == queue[c] # <<>> \/ lagged[c]

\* Once the watcher has published the current status, every connected browser
\* that is not still to receive something shows it: nothing falls between a
\* client's snapshot and its subscription, or is overwritten by an older event.
NobodyIsStale ==
  sent = status =>
    \A c \in Clients : pc[c] = "ready" /\ ~Behind(c) => shown[c] = status

\* A connected browser comes to show the current status, or is closed so that it
\* reconnects, unless the status goes on changing.
CatchesUp ==
  \A c \in Clients :
    pc[c] = "ready" ~> pc[c] = "off" \/ shown[c] = status

\* hardware_subscribers counts the subscribed clients, whatever they repeat and
\* however they leave.
CountIsSubscribers == count = Cardinality({c \in Clients : active[c]})
=============================================================================
