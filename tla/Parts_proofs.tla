----------------------------- MODULE Parts_proofs -----------------------------
(***************************************************************************)
(* Proofs about the parts that share no state with the instance handlers:   *)
(* the event feed and the rate limiter of the HTTP server, and what the     *)
(* panel's own tasks make of the processes: the rates of the Hardware page, *)
(* the Overview's totals with the error log's counter events, the unit      *)
(* watcher, and the table of repeated lines.                                *)
(***************************************************************************)
EXTENDS WsFeed, RateLimiter, HardwareRates, StatsBaseline, UnitWatch, Journal,
        FiniteSetTheorems, TLAPS

(***************************************************************************)
(* Proofs about WsFeed, for any set of clients, any channel capacity and    *)
(* any number of changes: no connected browser is left with an old status,  *)
(* and the count of hardware subscribers is right.  The argument: a client  *)
(* subscribes before it reads its snapshot, so the last status on its way   *)
(* to it is the one published last, and without one on its way the snapshot *)
(* is as new as whatever has been published since.                          *)
(***************************************************************************)
\* The last status among q's messages, if there is one, is s.
LastIs(q, s) ==
  \A i \in 1..Len(q) : (q[i] # Frame /\ \A j \in (i + 1)..Len(q) : q[j] = Frame) => q[i] = s

NoStatusIn(q) == \A i \in 1..Len(q) : q[i] = Frame

FeedTypes ==
  /\ status \in Nat
  /\ pc \in [Clients -> {"off", "joining", "greeting", "ready"}]
  /\ queue \in [Clients -> Seq(Int)]
  /\ lagged \in [Clients -> BOOLEAN]
  /\ shown \in [Clients -> Int]
  /\ active \in [Clients -> BOOLEAN]
  /\ count \in Nat
  /\ sent \in {Unset} \cup 0..status
  /\ watcher = [at |-> "idle"] \/ (watcher = [at |-> "publish", status |-> watcher.status]
                                  /\ watcher.status \in 0..status)

\* The last status on the way to a client is the last one published.
QueuesSound == \A c \in Clients : pc[c] # "off" /\ ~lagged[c] => LastIs(queue[c], sent)

\* A client with nothing on the way has a snapshot as new as what was published.
SnapshotsSound ==
  \A c \in Clients :
    pc[c] \in {"greeting", "ready"} /\ ~lagged[c] /\ NoStatusIn(queue[c]) /\ sent = status =>
      shown[c] = status

OffIsEmpty == \A c \in Clients : pc[c] = "off" => queue[c] = <<>> /\ ~active[c]

FeedInv == FeedTypes /\ QueuesSound /\ SnapshotsSound /\ OffIsEmpty /\ CountIsSubscribers

LEMMA InitFeedInv == FeedInit => FeedInv
<1> SUFFICES ASSUME FeedInit PROVE FeedInv
  OBVIOUS
<1>1. FeedTypes
  BY DEF FeedInit, FeedTypes, Unset
<1>2. QueuesSound /\ SnapshotsSound /\ OffIsEmpty
  BY DEF FeedInit, QueuesSound, SnapshotsSound, OffIsEmpty
<1>3. {c \in Clients : active[c]} = {}
  BY DEF FeedInit
<1>4. CountIsSubscribers
  BY <1>3, FS_EmptySet DEF FeedInit, CountIsSubscribers
<1> QED BY <1>1, <1>2, <1>4 DEF FeedInv

\* Counting: a client that changes its subscription changes the count by one.
LEMMA CountedRight ==
  ASSUME FeedInv, NEW c \in Clients, NEW on \in BOOLEAN,
         count' = Counted(c, on), active' = [active EXCEPT ![c] = on]
  PROVE  CountIsSubscribers' /\ count' \in Nat /\ active' \in [Clients -> BOOLEAN]
<1> DEFINE S == {d \in Clients : active[d]}
<1>1. active \in [Clients -> BOOLEAN] /\ active' \in [Clients -> BOOLEAN]
  BY DEF FeedInv, FeedTypes
<1>2. IsFiniteSet(S) /\ count = Cardinality(S) /\ Cardinality(S) \in Nat
  <2>1. IsFiniteSet(S)
    BY WsFeedAssumption, FS_Subset
  <2> QED BY <2>1, FS_CardinalityType DEF FeedInv, CountIsSubscribers
<1>3. CASE on = active[c]
  <2>1. active' = active
    BY <1>1, <1>3
  <2>2. count' = count
    BY <1>3, Zenon DEF Counted
  <2>3. count' \in Nat
    BY <2>2 DEF FeedInv, FeedTypes
  <2>4. {d \in Clients : active'[d]} = S
    BY <2>1
  <2> HIDE DEF S
  <2> QED BY <1>1, <1>2, <2>2, <2>3, <2>4 DEF CountIsSubscribers
<1>4. CASE on # active[c] /\ on
  <2>1. {d \in Clients : active'[d]} = S \cup {c} /\ c \notin S
    BY <1>1, <1>4
  <2>2. Cardinality(S \cup {c}) = Cardinality(S) + 1
    BY <1>2, <2>1, FS_AddElement
  <2>3. count' = count + 1
    BY <1>4 DEF Counted
  <2>4. count' = Cardinality({d \in Clients : active'[d]})
    BY <1>2, <2>1, <2>2, <2>3
  <2>5. count' \in Nat
    BY <1>2, <2>3
  <2> QED BY <1>1, <2>4, <2>5 DEF CountIsSubscribers
<1>5. CASE on # active[c] /\ ~on
  <2>1. {d \in Clients : active'[d]} = S \ {c} /\ c \in S
    BY <1>1, <1>5
  <2>2. Cardinality(S \ {c}) = Cardinality(S) - 1 /\ IsFiniteSet(S \ {c})
    BY <1>2, <2>1, FS_RemoveElement
  <2>3. count' = count - 1 /\ Cardinality(S \ {c}) \in Nat
    BY <1>5, <2>2, FS_CardinalityType DEF Counted
  <2>4. count' = Cardinality({d \in Clients : active'[d]})
    BY <1>2, <2>1, <2>2, <2>3
  <2>5. count' \in Nat
    BY <1>2, <2>2, <2>3
  <2> QED BY <1>1, <2>4, <2>5 DEF CountIsSubscribers
<1> QED BY <1>3, <1>4, <1>5

(***************************************************************************)
(* Sending.                                                                *)
(***************************************************************************)
LEMMA LastAppended ==
  ASSUME NEW q \in Seq(Int), NEW m \in Int
  PROVE  /\ Append(q, m) \in Seq(Int)
         /\ m # Frame => LastIs(Append(q, m), m) /\ ~NoStatusIn(Append(q, m))
         /\ m = Frame => /\ \A s : LastIs(q, s) => LastIs(Append(q, m), s)
                         /\ NoStatusIn(Append(q, m)) => NoStatusIn(q)
<1>1. /\ Append(q, m) \in Seq(Int) /\ Len(q) \in Nat /\ Len(Append(q, m)) = Len(q) + 1
      /\ \A i \in 1..Len(q) : Append(q, m)[i] = q[i]
      /\ Append(q, m)[Len(q) + 1] = m
  OBVIOUS
<1>2. ASSUME m # Frame
      PROVE  LastIs(Append(q, m), m) /\ ~NoStatusIn(Append(q, m))
  <2>1. Len(q) + 1 \in 1..Len(Append(q, m))
    BY <1>1
  <2>2. \A i \in 1..Len(Append(q, m)) :
          i = Len(q) + 1 \/ Len(q) + 1 \in (i + 1)..Len(Append(q, m))
    BY <1>1
  <2> QED BY <1>1, <1>2, <2>1, <2>2 DEF LastIs, NoStatusIn
<1>3. ASSUME m = Frame, NEW s, LastIs(q, s)
      PROVE  LastIs(Append(q, m), s)
  <2> SUFFICES ASSUME NEW i \in 1..Len(Append(q, m)), Append(q, m)[i] # Frame,
                      \A j \in (i + 1)..Len(Append(q, m)) : Append(q, m)[j] = Frame
               PROVE  Append(q, m)[i] = s
    BY DEF LastIs
  <2>1. i \in 1..Len(q)
    BY <1>1, <1>3
  <2>2. \A j \in (i + 1)..Len(q) : q[j] = Frame
    <3> SUFFICES ASSUME NEW j \in (i + 1)..Len(q) PROVE q[j] = Frame
      OBVIOUS
    <3>1. j \in (i + 1)..Len(Append(q, m)) /\ j \in 1..Len(q)
      BY <1>1, <2>1
    <3> QED BY <1>1, <3>1
  <2> QED BY <1>1, <1>3, <2>1, <2>2 DEF LastIs
<1>4. NoStatusIn(Append(q, m)) => NoStatusIn(q)
  BY <1>1 DEF NoStatusIn
<1> QED BY <1>1, <1>2, <1>3, <1>4

LEMMA SendMoves ==
  ASSUME FeedInv, NEW m \in Int, Send(m)
  PROVE  /\ queue' \in [Clients -> Seq(Int)] /\ lagged' \in [Clients -> BOOLEAN]
         /\ \A c \in Clients : pc[c] = "off" => queue'[c] = <<>>
         /\ \A c \in Clients : pc[c] # "off" /\ ~lagged'[c] =>
              ~lagged[c] /\ queue'[c] = Append(queue[c], m)
<1>1. queue \in [Clients -> Seq(Int)] /\ lagged \in [Clients -> BOOLEAN] /\ Capacity \in Nat \ {0}
  BY WsFeedAssumption DEF FeedInv, FeedTypes
<1>2. ASSUME NEW c \in Clients
      PROVE  queue'[c] \in Seq(Int)
  <2>1. queue[c] \in Seq(Int)
    BY <1>1
  <2>2. Append(queue[c], m) \in Seq(Int)
    BY <2>1
  <2>3. CASE c \in Receivers /\ Len(queue[c]) = Capacity
    <3>1. queue[c] # <<>>
      BY <1>1, <2>3
    <3>2. Tail(queue[c]) \in Seq(Int)
      BY <2>1, <3>1
    <3> QED BY <2>3, <3>2 DEF Send
  <2> QED BY <2>2, <2>3 DEF Send
<1>3. queue' \in [Clients -> Seq(Int)]
  <2>1. queue' = [c \in Clients |-> queue'[c]]
    BY DEF Send
  <2> QED BY <1>2, <2>1
<1> QED BY <1>1, <1>3 DEF Send, Receivers

LEMMA TailMoves ==
  ASSUME NEW q \in Seq(Int), q # <<>>
  PROVE  /\ Tail(q) \in Seq(Int) /\ Head(q) \in Int
         /\ \A s : LastIs(q, s) => LastIs(Tail(q), s)
         /\ NoStatusIn(Tail(q)) /\ Head(q) = Frame => NoStatusIn(q)
         /\ NoStatusIn(Tail(q)) /\ Head(q) # Frame => \A s : LastIs(q, s) => Head(q) = s
<1>1. /\ Tail(q) \in Seq(Int) /\ Head(q) \in Int /\ Len(q) \in Nat \ {0} /\ Head(q) = q[1]
      /\ Len(Tail(q)) = Len(q) - 1
      /\ \A i \in 1..Len(Tail(q)) : Tail(q)[i] = q[i + 1]
  OBVIOUS
<1>2. ASSUME NEW s, LastIs(q, s)
      PROVE  LastIs(Tail(q), s)
  <2> SUFFICES ASSUME NEW i \in 1..Len(Tail(q)), Tail(q)[i] # Frame,
                      \A j \in (i + 1)..Len(Tail(q)) : Tail(q)[j] = Frame
               PROVE  Tail(q)[i] = s
    BY DEF LastIs
  <2>1. i + 1 \in 1..Len(q) /\ q[i + 1] # Frame /\ Tail(q)[i] = q[i + 1]
    BY <1>1
  <2>2. \A j \in (i + 2)..Len(q) : q[j] = Frame
    <3> SUFFICES ASSUME NEW j \in (i + 2)..Len(q) PROVE q[j] = Frame
      OBVIOUS
    <3>1. j - 1 \in (i + 1)..Len(Tail(q)) /\ j - 1 \in 1..Len(Tail(q)) /\ (j - 1) + 1 = j
      <4>1. Len(q) \in Nat /\ Len(Tail(q)) = Len(q) - 1 /\ i \in 1..(Len(q) - 1)
        BY <1>1
      <4> HIDE DEF LastIs
      <4> QED BY <4>1
    <3> QED BY <1>1, <3>1
  <2>3. (i + 1) + 1 = i + 2
    OBVIOUS
  <2> QED BY <1>2, <2>1, <2>2, <2>3 DEF LastIs
<1>3. ASSUME NoStatusIn(Tail(q))
      PROVE  \A j \in 2..Len(q) : q[j] = Frame
  <2> SUFFICES ASSUME NEW j \in 2..Len(q) PROVE q[j] = Frame
    OBVIOUS
  <2>1. j - 1 \in 1..Len(Tail(q)) /\ (j - 1) + 1 = j
    BY <1>1
  <2> QED BY <1>1, <1>3, <2>1 DEF NoStatusIn
<1>4. ASSUME NoStatusIn(Tail(q)), Head(q) = Frame
      PROVE  NoStatusIn(q)
  <2>1. \A j \in 1..Len(q) : j = 1 \/ j \in 2..Len(q)
    BY <1>1
  <2> QED BY <1>1, <1>3, <1>4, <2>1 DEF NoStatusIn
<1>5. ASSUME NoStatusIn(Tail(q)), Head(q) # Frame, NEW s, LastIs(q, s)
      PROVE  Head(q) = s
  <2>1. 1 \in 1..Len(q) /\ 1 + 1 = 2
    BY <1>1
  <2> QED BY <1>1, <1>3, <1>5, <2>1 DEF LastIs
<1> QED BY <1>1, <1>2, <1>4, <1>5

(***************************************************************************)
(* The steps.                                                              *)
(***************************************************************************)
LEMMA ClientInv ==
  ASSUME FeedInv, NEW c \in Clients, Join(c) \/ Snapshot(c) \/ Greet(c)
  PROVE  FeedInv'
<1>1. /\ pc[c] # "ready"
      /\ \E p \in {"joining", "greeting", "ready"}, s \in {shown[c], status} :
           pc' = [pc EXCEPT ![c] = p] /\ shown' = [shown EXCEPT ![c] = s]
      /\ UNCHANGED <<status, queue, lagged, active, count, watcher, sent>>
  BY DEF FeedInv, FeedTypes, Join, Snapshot, Greet
<1>2. pc' \in [Clients -> {"off", "joining", "greeting", "ready"}] /\ shown' \in [Clients -> Int]
  BY <1>1 DEF FeedInv, FeedTypes
<1>3. FeedTypes'
  BY <1>1, <1>2 DEF FeedInv, FeedTypes
<1>4. QueuesSound'
  <2>1. pc[c] = "off" => LastIs(queue[c], sent)
    BY DEF FeedInv, OffIsEmpty, LastIs
  <2> QED BY <1>1, <2>1 DEF FeedInv, FeedTypes, QueuesSound
<1>5. SnapshotsSound'
  <2> SUFFICES ASSUME NEW d \in Clients, pc'[d] \in {"greeting", "ready"}, ~lagged[d],
                      NoStatusIn(queue[d]), sent = status
               PROVE  shown'[d] = status
    BY <1>1 DEF SnapshotsSound
  <2>1. CASE d = c /\ Snapshot(c)
    <3>1. shown' = [shown EXCEPT ![c] = status] /\ shown \in [Clients -> Int]
      BY <2>1 DEF Snapshot, FeedInv, FeedTypes
    <3> QED BY <2>1, <3>1
  <2>2. CASE d # c \/ Greet(c)
    BY <1>1, <2>2 DEF FeedInv, FeedTypes, SnapshotsSound, Greet
  <2>3. CASE d = c /\ Join(c)
    BY <2>3 DEF Join, FeedInv, FeedTypes
  <2> QED BY <2>1, <2>2, <2>3
<1>6. OffIsEmpty'
  BY <1>1 DEF FeedInv, FeedTypes, OffIsEmpty
<1>7. CountIsSubscribers'
  BY <1>1 DEF FeedInv, CountIsSubscribers
<1> QED BY <1>3, <1>4, <1>5, <1>6, <1>7 DEF FeedInv

LEMMA LeaveInv ==
  ASSUME FeedInv, NEW c \in Clients, Leave(c)
  PROVE  FeedInv'
<1>1. /\ pc' = [pc EXCEPT ![c] = "off"] /\ queue' = [queue EXCEPT ![c] = <<>>]
      /\ lagged' = [lagged EXCEPT ![c] = FALSE] /\ shown' = [shown EXCEPT ![c] = Unset]
      /\ count' = Counted(c, FALSE) /\ active' = [active EXCEPT ![c] = FALSE]
      /\ UNCHANGED <<status, watcher, sent>>
  BY DEF Leave
<1>2. CountIsSubscribers' /\ count' \in Nat /\ active' \in [Clients -> BOOLEAN]
  BY <1>1, CountedRight
<1>3. <<>> \in Seq(Int) /\ Unset \in Int
  BY DEF Unset
<1>4. FeedTypes'
  BY <1>1, <1>2, <1>3 DEF FeedInv, FeedTypes
<1>5. QueuesSound' /\ SnapshotsSound' /\ OffIsEmpty'
  BY <1>1 DEF FeedInv, FeedTypes, QueuesSound, SnapshotsSound, OffIsEmpty
<1> QED BY <1>2, <1>4, <1>5 DEF FeedInv

LEMMA SetHardwareInv ==
  ASSUME FeedInv, NEW c \in Clients, NEW on \in BOOLEAN, SetHardware(c, on)
  PROVE  FeedInv'
<1>1. /\ pc[c] = "ready" /\ count' = Counted(c, on) /\ active' = [active EXCEPT ![c] = on]
      /\ UNCHANGED <<status, pc, queue, lagged, shown, watcher, sent>>
  BY DEF SetHardware
<1>2. CountIsSubscribers' /\ count' \in Nat /\ active' \in [Clients -> BOOLEAN]
  BY <1>1, CountedRight
<1>3. FeedTypes'
  BY <1>1, <1>2 DEF FeedInv, FeedTypes
<1>4. QueuesSound' /\ SnapshotsSound' /\ OffIsEmpty'
  BY <1>1 DEF FeedInv, FeedTypes, QueuesSound, SnapshotsSound, OffIsEmpty
<1> QED BY <1>2, <1>3, <1>4 DEF FeedInv

LEMMA DeliverInv ==
  ASSUME FeedInv, NEW c \in Clients, Deliver(c)
  PROVE  FeedInv'
<1> DEFINE q == queue[c]
<1>1. /\ pc[c] = "ready" /\ ~lagged[c] /\ q # <<>> /\ q \in Seq(Int)
      /\ shown' = [shown EXCEPT ![c] = IF Head(q) = Frame THEN @ ELSE Head(q)]
      /\ queue' = [queue EXCEPT ![c] = Tail(q)]
      /\ UNCHANGED <<status, pc, lagged, active, count, watcher, sent>>
  BY DEF Deliver, FeedInv, FeedTypes
<1>2. /\ shown'[c] = (IF Head(q) = Frame THEN shown[c] ELSE Head(q)) /\ queue'[c] = Tail(q)
      /\ \A d \in Clients : d # c => shown'[d] = shown[d] /\ queue'[d] = queue[d]
  BY <1>1 DEF FeedInv, FeedTypes
<1>3. LastIs(q, sent)
  BY <1>1 DEF FeedInv, QueuesSound
<1>4. NoStatusIn(q) /\ sent = status => shown[c] = status
  BY <1>1 DEF FeedInv, SnapshotsSound
<1> HIDE DEF q
<1>5. FeedTypes'
  <2>1. Tail(q) \in Seq(Int) /\ Head(q) \in Int
    BY <1>1, TailMoves
  <2>2. queue' \in [Clients -> Seq(Int)] /\ shown' \in [Clients -> Int]
    BY <1>1, <2>1 DEF FeedInv, FeedTypes
  <2> QED BY <1>1, <2>2 DEF FeedInv, FeedTypes
<1>6. QueuesSound'
  <2>1. LastIs(Tail(q), sent)
    BY <1>1, <1>3, TailMoves
  <2> QED BY <1>1, <1>2, <2>1 DEF FeedInv, QueuesSound
<1>7. SnapshotsSound'
  <2>1. NoStatusIn(Tail(q)) /\ sent = status => shown'[c] = status
    BY <1>1, <1>2, <1>3, <1>4, TailMoves
  <2> QED BY <1>1, <1>2, <2>1 DEF FeedInv, SnapshotsSound
<1>8. OffIsEmpty' /\ CountIsSubscribers'
  BY <1>1, <1>2 DEF FeedInv, OffIsEmpty, CountIsSubscribers
<1> QED BY <1>5, <1>6, <1>7, <1>8 DEF FeedInv

LEMMA WatcherInv ==
  ASSUME FeedInv, Change \/ Tick
  PROVE  FeedInv'
<1>1. CASE Change
  <2>1. status' = status + 1 /\ UNCHANGED <<pc, queue, lagged, shown, active, count, watcher, sent>>
    BY <1>1 DEF Change
  <2>2. FeedTypes' /\ sent # status'
    BY <2>1 DEF FeedInv, FeedTypes, Unset
  <2> QED BY <2>1, <2>2 DEF FeedInv, QueuesSound, SnapshotsSound, OffIsEmpty, CountIsSubscribers
<1>2. CASE Tick /\ Receivers = {}
  <2>1. sent' = Unset /\ UNCHANGED <<status, pc, queue, lagged, shown, active, count, watcher>>
    BY <1>2 DEF Tick
  <2>2. FeedTypes' /\ \A c \in Clients : pc[c] = "off"
    BY <1>2, <2>1 DEF FeedInv, FeedTypes, Receivers
  <2> QED BY <2>1, <2>2 DEF FeedInv, QueuesSound, SnapshotsSound, OffIsEmpty, CountIsSubscribers
<1>3. CASE Tick /\ Receivers # {}
  <2>1. /\ watcher' = [at |-> "publish", status |-> status]
        /\ UNCHANGED <<status, pc, queue, lagged, shown, active, count, sent>>
    BY <1>3 DEF Tick
  <2>2. FeedTypes'
    BY <2>1 DEF FeedInv, FeedTypes
  <2> QED BY <2>1, <2>2 DEF FeedInv, QueuesSound, SnapshotsSound, OffIsEmpty, CountIsSubscribers
<1> QED BY <1>1, <1>2, <1>3

LEMMA PublishInv ==
  ASSUME FeedInv, Publish
  PROVE  FeedInv'
<1> DEFINE m == watcher.status
<1>1. /\ m \in 0..status /\ watcher' = [at |-> "idle"] /\ UNCHANGED <<status, pc, shown, active, count>>
      /\ \/ Send(m) /\ sent' = m
         \/ UNCHANGED <<queue, lagged, sent>>
  BY DEF Publish, FeedInv, FeedTypes
<1> HIDE DEF m
<1>2. CASE UNCHANGED <<queue, lagged, sent>>
  BY <1>1, <1>2 DEF FeedInv, FeedTypes, QueuesSound, SnapshotsSound, OffIsEmpty, CountIsSubscribers
<1>3. CASE Send(m) /\ sent' = m
  <2>1. m \in Int /\ m # Frame /\ m \in 0..status
    BY <1>1 DEF FeedInv, FeedTypes, Frame, Unset
  <2>2. /\ queue' \in [Clients -> Seq(Int)] /\ lagged' \in [Clients -> BOOLEAN]
        /\ \A c \in Clients : pc[c] = "off" => queue'[c] = <<>>
        /\ \A c \in Clients : pc[c] # "off" /\ ~lagged'[c] => queue'[c] = Append(queue[c], m)
    BY <1>3, <2>1, SendMoves
  <2>3. FeedTypes'
    BY <1>1, <1>3, <2>1, <2>2 DEF FeedInv, FeedTypes
  <2>4. \A c \in Clients : pc[c] # "off" /\ ~lagged'[c] =>
          LastIs(queue'[c], m) /\ ~NoStatusIn(queue'[c])
    <3>1. \A c \in Clients : queue[c] \in Seq(Int)
      BY DEF FeedInv, FeedTypes
    <3> QED BY <2>1, <2>2, <3>1, LastAppended
  <2>5. QueuesSound' /\ SnapshotsSound'
    BY <1>1, <1>3, <2>4 DEF QueuesSound, SnapshotsSound
  <2>6. OffIsEmpty' /\ CountIsSubscribers'
    BY <1>1, <2>2 DEF FeedInv, OffIsEmpty, CountIsSubscribers
  <2> QED BY <2>3, <2>5, <2>6 DEF FeedInv
<1> QED BY <1>1, <1>2, <1>3

LEMMA HardwareTickInv ==
  ASSUME FeedInv, HardwareTick
  PROVE  FeedInv'
<1>1. Send(Frame) /\ UNCHANGED <<status, pc, shown, active, count, watcher, sent>>
  BY DEF HardwareTick
<1>2. Frame \in Int
  BY DEF Frame, Unset
<1>3. /\ queue' \in [Clients -> Seq(Int)] /\ lagged' \in [Clients -> BOOLEAN]
      /\ \A c \in Clients : pc[c] = "off" => queue'[c] = <<>>
      /\ \A c \in Clients : pc[c] # "off" /\ ~lagged'[c] =>
           ~lagged[c] /\ queue'[c] = Append(queue[c], Frame)
  BY <1>1, <1>2, SendMoves
<1>4. FeedTypes'
  BY <1>1, <1>3 DEF FeedInv, FeedTypes
<1>5. \A c \in Clients : pc[c] # "off" /\ ~lagged'[c] =>
        /\ \A s : LastIs(queue[c], s) => LastIs(queue'[c], s)
        /\ NoStatusIn(queue'[c]) => NoStatusIn(queue[c])
  <2>1. \A c \in Clients : queue[c] \in Seq(Int)
    BY DEF FeedInv, FeedTypes
  <2> QED BY <1>2, <1>3, <2>1, LastAppended
<1>6. QueuesSound'
  BY <1>1, <1>3, <1>5 DEF FeedInv, QueuesSound
<1>7. SnapshotsSound'
  BY <1>1, <1>3, <1>5 DEF FeedInv, SnapshotsSound
<1>8. OffIsEmpty' /\ CountIsSubscribers'
  BY <1>1, <1>3 DEF FeedInv, OffIsEmpty, CountIsSubscribers
<1> QED BY <1>4, <1>6, <1>7, <1>8 DEF FeedInv

\* The invariant of the feed holds whatever clients join, fall behind and leave.
THEOREM FeedIsSound == FeedSpec => []FeedInv
<1>1. FeedInit => FeedInv
  BY InitFeedInv
<1>2. FeedInv /\ [FeedNext]_feedVars => FeedInv'
  <2> SUFFICES ASSUME FeedInv, [FeedNext]_feedVars PROVE FeedInv'
    OBVIOUS
  <2>1. CASE Change \/ Tick
    BY <2>1, WatcherInv
  <2>2. CASE Publish
    BY <2>2, PublishInv
  <2>3. CASE HardwareTick
    BY <2>3, HardwareTickInv
  <2>4. ASSUME NEW c \in Clients, Join(c) \/ Disconnect(c) \/ ClientStep(c)
        PROVE  FeedInv'
    <3>1. \/ Join(c) \/ Snapshot(c) \/ Greet(c)
          \/ Leave(c)
          \/ Deliver(c)
      BY <2>4 DEF ClientStep, Disconnect, Lag
    <3> QED BY <3>1, ClientInv, LeaveInv, DeliverInv
  <2>5. ASSUME NEW c \in Clients, NEW on \in BOOLEAN, SetHardware(c, on)
        PROVE  FeedInv'
    BY <2>5, SetHardwareInv
  <2>6. CASE UNCHANGED feedVars
    BY <2>6 DEF feedVars, FeedInv, FeedTypes, QueuesSound, SnapshotsSound, OffIsEmpty, CountIsSubscribers
  <2> QED BY <2>1, <2>2, <2>3, <2>4, <2>5, <2>6 DEF FeedNext
<1> QED BY <1>1, <1>2, PTL DEF FeedSpec

\* Nothing is lost between a client's snapshot and its subscription, and no older
\* status overwrites a newer one (client and health_watcher, ws.rs).
THEOREM NobodyStaysStale == FeedSpec => []NobodyIsStale
<1>1. FeedInv => NobodyIsStale
  BY DEF FeedInv, SnapshotsSound, NobodyIsStale, Behind, NoStatusIn
<1> QED BY <1>1, FeedIsSound, PTL

\* hardware_subscribers is the number of subscribed clients, however often they
\* repeat themselves and however they leave (HardwareSubscription, ws.rs).
THEOREM SubscribersAreCounted == FeedSpec => []CountIsSubscribers
<1>1. FeedInv => CountIsSubscribers
  BY DEF FeedInv
<1> QED BY <1>1, FeedIsSound, PTL

-----------------------------------------------------------------------------
(***************************************************************************)
(* The rate limiter: the watched key's window against the last Window      *)
(* ticks.  While the window runs, its hits and what it let through all lie *)
(* in the ticks since it began, and what is older came from one window at  *)
(* most; once it has expired, at most one window's worth is left in sight. *)
(***************************************************************************)
WindowType == [age : 0..Window, n : Nat]

LimiterTypeOK ==
  /\ windows \in [LimitKeys -> WindowType]
  /\ subject \in LimitKeys
  /\ hits \in [Ticks -> Nat] /\ passed \in [Ticks -> Nat]
  /\ refused \in BOOLEAN

\* A longer span of ticks has no fewer hits.
Grows(f) == \A s, t \in Ticks : s <= t => f[s] <= f[t]

LimiterInv ==
  LET w == windows[subject]
  IN  /\ LimiterTypeOK
      /\ Grows(hits) /\ Grows(passed)
      /\ w.age < Window =>
           /\ w.n <= hits[w.age]
           /\ passed[w.age] <= w.n /\ passed[w.age] <= Limit(subject)
           /\ passed[Window - 1] - passed[w.age] <= Limit(subject)
      /\ w.age = Window =>
           passed[0] = 0 /\ passed[Window - 1] <= Limit(subject)
      /\ refused => w.age < Window /\ w.n > Limit(subject)

LEMMA LimitType == \A k \in LimitKeys : Limit(k) \in Nat
BY RateLimiterAssumption DEF Limit

LEMMA LimiterStart == LimiterInit => LimiterInv
<1> SUFFICES ASSUME LimiterInit PROVE LimiterInv
  OBVIOUS
<1>1. windows[subject] = NoWindow /\ subject \in LimitKeys
  BY DEF LimiterInit
<1>2. LimiterTypeOK
  <2>1. NoWindow \in WindowType
    BY RateLimiterAssumption DEF NoWindow, WindowType
  <2> QED BY <2>1 DEF LimiterInit, LimiterTypeOK
<1>3. 0 \in Ticks /\ Window - 1 \in Ticks
  BY RateLimiterAssumption DEF Ticks
<1>4. windows[subject].age = Window /\ Limit(subject) \in Nat
  BY <1>1, LimitType DEF NoWindow
<1>5. Grows(hits) /\ Grows(passed) /\ passed[0] = 0 /\ passed[Window - 1] = 0 /\ ~refused
  BY <1>3 DEF LimiterInit, Grows
<1> QED BY <1>2, <1>4, <1>5, RateLimiterAssumption DEF LimiterInv

\* What a hit does to the table: the key's own window counts it, from its start if
\* that had expired, and of the others only expired ones are dropped.
LEMMA HitWindows ==
  ASSUME LimiterTypeOK, NEW k \in LimitKeys
  PROVE  /\ Hit(k) \in [LimitKeys -> WindowType]
         /\ Hit(k)[k] = IF windows[k].age = Window THEN [age |-> 0, n |-> 1]
                        ELSE [age |-> windows[k].age, n |-> windows[k].n + 1]
         /\ \A j \in LimitKeys \ {k} :
              \/ Hit(k)[j] = windows[j]
              \/ windows[j].age = Window /\ Hit(k)[j] = NoWindow
<1>1. \A j \in LimitKeys : windows[j] \in WindowType
  BY DEF LimiterTypeOK
<1>2. NoWindow \in WindowType
  BY RateLimiterAssumption DEF NoWindow, WindowType
<1> PICK T : T = Trimmed(windows)
  OBVIOUS
<1>3. /\ T \in [LimitKeys -> WindowType]
      /\ \A j \in LimitKeys :
           T[j] = windows[j] \/ (windows[j].age = Window /\ T[j] = NoWindow)
  <2>1. \A j \in LimitKeys : windows[j].age >= Window => windows[j].age = Window
    BY <1>1, RateLimiterAssumption DEF WindowType
  <2> QED BY <1>1, <1>2, <2>1 DEF Trimmed, LimiterTypeOK
<1>4. Current(T[k]) = IF windows[k].age = Window THEN [age |-> 0, n |-> 0] ELSE windows[k]
  BY <1>1, <1>3, RateLimiterAssumption DEF Current, NoWindow, WindowType
<1>5. Hit(k) = [T EXCEPT ![k] = OneHit(Current(T[k]))]
  BY DEF Hit
<1>6. OneHit(Current(T[k])) =
        IF windows[k].age = Window THEN [age |-> 0, n |-> 1]
        ELSE [age |-> windows[k].age, n |-> windows[k].n + 1]
  BY <1>1, <1>4 DEF WindowType, OneHit
<1>7. OneHit(Current(T[k])) \in WindowType
  BY <1>1, <1>6, RateLimiterAssumption DEF WindowType
<1> QED BY <1>3, <1>5, <1>6, <1>7

LEMMA OneMoreType ==
  ASSUME NEW f \in [Ticks -> Nat], Grows(f)
  PROVE  /\ OneMore(f) \in [Ticks -> Nat] /\ Grows(OneMore(f))
         /\ \A t \in Ticks : OneMore(f)[t] = f[t] + 1
BY DEF OneMore, Grows

LEMMA CountKeeps ==
  ASSUME LimiterInv, NEW k \in LimitKeys, Count(k)
  PROVE  LimiterInv'
<1>1. LimiterTypeOK /\ Grows(hits) /\ Grows(passed) /\ subject' = subject /\ subject \in LimitKeys
  BY DEF LimiterInv, LimiterTypeOK, Count
<1>2. windows' \in [LimitKeys -> WindowType]
  BY <1>1, HitWindows DEF Count
<1>3. /\ hits' \in [Ticks -> Nat] /\ passed' \in [Ticks -> Nat]
      /\ Grows(hits') /\ Grows(passed')
  BY <1>1, OneMoreType DEF Count, LimiterTypeOK
<1>4. LimiterTypeOK'
  BY <1>1, <1>2, <1>3 DEF Count, LimiterTypeOK
<1>5. /\ 0 \in Ticks /\ Window - 1 \in Ticks /\ Limit(subject) \in Nat
      /\ windows[subject].age \in 0..Window /\ windows[subject].n \in Nat
      /\ windows[subject].age < Window => windows[subject].age \in Ticks
      /\ \A t \in Ticks : passed[t] \in Nat /\ hits[t] \in Nat
  BY <1>1, RateLimiterAssumption, LimitType DEF Ticks, LimiterTypeOK, WindowType
<1>6. CASE k # subject
  <2>1. hits' = hits /\ passed' = passed /\ refused' = FALSE
    BY <1>6 DEF Count
  <2>2. \/ windows'[subject] = windows[subject]
        \/ windows[subject].age = Window /\ windows'[subject] = NoWindow
    BY <1>1, <1>6, HitWindows DEF Count
  <2>3. windows'[subject].age = windows[subject].age
    BY <2>2 DEF NoWindow
  <2>4. windows[subject].age < Window => windows'[subject] = windows[subject]
    BY <2>2, RateLimiterAssumption
  <2> QED BY <1>1, <1>3, <1>4, <1>5, <2>1, <2>3, <2>4 DEF LimiterInv
<1>7. CASE k = subject
  <2> DEFINE w == windows[subject]
             v == windows'[subject]
  <2>1. /\ hits' = OneMore(hits)
        /\ \A t \in Ticks : hits'[t] = hits[t] + 1
        /\ passed' = IF v.n <= Limit(subject) THEN OneMore(passed) ELSE passed
        /\ \A t \in Ticks :
             passed'[t] = IF v.n <= Limit(subject) THEN passed[t] + 1 ELSE passed[t]
        /\ refused' = (v.n > Limit(subject))
    <3>1. windows' = Hit(subject) /\ v.n \in Nat
      BY <1>2, <1>7, <1>1 DEF Count, WindowType
    <3>2. Allowed(subject) <=> v.n <= Limit(subject)
      BY <3>1 DEF Allowed
    <3> QED BY <1>1, <1>5, <1>7, <3>1, <3>2, OneMoreType DEF Count, LimiterTypeOK
  <2>2. v = IF w.age = Window THEN [age |-> 0, n |-> 1] ELSE [age |-> w.age, n |-> w.n + 1]
    BY <1>1, <1>7, HitWindows DEF Count
  <2>3. CASE w.age = Window
    <3>1. v.age = 0 /\ v.n = 1 /\ v.age < Window
      BY <2>2, <2>3, RateLimiterAssumption
    <3>2. passed[0] = 0 /\ passed[Window - 1] <= Limit(subject)
      BY <2>3 DEF LimiterInv
    <3>3. /\ v.n <= hits'[0] /\ passed'[0] <= v.n /\ passed'[0] <= Limit(subject)
          /\ passed'[Window - 1] - passed'[0] <= Limit(subject)
      BY <1>5, <2>1, <3>1, <3>2
    <3> QED BY <1>1, <1>3, <1>4, <1>5, <2>1, <3>1, <3>3, RateLimiterAssumption DEF LimiterInv
  <2>4. CASE w.age < Window
    <3>1. v.age = w.age /\ v.n = w.n + 1 /\ v.age < Window /\ w.age \in Ticks
      BY <1>5, <2>2, <2>4
    <3>2. /\ w.n <= hits[w.age]
          /\ passed[w.age] <= w.n /\ passed[w.age] <= Limit(subject)
          /\ passed[Window - 1] - passed[w.age] <= Limit(subject)
      BY <2>4 DEF LimiterInv
    <3>3. /\ v.n <= hits'[v.age] /\ passed'[v.age] <= v.n /\ passed'[v.age] <= Limit(subject)
          /\ passed'[Window - 1] - passed'[v.age] <= Limit(subject)
      BY <1>5, <2>1, <3>1, <3>2
    <3>4. v.age # Window /\ (refused' => v.age < Window /\ v.n > Limit(subject))
      <4>1. v.age # Window
        BY <1>5, <3>1, RateLimiterAssumption
      <4> HIDE DEF v, w
      <4> QED BY <2>1, <3>1, <4>1
    <3> QED BY <1>1, <1>3, <1>4, <3>1, <3>3, <3>4 DEF LimiterInv
  <2> QED BY <1>5, <2>3, <2>4, RateLimiterAssumption
<1> QED BY <1>6, <1>7

LEMMA AgedType ==
  ASSUME NEW f \in [Ticks -> Nat], Grows(f)
  PROVE  /\ Aged(f) \in [Ticks -> Nat] /\ Grows(Aged(f))
         /\ Aged(f)[0] = 0
         /\ \A t \in Ticks : t + 1 \in Ticks => Aged(f)[t + 1] = f[t]
         /\ \A t \in Ticks : Aged(f)[t] <= f[t]
<1>1. \A t \in Ticks \ {0} : t - 1 \in Ticks /\ f[t - 1] \in Nat /\ f[t - 1] <= f[t]
  BY RateLimiterAssumption DEF Ticks, Grows
<1>2. Aged(f) \in [Ticks -> Nat]
  BY <1>1 DEF Aged
<1>3. Aged(f)[0] = 0 /\ \A t \in Ticks \ {0} : Aged(f)[t] = f[t - 1]
  BY RateLimiterAssumption DEF Aged, Ticks
<1>4. Grows(Aged(f))
  <2>1. ASSUME NEW s \in Ticks, NEW t \in Ticks, s <= t PROVE Aged(f)[s] <= Aged(f)[t]
    <3>1. CASE s = 0
      BY <1>2, <1>3, <3>1
    <3>2. CASE s # 0
      <4>1. t # 0 /\ s - 1 <= t - 1 /\ s - 1 \in Ticks /\ t - 1 \in Ticks
        BY <1>1, <2>1, <3>2 DEF Ticks
      <4>2. f[s - 1] <= f[t - 1]
        BY <4>1 DEF Grows
      <4> QED BY <1>3, <3>2, <4>1, <4>2
    <3> QED BY <3>1, <3>2
  <2> QED BY <2>1 DEF Grows
<1>5. \A t \in Ticks : t + 1 \in Ticks => Aged(f)[t + 1] = f[t]
  <2>1. \A t \in Ticks : t + 1 # 0 /\ (t + 1) - 1 = t
    BY DEF Ticks
  <2> QED BY <1>3, <2>1
<1>6. \A t \in Ticks : Aged(f)[t] <= f[t]
  BY <1>1, <1>3
<1> QED BY <1>2, <1>3, <1>4, <1>5, <1>6

LEMMA TickKeeps ==
  ASSUME LimiterInv, WindowTick
  PROVE  LimiterInv'
<1> DEFINE w == windows[subject]
           v == windows'[subject]
<1>1. LimiterTypeOK /\ Grows(hits) /\ Grows(passed) /\ subject' = subject /\ subject \in LimitKeys
  BY DEF LimiterInv, LimiterTypeOK, WindowTick
<1>2. windows' \in [LimitKeys -> WindowType]
  <2>1. \A k \in LimitKeys : windows[k] \in WindowType
    BY <1>1 DEF LimiterTypeOK
  <2>2. \A k \in LimitKeys : windows[k].age < Window => windows[k].age + 1 \in 0..Window
    BY <2>1, RateLimiterAssumption DEF WindowType
  <2>3. ASSUME NEW k \in LimitKeys, windows[k].age < Window
        PROVE  [windows[k] EXCEPT !.age = @ + 1] \in WindowType
    BY <2>1, <2>2, <2>3 DEF WindowType
  <2> QED BY <2>1, <2>3 DEF WindowTick
<1>3. /\ w.age \in 0..Window /\ w.n \in Nat /\ v.n = w.n
      /\ v.age = IF w.age < Window THEN w.age + 1 ELSE w.age
  <2>1. w \in WindowType
    BY <1>1 DEF LimiterTypeOK
  <2>2. v = IF w.age < Window THEN [w EXCEPT !.age = @ + 1] ELSE w
    BY <1>1 DEF WindowTick
  <2> QED BY <2>1, <2>2 DEF WindowType
<1>4. hits' = Aged(hits) /\ passed' = Aged(passed) /\ refused' = FALSE
  BY DEF WindowTick
<1>5. /\ hits' \in [Ticks -> Nat] /\ passed' \in [Ticks -> Nat]
      /\ Grows(hits') /\ Grows(passed')
      /\ passed'[0] = 0 /\ passed'[Window - 1] <= passed[Window - 1]
      /\ \A t \in Ticks : t + 1 \in Ticks => hits'[t + 1] = hits[t] /\ passed'[t + 1] = passed[t]
  <2>1. hits \in [Ticks -> Nat] /\ passed \in [Ticks -> Nat] /\ Window - 1 \in Ticks
    BY <1>1, RateLimiterAssumption DEF LimiterTypeOK, Ticks
  <2> QED BY <1>1, <1>4, <2>1, AgedType
<1>6. LimiterTypeOK'
  BY <1>1, <1>2, <1>4, <1>5 DEF LimiterTypeOK
<1>7. /\ 0 \in Ticks /\ Window - 1 \in Ticks /\ Limit(subject) \in Nat
      /\ w.age < Window => w.age \in Ticks
      /\ v.age < Window => w.age < Window /\ v.age = w.age + 1 /\ v.age \in Ticks
      /\ \A t \in Ticks : passed[t] \in Nat /\ hits[t] \in Nat /\ passed'[t] \in Nat
  <2>1. 0 \in Ticks /\ Window - 1 \in Ticks /\ Limit(subject) \in Nat
    BY <1>1, RateLimiterAssumption, LimitType DEF Ticks
  <2>2. \A t \in Ticks : passed[t] \in Nat /\ hits[t] \in Nat /\ passed'[t] \in Nat
    BY <1>1, <1>5 DEF LimiterTypeOK
  <2>3. /\ w.age < Window => w.age \in Ticks
        /\ v.age < Window => w.age < Window /\ v.age = w.age + 1 /\ v.age \in Ticks
    BY <1>3, RateLimiterAssumption DEF Ticks
  <2> QED BY <2>1, <2>2, <2>3
<1>8. ASSUME v.age < Window
      PROVE  /\ v.n <= hits'[v.age]
             /\ passed'[v.age] <= v.n /\ passed'[v.age] <= Limit(subject)
             /\ passed'[Window - 1] - passed'[v.age] <= Limit(subject)
  <2>1. hits'[v.age] = hits[w.age] /\ passed'[v.age] = passed[w.age] /\ w.age \in Ticks
    BY <1>5, <1>7, <1>8
  <2>2. /\ w.n <= hits[w.age]
        /\ passed[w.age] <= w.n /\ passed[w.age] <= Limit(subject)
        /\ passed[Window - 1] - passed[w.age] <= Limit(subject)
    BY <1>7, <1>8 DEF LimiterInv
  <2> QED BY <1>3, <1>5, <1>7, <2>1, <2>2
<1>9. ASSUME v.age = Window
      PROVE  passed'[Window - 1] <= Limit(subject)
  <2>1. CASE w.age = Window
    <3>1. passed[Window - 1] <= Limit(subject)
      BY <2>1 DEF LimiterInv
    <3> QED BY <1>5, <1>7, <3>1
  <2>2. CASE w.age < Window
    <3>1. w.age = Window - 1
      BY <1>3, <1>9, <2>2, RateLimiterAssumption
    <3>2. passed[Window - 1] <= Limit(subject)
      BY <2>2, <3>1 DEF LimiterInv
    <3> QED BY <1>5, <1>7, <3>2
  <2> QED BY <1>3, <2>1, <2>2, RateLimiterAssumption
<1> QED BY <1>1, <1>4, <1>5, <1>6, <1>8, <1>9 DEF LimiterInv

LEMMA LimiterStep == LimiterInv /\ [LimiterNext]_limiterVars => LimiterInv'
<1> SUFFICES ASSUME LimiterInv, [LimiterNext]_limiterVars PROVE LimiterInv'
  OBVIOUS
<1>1. CASE UNCHANGED limiterVars
  BY <1>1 DEF limiterVars, LimiterInv, LimiterTypeOK, Grows
<1>2. ASSUME NEW h \in Hosts, AskRoute(h) PROVE LimiterInv'
  BY <1>2, CountKeeps DEF AskRoute, LimitKeys
<1>3. ASSUME NEW h \in Hosts, NEW mutating \in BOOLEAN, Ask(h, mutating) PROVE LimiterInv'
  BY <1>3, CountKeeps DEF Ask, LimitKeys
<1>4. CASE WindowTick
  BY <1>4, TickKeeps
<1> QED BY <1>1, <1>2, <1>3, <1>4 DEF LimiterNext

LEMMA LimiterSafe == LimiterSpec => []LimiterInv
BY LimiterStart, LimiterStep, PTL DEF LimiterSpec

(***************************************************************************)
(* middleware.rs 146-157: in any span of one window's length a client gets *)
(* at most twice its limit through, while windows expire, restart and are  *)
(* dropped from a table that is too large.                                 *)
(***************************************************************************)
THEOREM LimiterBounds == LimiterSpec => []BurstBounded
<1>1. LimiterInv => BurstBounded
  <2> SUFFICES ASSUME LimiterInv PROVE passed[Window - 1] <= 2 * Limit(subject)
    BY DEF BurstBounded, Recent
  <2> DEFINE a == windows[subject].age
  <2>1. /\ Limit(subject) \in Nat /\ a \in 0..Window /\ passed[Window - 1] \in Nat
        /\ a < Window => passed[a] \in Nat
    BY LimitType, RateLimiterAssumption DEF LimiterInv, LimiterTypeOK, WindowType, Ticks
  <2>2. CASE a < Window
    BY <2>1, <2>2 DEF LimiterInv
  <2>3. CASE a = Window
    BY <2>1, <2>3 DEF LimiterInv
  <2> QED BY <2>1, <2>2, <2>3, RateLimiterAssumption
<1> QED BY <1>1, LimiterSafe, PTL

(***************************************************************************)
(* middleware.rs 151-156: a client is refused only after that client hit   *)
(* that limit more often than allowed within one window.                   *)
(***************************************************************************)
THEOREM LimiterRefusesFairly == LimiterSpec => []RefusedOnlyIfBusy
<1>1. LimiterInv => RefusedOnlyIfBusy
  <2> SUFFICES ASSUME LimiterInv, refused PROVE hits[Window - 1] > Limit(subject)
    BY DEF RefusedOnlyIfBusy, Recent
  <2> DEFINE a == windows[subject].age
  <2>1. /\ Limit(subject) \in Nat /\ a \in Ticks /\ windows[subject].n \in Nat
        /\ Window - 1 \in Ticks /\ a <= Window - 1
        /\ hits[a] \in Nat /\ hits[Window - 1] \in Nat
    BY LimitType, RateLimiterAssumption DEF LimiterInv, LimiterTypeOK, WindowType, Ticks
  <2>2. hits[a] <= hits[Window - 1] /\ windows[subject].n <= hits[a]
        /\ windows[subject].n > Limit(subject)
    BY <2>1 DEF LimiterInv, Grows
  <2> QED BY <2>1, <2>2
<1> QED BY <1>1, LimiterSafe, PTL

-----------------------------------------------------------------------------

(***************************************************************************)
(* Proof about HardwareRates, for any number of callers: a rate is never    *)
(* overstated.  The argument: what a counter falls short of all overflows   *)
(* so far only grows, restarts included, so between two readings the count  *)
(* rises by at most what happened.                                          *)
(***************************************************************************)
LiveReadings ==
  [live : {TRUE}, count : Nat, time : Nat, events : Nat]

\* What a reading falls short of the overflows counted so far.
Older(a, b) == a.events <= b.events /\ a.events - a.count <= b.events - b.count

ReadingType(x) == x = NoReading \/ x \in LiveReadings

\* A reading is of the past, and the counter falls short by at least as much now.
Past(x) ==
  x.live => /\ x.time <= clock /\ x.events <= events
            /\ counter # Down => x.events - x.count <= events - counter

CallerType(c) == c = Idle \/ c = [at |-> "gathered", listed |-> c.listed, reply |-> c.reply]

RateInv ==
  /\ clock \in Nat /\ events \in Nat /\ counter \in Nat \cup {Down}
  /\ counter # Down => counter <= events
  /\ DOMAIN reading = Requests
  /\ \A r \in Requests : CallerType(reading[r])
  /\ ReadingType(previous) /\ Past(previous)
  /\ \A r \in Requests : reading[r] # Idle => ReadingType(reading[r].reply) /\ Past(reading[r].reply)
  /\ \A r \in Requests : reading[r] # Idle /\ reading[r].reply.live /\ previous.live =>
       /\ previous.time < reading[r].reply.time => Older(previous, reading[r].reply)
       /\ reading[r].reply.time < previous.time => Older(reading[r].reply, previous)
  /\ \A r, s \in Requests :
       reading[r] # Idle /\ reading[s] # Idle /\ reading[r].reply.live /\ reading[s].reply.live =>
         (reading[r].reply.time < reading[s].reply.time => Older(reading[r].reply, reading[s].reply))
  /\ RateIsNeverOverstated

LEMMA LiveOnes ==
  ASSUME NEW x, ReadingType(x), x.live
  PROVE  x \in LiveReadings /\ x.time \in Nat /\ x.events \in Nat /\ x.count \in Nat
<1>1. x # NoReading
  BY DEF NoReading
<1>2. x \in LiveReadings
  BY <1>1 DEF ReadingType
<1> QED BY <1>2 DEF LiveReadings

LEMMA InitRateInv == HardwareInit => RateInv
BY DEF HardwareInit, RateInv, ReadingType, Past, CallerType, NoReading, NoRate, Idle, Down,
       RateIsNeverOverstated

\* Time passes and the process counts, exits, restarts or is replaced.
LEMMA OutsideInv ==
  ASSUME RateInv, UNCHANGED panelSide,
         clock' \in Nat, events' \in Nat, counter' \in Nat \cup {Down},
         clock <= clock', events <= events',
         counter' # Down => counter' <= events',
         counter' # Down => \/ counter # Down /\ events - counter <= events' - counter'
                            \/ counter' = 0
  PROVE  RateInv'
<1>1. ASSUME NEW x, ReadingType(x), Past(x)
      PROVE  Past(x)'
  <2>1. CASE ~x.live
    BY <2>1 DEF Past
  <2>2. CASE x.live
    <3>1. x.time \in Nat /\ x.events \in Nat /\ x.count \in Nat
      BY <1>1, <2>2, LiveOnes
    <3>2. x.time <= clock /\ x.events <= events
          /\ (counter # Down => x.events - x.count <= events - counter)
      BY <1>1, <2>2 DEF Past
    <3>3. clock \in Nat /\ events \in Nat /\ (counter # Down => counter \in Nat)
      BY DEF RateInv
    <3>4. x.time <= clock' /\ x.events <= events'
      BY <3>1, <3>2, <3>3
    <3>5. counter' # Down => x.events - x.count <= events' - counter'
      BY <3>1, <3>2, <3>3 DEF Down
    <3> QED BY <3>4, <3>5 DEF Past
  <2> QED BY <2>1, <2>2
<1> QED BY <1>1 DEF RateInv, panelSide, CallerType, RateIsNeverOverstated

LEMMA ReplyInv ==
  ASSUME RateInv, NEW r \in Requests, Reply(r)
  PROVE  RateInv'
<1> DEFINE x == IF counter = Down THEN NoReading
                  ELSE [live |-> TRUE, count |-> counter, time |-> clock, events |-> events]
<1>1. /\ reading' = [reading EXCEPT ![r] = [at |-> "gathered", listed |-> exists, reply |-> x]]
      /\ UNCHANGED <<clock, counter, events, exists, previous, rate>>
  BY DEF Reply
<1>2. ReadingType(x) /\ Past(x)
  BY DEF RateInv, ReadingType, LiveReadings, Past, NoReading, Down
<1>3. ASSUME NEW y, ReadingType(y), Past(y), y.live, x.live
      PROVE  /\ ~(x.time < y.time)
             /\ y.time < x.time => Older(y, x)
  <2>1. counter # Down /\ x.count = counter /\ x.time = clock /\ x.events = events
    BY <1>3 DEF NoReading
  <2> HIDE DEF x
  <2>2. y.time \in Nat /\ y.events \in Nat /\ y.count \in Nat
    BY <1>3, LiveOnes
  <2>3. clock \in Nat /\ events \in Nat /\ counter \in Nat
    BY <2>1 DEF RateInv
  <2>4. y.time <= clock /\ y.events <= events /\ y.events - y.count <= events - counter
    BY <1>3, <2>1 DEF Past
  <2> QED BY <2>1, <2>2, <2>3, <2>4 DEF Older
<1> HIDE DEF x
<1>4. /\ reading'[r] = [at |-> "gathered", listed |-> exists, reply |-> x]
      /\ reading'[r].reply = x /\ DOMAIN reading' = Requests
      /\ \A s \in Requests : s # r => reading'[s] = reading[s]
  BY <1>1 DEF RateInv
<1>5. \A s \in Requests : CallerType(reading'[s])
  BY <1>4 DEF RateInv, CallerType
<1>6. \A s \in Requests : reading'[s] # Idle =>
        ReadingType(reading'[s].reply) /\ Past(reading'[s].reply)
  BY <1>2, <1>4 DEF RateInv
<1>7. \A s \in Requests : reading'[s] # Idle /\ reading'[s].reply.live /\ previous.live =>
        /\ previous.time < reading'[s].reply.time => Older(previous, reading'[s].reply)
        /\ reading'[s].reply.time < previous.time => Older(reading'[s].reply, previous)
  <2> SUFFICES ASSUME NEW s \in Requests, reading'[s] # Idle, reading'[s].reply.live, previous.live
               PROVE  /\ previous.time < reading'[s].reply.time => Older(previous, reading'[s].reply)
                      /\ reading'[s].reply.time < previous.time => Older(reading'[s].reply, previous)
    OBVIOUS
  <2>1. CASE s = r
    BY <1>3, <1>4, <2>1 DEF RateInv
  <2>2. CASE s # r
    BY <1>4, <2>2 DEF RateInv
  <2> QED BY <2>1, <2>2
<1>8. ASSUME NEW p \in Requests, NEW s \in Requests, reading'[p] # Idle, reading'[s] # Idle,
             reading'[p].reply.live, reading'[s].reply.live,
             reading'[p].reply.time < reading'[s].reply.time
      PROVE  Older(reading'[p].reply, reading'[s].reply)
  <2>1. CASE p = r /\ s = r
    <3>1. x.live /\ x.time < x.time
      BY <1>4, <1>8, <2>1
    <3>2. x.time \in Nat
      BY <1>2, <3>1, LiveOnes
    <3> QED BY <3>1, <3>2
  <2>2. CASE p = r /\ s # r
    BY <1>3, <1>4, <1>8, <2>2 DEF RateInv
  <2>3. CASE p # r /\ s = r
    BY <1>3, <1>4, <1>8, <2>3 DEF RateInv
  <2>4. CASE p # r /\ s # r
    BY <1>4, <1>8, <2>4 DEF RateInv
  <2> QED BY <2>1, <2>2, <2>3, <2>4
<1>9. \A y : Past(y)' <=> Past(y)
  BY <1>1 DEF Past
<1>10. RateIsNeverOverstated'
  BY <1>1 DEF RateInv, RateIsNeverOverstated
<1> QED BY <1>1, <1>4, <1>5, <1>6, <1>7, <1>8, <1>9, <1>10 DEF RateInv

LEMMA RecordInv ==
  ASSUME RateInv, NEW r \in Requests, Record(r)
  PROVE  RateInv'
<1> DEFINE now == reading[r].reply
<1> DEFINE known == IF reading[r].listed THEN previous ELSE NoReading
<1>1. /\ reading[r] # Idle
      /\ rate' = IF now.live /\ known.live THEN Rate(now, known) ELSE NoRate
      /\ previous' = IF now.live THEN now ELSE known
      /\ reading' = [reading EXCEPT ![r] = Idle]
      /\ UNCHANGED <<clock, counter, events, exists>>
  BY DEF Record
<1>2. ReadingType(now) /\ Past(now) /\ ReadingType(known) /\ Past(known)
  BY <1>1 DEF RateInv, ReadingType, Past, NoReading
<1>3. known.live => known = previous
  BY DEF NoReading
<1> HIDE DEF now, known
<1>4. ReadingType(previous') /\ Past(previous')
  BY <1>1, <1>2
<1>5. /\ reading'[r] = Idle /\ DOMAIN reading' = Requests
      /\ \A s \in Requests : s # r => reading'[s] = reading[s]
      /\ \A y : Past(y)' <=> Past(y)
  BY <1>1 DEF RateInv, Past
<1>6. RateIsNeverOverstated'
  <2>1. CASE rate' = NoRate
    BY <2>1 DEF NoRate, RateIsNeverOverstated
  <2>2. CASE rate' # NoRate
    <3>1. now.live /\ known.live /\ known = previous /\ rate' = Rate(now, known)
      BY <1>1, <1>3, <2>2
    <3>2. /\ now.time \in Nat /\ now.events \in Nat /\ now.count \in Nat
          /\ known.time \in Nat /\ known.events \in Nat /\ known.count \in Nat
      BY <1>2, <3>1, LiveOnes
    <3>3. now.count >= known.count /\ known.time < now.time
          /\ rate' = [any |-> TRUE, rise |-> now.count - known.count,
                      secs |-> now.time - known.time,
                      happened |-> now.events - known.events, passed |-> now.time - known.time]
      <4>1. now.count >= known.count /\ Elapsed(now.time, known.time) > 0
        BY <2>2, <3>1 DEF Rate
      <4>2. known.time < now.time /\ Elapsed(now.time, known.time) = now.time - known.time
        BY <3>2, <4>1 DEF Elapsed
      <4> QED BY <3>1, <4>1, <4>2 DEF Rate
    <3>4. Older(known, now)
      BY <1>1, <3>1, <3>3 DEF RateInv, now
    <3> QED BY <3>2, <3>3, <3>4 DEF Older, RateIsNeverOverstated
  <2> QED BY <2>1, <2>2
<1>7. \A s \in Requests : reading'[s] # Idle /\ reading'[s].reply.live /\ previous'.live =>
        /\ previous'.time < reading'[s].reply.time => Older(previous', reading'[s].reply)
        /\ reading'[s].reply.time < previous'.time => Older(reading'[s].reply, previous')
  <2> SUFFICES ASSUME NEW s \in Requests, s # r, reading[s] # Idle, reading[s].reply.live,
                      previous'.live
               PROVE  /\ previous'.time < reading[s].reply.time => Older(previous', reading[s].reply)
                      /\ reading[s].reply.time < previous'.time => Older(reading[s].reply, previous')
    BY <1>5
  <2>1. CASE now.live
    BY <1>1, <2>1 DEF RateInv, now
  <2>2. CASE ~now.live
    BY <1>1, <1>3, <2>2 DEF RateInv
  <2> QED BY <2>1, <2>2
<1>8. \A s \in Requests : reading'[s] # Idle => s # r /\ reading'[s] = reading[s]
  BY <1>5
<1>9. \A s \in Requests : CallerType(reading'[s])
  BY <1>5 DEF RateInv, CallerType
<1> QED BY <1>1, <1>4, <1>5, <1>6, <1>7, <1>8, <1>9 DEF RateInv

\* No snapshot overstates a rate, however many are taken at once and in whatever
\* order they finish (take_snapshot and rate, hardware.rs).
THEOREM RatesAreNeverOverstated == HardwareSpec => []RateIsNeverOverstated
<1>1. HardwareInit => RateInv
  BY InitRateInv
<1>2. RateInv /\ [HardwareNext]_hardwareVars => RateInv'
  <2> SUFFICES ASSUME RateInv, [HardwareNext]_hardwareVars PROVE RateInv'
    OBVIOUS
  <2>1. clock \in Nat /\ events \in Nat /\ counter \in Nat \cup {Down}
        /\ (counter # Down => counter <= events) /\ Down = -1
    BY DEF RateInv, Down
  <2>2. CASE Tock
    BY <2>1, <2>2, OutsideInv DEF Tock
  <2>3. CASE Overflow
    BY <2>1, <2>3, OutsideInv DEF Overflow
  <2>4. CASE Exit \/ Run \/ Replace
    BY <2>1, <2>4, OutsideInv DEF Exit, Run, Replace
  <2>5. ASSUME NEW r \in Requests, Reply(r) \/ Record(r) PROVE RateInv'
    BY <2>5, ReplyInv, RecordInv
  <2>6. CASE UNCHANGED hardwareVars
    BY <2>1, <2>6, OutsideInv DEF hardwareVars, panelSide
  <2> QED BY <2>2, <2>3, <2>4, <2>5, <2>6 DEF HardwareNext
<1>3. RateInv => RateIsNeverOverstated
  BY DEF RateInv
<1> QED BY <1>1, <1>2, <1>3, PTL DEF HardwareSpec

-----------------------------------------------------------------------------
(***************************************************************************)
(* Proofs about StatsBaseline, for any amount of work, any number of       *)
(* processes and whatever fails: no increase is counted twice, and the     *)
(* Overview's totals are those since the baseline.  The argument: polls    *)
(* follow one another from the database to the stats file to the process   *)
(* itself, and of two polls that follow one another the counters differ by *)
(* what was counted in between, or by less once the process has changed.   *)
(***************************************************************************)
Samples == [run : Nat, cpu : Nat, count : Nat, total : Nat]
Processes == [run : Nat, cpu : Nat, count : Nat, total : Nat, work : Nat]

\* The process and every poll of it.
CountedSoFar(s) == s.run \in Nat /\ s.cpu \in Nat /\ s.count \in Nat /\ s.total \in Nat

\* t was read after s: from the same process, with what it counted in between, or from
\* a later one, which began to count after s was read.
Follows(s, t) ==
  /\ s.run <= t.run /\ s.total <= t.total
  /\ IF s.run = t.run
       THEN s.cpu <= t.cpu /\ t.count - s.count = t.total - s.total
       ELSE t.count <= t.total - s.total

PollTypes ==
  /\ poll.at \in {"idle", "read", "store", "reset", "mirror", "count", "merge"}
  /\ poll.at \in {"store", "reset", "mirror", "count"} => poll.sample \in Samples
  /\ poll.at = "mirror" => poll.base \in Samples
  /\ poll.at = "merge" => poll.jump \in Nat

CallTypes ==
  /\ call.at \in {"idle", "events", "latest", "mirror", "memory"}
  /\ call.at \in {"mirror", "memory"} => call.base \in Samples

StatsTypes ==
  /\ proc.run > 0 /\ proc \in Processes
  /\ {file, latest, stored, base, mirror} \subseteq Samples
  /\ unread \in BOOLEAN /\ window \in BOOLEAN
  /\ PollTypes /\ CallTypes
  /\ heldBack \in Nat /\ written \in Nat \cup {Uncounted}

\* From the cached poll to the process.
PollsInOrder ==
  /\ Follows(LatestPoll, stored) /\ Follows(stored, file) /\ Follows(file, proc)
  /\ unread \/ poll.at = "read" => IsSample(file)
  /\ poll.at = "store" =>
       /\ IsSample(poll.sample)
       /\ Follows(stored, poll.sample) /\ Follows(poll.sample, file)
  /\ poll.at \in {"reset", "mirror", "count"} =>
       IsSample(poll.sample) /\ poll.sample = stored

\* Every baseline was a poll before the latest one, or its total is left of it.
BaselinesInOrder ==
  /\ Follows(base, stored) /\ Follows(mirror, stored)
  /\ ~Dropping => Follows(base, LatestPoll)
  /\ poll.at = "mirror" => Follows(poll.base, stored)
  /\ call.at \in {"mirror", "memory"} => Follows(call.base, LatestPoll)

WrittenInOrder ==
  IF written = Uncounted
    THEN ~IsSample(latest) /\ heldBack = 0 /\ poll.at # "merge"
    ELSE written + heldBack + InFlight <= LatestPoll.total

StatsInv == StatsTypes /\ PollsInOrder /\ BaselinesInOrder /\ WrittenInOrder
-----------------------------------------------------------------------------
LEMMA SamplesAreCounted == \A s \in Samples : CountedSoFar(s)
BY DEF Samples, CountedSoFar

LEMMA FollowsSelf ==
  ASSUME NEW s, CountedSoFar(s)
  PROVE  Follows(s, s)
BY DEF CountedSoFar, Follows

LEMMA FollowsOn ==
  ASSUME NEW s, NEW t, NEW u, CountedSoFar(s), CountedSoFar(t), CountedSoFar(u),
         Follows(s, t), Follows(t, u)
  PROVE  Follows(s, u)
<1>1. CASE s.run = t.run /\ t.run = u.run
  <2>1. /\ s.cpu <= t.cpu /\ t.count - s.count = t.total - s.total /\ s.total <= t.total
        /\ t.cpu <= u.cpu /\ u.count - t.count = u.total - t.total /\ t.total <= u.total
    BY <1>1 DEF Follows
  <2>2. s.cpu <= u.cpu /\ u.count - s.count = u.total - s.total /\ s.total <= u.total
    BY <2>1 DEF CountedSoFar
  <2> QED BY <1>1, <2>2 DEF CountedSoFar, Follows
<1>2. CASE s.run = t.run /\ t.run # u.run
  BY <1>2 DEF CountedSoFar, Follows
<1>3. CASE s.run # t.run
  BY <1>3 DEF CountedSoFar, Follows
<1> QED BY <1>1, <1>2, <1>3

\* A counter goes back only in another process, and then all that it shows came after
\* the older poll: the total of that poll is a baseline by itself.
LEMMA ResetIsLater ==
  ASSUME NEW b \in Samples, NEW s \in Samples, Follows(b, s), WentBack(s, b)
  PROVE  Follows(Cleared(b), s) /\ Cleared(b) \in Samples
<1>1. b.run < s.run /\ s.count <= s.total - b.total /\ b.total <= s.total
  BY DEF Samples, Follows, WentBack
<1>2. /\ Cleared(b).run = 0 /\ Cleared(b).cpu = 0 /\ Cleared(b).count = 0
      /\ Cleared(b).total = b.total
      /\ Cleared(b) \in Samples
  BY DEF Cleared, None, Samples
<1> QED BY <1>1, <1>2 DEF Samples, Follows

\* The increase that record_poll finds is none that the totals do not show.
LEMMA JumpFits ==
  ASSUME NEW b \in Samples, NEW s \in Samples, IsSample(b) => Follows(b, s)
  PROVE  /\ Jump(b, s) \in Nat
         /\ IsSample(b) => Jump(b, s) <= s.total - b.total
         /\ ~IsSample(b) => Jump(b, s) = 0
BY DEF Jump, IsSample, Samples, Follows

LEMMA ReadyFits ==
  ASSUME NEW delta \in Nat, NEW force \in BOOLEAN, window \in BOOLEAN
  PROVE  LET r == Ready(delta, force)
         IN  /\ r.out \in Nat /\ r.held \in Nat /\ r.out + r.held = delta
             /\ r.window \in BOOLEAN
<1>1. CASE delta > 0 /\ (force \/ ~window)
  <2>1. Ready(delta, force) = [out |-> delta, held |-> 0, window |-> TRUE]
    BY <1>1, Zenon DEF Ready
  <2> QED BY <2>1
<1>2. CASE ~(delta > 0 /\ (force \/ ~window))
  <2>1. Ready(delta, force) = [out |-> 0, held |-> delta, window |-> window]
    BY <1>2, Zenon DEF Ready
  <2> QED BY <2>1
<1> QED BY <1>1, <1>2

LEMMA NoneIsASample == None \in Samples /\ ~IsSample(None)
BY DEF None, Samples, IsSample

LEMMA StatsStart == StatsInit => StatsInv
<1> SUFFICES ASSUME StatsInit PROVE StatsInv
  OBVIOUS
<1>1. LatestPoll = None /\ ~Dropping
  BY DEF StatsInit, LatestPoll, Dropping
<1>2. Follows(None, None)
  BY NoneIsASample, SamplesAreCounted, FollowsSelf
<1>3. Follows(None, proc)
  BY DEF StatsInit, Follows, None
<1>4. StatsTypes
  <2>1. proc.run > 0 /\ proc \in Processes
    BY DEF StatsInit, Processes
  <2>2. PollTypes /\ CallTypes
    BY DEF StatsInit, PollTypes, CallTypes
  <2> QED BY <2>1, <2>2, NoneIsASample DEF StatsInit, StatsTypes
<1>5. PollsInOrder
  BY <1>1, <1>2, <1>3 DEF StatsInit, PollsInOrder
<1>6. BaselinesInOrder
  BY <1>1, <1>2 DEF StatsInit, BaselinesInOrder
<1>7. WrittenInOrder
  BY NoneIsASample DEF StatsInit, WrittenInOrder
<1> QED BY <1>4, <1>5, <1>6, <1>7 DEF StatsInv

\* The latest poll is a poll, and what precedes it precedes what follows it.
LEMMA LatestType ==
  ASSUME StatsTypes
  PROVE  LatestPoll \in Samples
BY DEF StatsTypes, LatestPoll

(***************************************************************************)
(* The file, and the polls up to the one that is stored.                   *)
(***************************************************************************)
\* The database's last poll is replaced by a later one; the poll that is cached may
\* be replaced by the database's.
LEMMA PollsMove ==
  ASSUME StatsInv, StatsTypes', Follows(stored, stored'),
         \/ latest' = latest
         \/ latest' = LatestPoll /\ stored' = stored
         \/ ~IsSample(latest')
  PROVE  /\ LatestPoll' \in Samples
         /\ Follows(LatestPoll, LatestPoll')
         /\ stored' = stored => Follows(LatestPoll', stored')
<1>1. /\ stored \in Samples /\ stored' \in Samples /\ LatestPoll \in Samples
      /\ Follows(LatestPoll, stored)
  BY LatestType DEF StatsInv, StatsTypes, PollsInOrder
<1>2. LatestPoll' = LatestPoll \/ LatestPoll' = stored'
  BY DEF LatestPoll
<1>3. Follows(LatestPoll, stored') /\ Follows(LatestPoll, LatestPoll) /\ Follows(stored', stored')
  BY <1>1, SamplesAreCounted, FollowsSelf, FollowsOn
<1>4. LatestPoll' \in Samples
  BY DEF StatsTypes, LatestPoll
<1> QED BY <1>1, <1>2, <1>3, <1>4

LEMMA FileInv ==
  ASSUME StatsInv, WriteStats \/ OutsideRestart
  PROVE  StatsInv'
<1>1. /\ poll' = poll /\ latest' = latest /\ stored' = stored /\ base' = base
      /\ mirror' = mirror /\ heldBack' = heldBack /\ window' = window
      /\ written' = written /\ call' = call
      /\ LatestPoll' = LatestPoll /\ (Dropping' <=> Dropping) /\ InFlight' = InFlight
  BY DEF WriteStats, OutsideRestart, fileOnly, LatestPoll, Dropping, InFlight
<1>2. /\ StatsTypes /\ CountedSoFar(proc) /\ CountedSoFar(file) /\ CountedSoFar(stored)
      /\ Follows(stored, file) /\ Follows(file, proc)
  BY SamplesAreCounted DEF StatsInv, PollsInOrder, StatsTypes, CountedSoFar, Processes
<1>3. /\ proc'.run > 0 /\ proc' \in Processes
      /\ file' \in Samples /\ unread' \in BOOLEAN
      /\ Follows(proc, proc') /\ CountedSoFar(proc')
      /\ \/ file' = file /\ unread' = unread
         \/ Follows(proc, file') /\ Follows(file', proc') /\ IsSample(file')
  <2>1. CASE WriteStats
    <3>1. PICK cpu \in 0..1, more \in 0..1 :
            proc' = [proc EXCEPT !.cpu = @ + cpu, !.count = @ + more, !.total = @ + more,
                                 !.work = @ + cpu + more]
      BY <2>1 DEF WriteStats
    <3>2. /\ proc'.run = proc.run /\ proc'.cpu = proc.cpu + cpu
          /\ proc'.count = proc.count + more /\ proc'.total = proc.total + more
          /\ proc' \in Processes
      <4>1. /\ cpu \in Nat /\ more \in Nat /\ proc \in Processes
            /\ proc.cpu \in Nat /\ proc.count \in Nat /\ proc.total \in Nat /\ proc.work \in Nat
        BY <1>2 DEF StatsTypes, Processes
      <4> PICK i \in Nat : i = proc.cpu + cpu
        BY <4>1
      <4> PICK j \in Nat : j = proc.count + more
        BY <4>1
      <4> PICK k \in Nat : k = proc.total + more
        BY <4>1
      <4> PICK l \in Nat : l = proc.work + cpu + more
        BY <4>1
      <4>2. proc' = [proc EXCEPT !.cpu = i, !.count = j, !.total = k, !.work = l]
        BY <3>1
      <4> QED BY <4>1, <4>2 DEF Processes
    <3>3. /\ file' = [run |-> proc.run, cpu |-> proc'.cpu, count |-> proc'.count,
                      total |-> proc'.total]
          /\ unread' = TRUE
      BY <2>1 DEF WriteStats
    <3>4. proc.run > 0 /\ proc.run \in Nat
      BY <1>2 DEF StatsTypes, Processes
    <3>5. CountedSoFar(file') /\ file' \in Samples /\ IsSample(file') /\ CountedSoFar(proc')
      BY <1>2, <3>2, <3>3, <3>4 DEF CountedSoFar, Samples, IsSample
    <3>6. Follows(proc, file') /\ Follows(proc, proc') /\ Follows(file', proc')
      <4>1. /\ file'.run = proc'.run /\ file'.cpu = proc'.cpu /\ file'.count = proc'.count
            /\ file'.total = proc'.total
        BY <3>2, <3>3
      <4>2. Follows(proc, proc')
        BY <1>2, <3>2 DEF CountedSoFar, Follows
      <4>3. Follows(proc, file')
        BY <4>1, <4>2 DEF Follows
      <4>4. Follows(file', proc')
        BY <3>5, <4>1 DEF CountedSoFar, Follows
      <4> QED BY <4>2, <4>3, <4>4
    <3> QED BY <3>2, <3>3, <3>4, <3>5, <3>6
  <2>2. CASE OutsideRestart
    <3>1. proc' = Fresh /\ file' = file /\ unread' = unread
      BY <2>2 DEF OutsideRestart
    <3>2. /\ proc'.run = proc.run + 1 /\ proc'.cpu = 0 /\ proc'.count = 0 /\ proc'.total = proc.total
          /\ proc' \in Processes
      <4>1. proc.run \in Nat /\ proc \in Processes
        BY <1>2 DEF StatsTypes, Processes
      <4> PICK n \in Nat : n = proc.run + 1
        BY <4>1
      <4>2. proc' = [proc EXCEPT !.run = n, !.cpu = 0, !.count = 0]
        BY <3>1 DEF Fresh
      <4> QED BY <4>1, <4>2 DEF Processes
    <3> QED BY <1>2, <3>1, <3>2 DEF Follows, CountedSoFar, StatsTypes, Processes
  <2> QED BY <2>1, <2>2
<1>4. StatsTypes'
  BY <1>1, <1>2, <1>3 DEF StatsTypes, PollTypes, CallTypes
<1>5. /\ CountedSoFar(file') /\ Follows(file, file') /\ Follows(file', proc') /\ Follows(stored, file')
      /\ IsSample(file) => IsSample(file')
      /\ unread' => unread \/ IsSample(file')
  <2>1. CASE file' = file /\ unread' = unread
    <3>1. CountedSoFar(file') /\ Follows(file, file') /\ Follows(stored, file')
      BY <1>2, <2>1, FollowsSelf
    <3>2. Follows(file', proc')
      BY <1>2, <1>3, <2>1, FollowsOn
    <3> QED BY <2>1, <3>1, <3>2
  <2>2. CASE Follows(proc, file') /\ Follows(file', proc') /\ IsSample(file')
    <3>1. CountedSoFar(file')
      BY <1>3, SamplesAreCounted
    <3>2. Follows(file, file')
      BY <1>2, <2>2, <3>1, FollowsOn
    <3>3. Follows(stored, file')
      BY <1>2, <3>1, <3>2, FollowsOn
    <3> QED BY <2>2, <3>1, <3>2, <3>3
  <2> QED BY <1>3, <2>1, <2>2
<1>6. PollsInOrder'
  <2>1. poll.at = "store" => Follows(poll.sample, file')
    <3> SUFFICES ASSUME poll.at = "store" PROVE Follows(poll.sample, file')
      OBVIOUS
    <3>1. CountedSoFar(poll.sample) /\ Follows(poll.sample, file)
      BY SamplesAreCounted DEF StatsInv, StatsTypes, PollTypes, PollsInOrder
    <3> QED BY <1>2, <1>5, <3>1, FollowsOn
  <2> QED BY <1>1, <1>5, <2>1 DEF StatsInv, PollsInOrder
<1>7. BaselinesInOrder' /\ WrittenInOrder'
  BY <1>1 DEF StatsInv, BaselinesInOrder, WrittenInOrder
<1> QED BY <1>4, <1>6, <1>7 DEF StatsInv

LEMMA ReadingInv ==
  ASSUME StatsInv, Stat \/ ReadFile \/ ReadFileFails
  PROVE  StatsInv'
<1>1. /\ UNCHANGED <<pollOnly, latest, stored, heldBack, window, written>>
      /\ LatestPoll' = LatestPoll /\ ~Dropping' /\ ~Dropping /\ InFlight' = InFlight
      /\ StatsTypes
  BY DEF Stat, ReadFile, ReadFileFails, pollOnly, LatestPoll, Dropping, InFlight, StatsInv
<1>2. /\ unread' \in BOOLEAN
      /\ \/ poll' = [at |-> "read"] /\ unread /\ ~unread'
         \/ poll' = [at |-> "idle"] /\ poll.at = "read" /\ unread' = unread
         \/ poll' = [at |-> "store", sample |-> file] /\ poll.at = "read" /\ unread' = unread
  BY <1>1 DEF Stat, ReadFile, ReadFileFails, StatsTypes
<1>3. StatsTypes'
  <2>1. PollTypes' /\ CallTypes'
    BY <1>1, <1>2 DEF StatsTypes, PollTypes, CallTypes, pollOnly
  <2> QED BY <1>1, <1>2, <2>1 DEF StatsTypes, pollOnly
<1>4. PollsInOrder'
  <2>1. Follows(file, file)
    BY SamplesAreCounted, FollowsSelf DEF StatsInv, StatsTypes
  <2> QED BY <1>1, <1>2, <2>1 DEF StatsInv, PollsInOrder, pollOnly
<1>5. BaselinesInOrder' /\ WrittenInOrder'
  BY <1>1, <1>2 DEF StatsInv, BaselinesInOrder, WrittenInOrder, pollOnly
<1> QED BY <1>3, <1>4, <1>5 DEF StatsInv

LEMMA StoreInv ==
  ASSUME StatsInv, StorePoll \/ StorePollFails
  PROVE  StatsInv'
<1>1. /\ UNCHANGED <<pollOnly, unread, latest, heldBack, window, written>>
      /\ ~Dropping' /\ ~Dropping /\ InFlight' = InFlight /\ InFlight = 0
      /\ StatsTypes /\ poll.at = "store"
  BY DEF StorePoll, StorePollFails, pollOnly, Dropping, InFlight, StatsInv
<1>2. /\ poll.sample \in Samples /\ IsSample(poll.sample)
      /\ Follows(stored, poll.sample) /\ Follows(poll.sample, file)
      /\ Follows(stored, stored) /\ Follows(stored, file)
      /\ {stored, file, mirror, base} \subseteq Samples
  BY <1>1, SamplesAreCounted, FollowsSelf DEF StatsInv, StatsTypes, PollTypes, PollsInOrder
<1>3. /\ stored' \in Samples /\ Follows(stored, stored') /\ Follows(stored', file)
      /\ \/ poll' = [at |-> "idle"]
         \/ poll' = [at |-> "reset", sample |-> poll.sample] /\ stored' = poll.sample
  BY <1>2 DEF StorePoll, StorePollFails
<1>4. StatsTypes'
  <2>1. PollTypes' /\ CallTypes'
    BY <1>1, <1>2, <1>3 DEF StatsTypes, PollTypes, CallTypes, pollOnly
  <2> QED BY <1>1, <1>3, <2>1 DEF StatsTypes, pollOnly
<1>5. LatestPoll \in Samples /\ LatestPoll' \in Samples /\ Follows(LatestPoll, LatestPoll')
  BY <1>1, <1>3, <1>4, LatestType, PollsMove
<1>6. PollsInOrder'
  <2>1. Follows(LatestPoll', stored')
    <3>1. LatestPoll' = stored' \/ LatestPoll' = LatestPoll
      BY <1>1 DEF LatestPoll
    <3>2. Follows(LatestPoll, stored') /\ Follows(stored', stored')
      BY <1>2, <1>3, <1>5, SamplesAreCounted, FollowsOn, FollowsSelf DEF StatsInv, PollsInOrder
    <3> QED BY <3>1, <3>2
  <2> QED BY <1>1, <1>2, <1>3, <2>1 DEF StatsInv, PollsInOrder, pollOnly
<1>7. BaselinesInOrder'
  <2>1. Follows(base, stored') /\ Follows(mirror, stored') /\ Follows(base, LatestPoll')
    BY <1>1, <1>2, <1>3, <1>5, SamplesAreCounted, FollowsOn DEF StatsInv, BaselinesInOrder
  <2>2. call.at \in {"mirror", "memory"} => Follows(call.base, LatestPoll')
    BY <1>1, <1>5, SamplesAreCounted, FollowsOn
    DEF StatsInv, StatsTypes, CallTypes, BaselinesInOrder
  <2> QED BY <1>1, <1>3, <2>1, <2>2 DEF BaselinesInOrder, pollOnly
<1>8. WrittenInOrder'
  <2>1. LatestPoll.total \in Nat /\ LatestPoll'.total \in Nat /\ LatestPoll.total <= LatestPoll'.total
    BY <1>5 DEF Samples, Follows
  <2>2. heldBack \in Nat /\ (written = Uncounted \/ written \in Nat)
    BY <1>1 DEF StatsTypes
  <2> QED BY <1>1, <1>3, <2>1, <2>2 DEF StatsInv, WrittenInOrder
<1> QED BY <1>4, <1>6, <1>7, <1>8 DEF StatsInv

(***************************************************************************)
(* The baselines.                                                          *)
(***************************************************************************)
LEMMA ResetInv ==
  ASSUME StatsInv, CheckReset \/ MirrorReset
  PROVE  StatsInv'
<1>1. /\ UNCHANGED <<proc, file, unread, call, latest, stored, heldBack, window, written>>
      /\ LatestPoll' = LatestPoll /\ StatsTypes
      /\ poll.sample \in Samples /\ poll.sample = stored /\ IsSample(stored)
      /\ poll.at # "merge"
      /\ Follows(base, stored) /\ Follows(mirror, stored)
      /\ base \in Samples /\ mirror \in Samples
  BY DEF CheckReset, MirrorReset, LatestPoll, StatsInv, StatsTypes, PollTypes, PollsInOrder,
         BaselinesInOrder
<1>2. \/ /\ base' = Cleared(base) /\ IsSample(base) /\ WentBack(stored, base) /\ mirror' = mirror
         /\ poll' = [at |-> "mirror", sample |-> stored, base |-> base']
      \/ /\ base' = base /\ mirror' = mirror /\ poll.at = "reset"
         /\ poll' = [at |-> "count", sample |-> stored]
      \/ /\ base' = base /\ mirror' \in {mirror, poll.base} /\ poll.at = "mirror"
         /\ poll' = [at |-> "count", sample |-> stored]
  BY <1>1 DEF CheckReset, MirrorReset, ResetBy
<1>3. /\ base' \in Samples /\ Follows(base', stored)
      /\ mirror' \in Samples /\ Follows(mirror', stored)
      /\ base' # base => poll'.at = "mirror" /\ ~IsSample(base')
  <2>1. CASE base' = Cleared(base) /\ WentBack(stored, base) /\ mirror' = mirror /\ poll'.at = "mirror"
    BY <1>1, <2>1, ResetIsLater DEF IsSample, Cleared, None
  <2>2. CASE base' = base /\ mirror' = mirror
    BY <1>1, <2>2
  <2>3. CASE base' = base /\ mirror' = poll.base /\ poll.at = "mirror"
    BY <1>1, <2>3 DEF StatsInv, StatsTypes, PollTypes, BaselinesInOrder
  <2> QED BY <1>2, <2>1, <2>2, <2>3
<1>4. StatsTypes'
  <2>1. PollTypes' /\ CallTypes'
    BY <1>1, <1>2, <1>3 DEF StatsTypes, PollTypes, CallTypes
  <2> QED BY <1>1, <1>3, <2>1 DEF StatsTypes
<1>5. PollsInOrder'
  BY <1>1, <1>2 DEF StatsInv, PollsInOrder
<1>6. BaselinesInOrder'
  <2>1. ~Dropping' => Follows(base', LatestPoll)
    BY <1>2, <1>3 DEF StatsInv, BaselinesInOrder, Dropping
  <2>2. poll'.at = "mirror" => poll'.base = base'
    BY <1>2
  <2> QED BY <1>1, <1>3, <2>1, <2>2 DEF StatsInv, BaselinesInOrder
<1>7. WrittenInOrder'
  BY <1>1, <1>2 DEF StatsInv, WrittenInOrder, InFlight
<1> QED BY <1>4, <1>5, <1>6, <1>7 DEF StatsInv

LEMMA MarkInv ==
  ASSUME StatsInv, MirrorMark \/ Mark
  PROVE  StatsInv'
<1>1. /\ UNCHANGED <<file, unread, poll, stored, proc, latest, heldBack, window, written>>
      /\ LatestPoll' = LatestPoll /\ InFlight' = InFlight /\ StatsTypes
      /\ call.base \in Samples /\ Follows(call.base, LatestPoll)
      /\ base \in Samples /\ mirror \in Samples /\ stored \in Samples /\ LatestPoll \in Samples
      /\ Follows(LatestPoll, stored) /\ Follows(base, stored) /\ Follows(mirror, stored)
  BY LatestType DEF MirrorMark, Mark, callOnly, LatestPoll, InFlight, StatsInv, StatsTypes, CallTypes,
         PollsInOrder, BaselinesInOrder
<1>2. Follows(call.base, stored)
  BY <1>1, SamplesAreCounted, FollowsOn
<1>3. \/ /\ base' = base /\ mirror' = call.base /\ call' = [at |-> "memory", base |-> call.base]
      \/ base' = base /\ mirror' = mirror /\ call' = [at |-> "idle"]
      \/ base' = call.base /\ mirror' = mirror /\ call' = [at |-> "idle"]
  BY DEF MirrorMark, Mark
<1>4. /\ base' \in Samples /\ Follows(base', stored)
      /\ mirror' \in Samples /\ Follows(mirror', stored)
      /\ base' = base \/ Follows(base', LatestPoll)
  BY <1>1, <1>2, <1>3
<1>5. StatsTypes'
  <2>1. PollTypes' /\ CallTypes'
    BY <1>1, <1>3 DEF StatsTypes, PollTypes, CallTypes
  <2> QED BY <1>1, <1>4, <2>1 DEF StatsTypes
<1>6. PollsInOrder' /\ WrittenInOrder'
  BY <1>1 DEF StatsInv, PollsInOrder, WrittenInOrder
<1>7. BaselinesInOrder'
  <2>1. ~Dropping' => Follows(base', LatestPoll)
    BY <1>1, <1>4 DEF StatsInv, BaselinesInOrder, Dropping
  <2> QED BY <1>1, <1>3, <1>4, <2>1 DEF StatsInv, BaselinesInOrder
<1> QED BY <1>5, <1>6, <1>7 DEF StatsInv

(***************************************************************************)
(* The counter's events.                                                   *)
(***************************************************************************)
LEMMA RecordPollInv ==
  ASSUME StatsInv, RecordPoll
  PROVE  StatsInv'
<1>1. /\ UNCHANGED <<pollOnly, unread, stored, heldBack, window>>
      /\ StatsTypes /\ poll.at = "count"
      /\ latest' = stored /\ IsSample(stored) /\ stored \in Samples /\ latest \in Samples
      /\ poll' = [at |-> "merge", jump |-> Jump(latest, stored)]
      /\ written' = IF written = Uncounted THEN stored.total ELSE written
  BY DEF RecordPoll, StartCount, StatsInv, StatsTypes, PollsInOrder
<1>2. /\ LatestPoll' = stored /\ ~Dropping' /\ InFlight' = Jump(latest, stored) /\ InFlight = 0
      /\ IsSample(latest) => LatestPoll = latest /\ Follows(latest, stored)
      /\ ~IsSample(latest) => LatestPoll = stored
  BY <1>1 DEF LatestPoll, Dropping, InFlight, StatsInv, PollsInOrder
<1>3. /\ Jump(latest, stored) \in Nat
      /\ IsSample(latest) => Jump(latest, stored) <= stored.total - LatestPoll.total
      /\ ~IsSample(latest) => Jump(latest, stored) = 0
      /\ LatestPoll.total \in Nat /\ stored.total \in Nat
  <2>1. LatestPoll \in Samples
    BY <1>1, <1>2
  <2> QED BY <1>1, <1>2, <2>1, JumpFits DEF Samples
<1>4. StatsTypes'
  <2>1. PollTypes' /\ CallTypes'
    BY <1>1, <1>3 DEF StatsTypes, PollTypes, CallTypes, pollOnly
  <2>2. written' \in Nat \cup {Uncounted}
    BY <1>1, <1>3 DEF StatsTypes
  <2> QED BY <1>1, <2>1, <2>2 DEF StatsTypes, pollOnly
<1>5. PollsInOrder' /\ BaselinesInOrder'
  <2>1. Follows(stored, stored) /\ Follows(base, stored)
    BY <1>1, SamplesAreCounted, FollowsSelf DEF StatsInv, BaselinesInOrder
  <2>2. call.at \in {"mirror", "memory"} => Follows(call.base, stored)
    <3> SUFFICES ASSUME call.at \in {"mirror", "memory"} PROVE Follows(call.base, stored)
      OBVIOUS
    <3>1. /\ call.base \in Samples /\ Follows(call.base, LatestPoll) /\ LatestPoll \in Samples
          /\ Follows(LatestPoll, stored)
      BY <1>1, LatestType DEF StatsInv, StatsTypes, CallTypes, BaselinesInOrder, PollsInOrder
    <3> QED BY <1>1, <3>1, SamplesAreCounted, FollowsOn
  <2>3. PollsInOrder'
    BY <1>1, <1>2, <2>1 DEF StatsInv, PollsInOrder, pollOnly
  <2>4. BaselinesInOrder'
    BY <1>1, <1>2, <2>1, <2>2 DEF StatsInv, BaselinesInOrder, pollOnly
  <2> QED BY <2>3, <2>4
<1>6. WrittenInOrder'
  <2>1. CASE written = Uncounted
    <3>1. heldBack = 0 /\ ~IsSample(latest)
      BY <2>1 DEF StatsInv, WrittenInOrder
    <3> QED BY <1>1, <1>2, <1>3, <2>1, <3>1 DEF WrittenInOrder, Uncounted
  <2>2. CASE written # Uncounted
    <3>1. written + heldBack <= LatestPoll.total /\ written \in Nat /\ heldBack \in Nat
      BY <1>1, <1>2, <2>2 DEF StatsInv, WrittenInOrder, StatsTypes
    <3> QED BY <1>1, <1>2, <1>3, <2>2, <3>1 DEF WrittenInOrder
  <2> QED BY <2>1, <2>2
<1> QED BY <1>4, <1>5, <1>6 DEF StatsInv

LEMMA EventInv ==
  ASSUME StatsInv, CounterPoll \/ TakeHeld \/ CounterWindowPasses
  PROVE  StatsInv'
<1>1. /\ UNCHANGED <<proc, file, unread, latest, stored, base, mirror>>
      /\ LatestPoll' = LatestPoll /\ StatsTypes /\ heldBack \in Nat
      /\ poll.at = "merge" => poll.jump \in Nat
  BY DEF CounterPoll, TakeHeld, CounterWindowPasses, callOnly, pollOnly, LatestPoll, StatsInv,
         StatsTypes, PollTypes
<1>2. /\ window' \in BOOLEAN /\ heldBack' \in Nat
      /\ written' \in Int /\ written <= written'
      /\ \/ poll' = poll
         \/ poll' = [at |-> "idle"] /\ poll.at = "merge"
      /\ \/ call' = call
         \/ call' = [at |-> "latest"]
      /\ written' + heldBack' + InFlight' = written + heldBack + InFlight
      /\ written = Uncounted => written' = written /\ heldBack' = heldBack
  <2>0. written \in Int /\ window \in BOOLEAN
    BY <1>1 DEF StatsTypes, Uncounted
  <2>1. CASE CounterPoll
    <3> DEFINE r == Ready(heldBack + poll.jump, FALSE)
    <3>1. /\ poll.at = "merge" /\ heldBack' = r.held /\ window' = r.window
          /\ written' = written + r.out /\ poll' = [at |-> "idle"] /\ call' = call
      BY <2>1 DEF CounterPoll, pollOnly
    <3>2. /\ r.out \in Nat /\ r.held \in Nat /\ r.out + r.held = heldBack + poll.jump
          /\ r.window \in BOOLEAN
      <4> PICK d \in Nat : d = heldBack + poll.jump
        BY <1>1, <3>1
      <4> QED BY <2>0, ReadyFits
    <3>3. written # Uncounted
      BY <3>1 DEF StatsInv, WrittenInOrder
    <3> HIDE DEF r
    <3> QED BY <1>1, <2>0, <3>1, <3>2, <3>3 DEF InFlight
  <2>2. CASE TakeHeld
    <3> DEFINE r == Ready(heldBack, TRUE)
    <3>1. /\ heldBack' = r.held /\ window' = r.window
          /\ written' = written + r.out /\ poll' = poll /\ call' = [at |-> "latest"]
      BY <2>2 DEF TakeHeld, callOnly
    <3>2. /\ r.out \in Nat /\ r.held \in Nat /\ r.out + r.held = heldBack
          /\ r.window \in BOOLEAN
      BY <1>1, <2>0, ReadyFits
    <3>3. written = Uncounted => heldBack = 0
      BY DEF StatsInv, WrittenInOrder
    <3>4. InFlight' = InFlight /\ InFlight \in Nat
      BY <1>1, <3>1 DEF InFlight
    <3> HIDE DEF r
    <3> QED BY <1>1, <2>0, <3>1, <3>2, <3>3, <3>4
  <2>3. CASE CounterWindowPasses
    <3>1. /\ window' = FALSE /\ heldBack' = heldBack /\ written' = written
          /\ poll' = poll /\ call' = call
      BY <2>3 DEF CounterWindowPasses, pollOnly
    <3>2. InFlight' = InFlight
      BY <3>1 DEF InFlight
    <3>3. window' \in BOOLEAN
      BY <3>1
    <3> QED BY <1>1, <2>0, <3>1, <3>2, <3>3
  <2> QED BY <2>1, <2>2, <2>3
<1>3. StatsTypes'
  <2>1. PollTypes' /\ CallTypes'
    BY <1>1, <1>2 DEF StatsTypes, PollTypes, CallTypes
  <2>2. written' \in Nat \cup {Uncounted}
    BY <1>1, <1>2 DEF StatsTypes, Uncounted
  <2> QED BY <1>1, <1>2, <2>1, <2>2 DEF StatsTypes
<1>4. PollsInOrder' /\ BaselinesInOrder'
  <2>1. Dropping' <=> Dropping
    BY <1>1, <1>2 DEF Dropping
  <2> QED BY <1>1, <1>2, <2>1 DEF StatsInv, PollsInOrder, BaselinesInOrder
<1>5. WrittenInOrder'
  <2>1. written # Uncounted => written' # Uncounted
    BY <1>1, <1>2 DEF StatsTypes, Uncounted
  <2> QED BY <1>1, <1>2, <2>1 DEF StatsInv, WrittenInOrder
<1> QED BY <1>3, <1>4, <1>5 DEF StatsInv

(***************************************************************************)
(* The cache, and what leaves the samples alone.                           *)
(***************************************************************************)
LEMMA CacheInv ==
  ASSUME StatsInv, TakeLatest \/ Summarise
  PROVE  StatsInv'
<1>1. /\ UNCHANGED <<proc, file, unread, poll, stored, base, mirror, heldBack, window>>
      /\ latest' = LatestPoll /\ LatestPoll \in Samples
      /\ written' = IF written = Uncounted /\ IsSample(LatestPoll) THEN LatestPoll.total ELSE written
      /\ StatsTypes
  BY LatestType DEF TakeLatest, Summarise, CacheLatestPoll, StartCount, callOnly, StatsInv
<1>2. \/ call' = call
      \/ call' = [at |-> "mirror", base |-> LatestPoll]
  BY DEF TakeLatest, Summarise
<1>3. LatestPoll' = LatestPoll /\ (Dropping' <=> Dropping) /\ InFlight' = InFlight
  BY <1>1 DEF LatestPoll, Dropping, InFlight
<1>4. StatsTypes'
  <2>1. PollTypes' /\ CallTypes'
    BY <1>1, <1>2 DEF StatsTypes, PollTypes, CallTypes
  <2>2. written' \in Nat \cup {Uncounted}
    BY <1>1 DEF StatsTypes, Samples
  <2> QED BY <1>1, <2>1, <2>2 DEF StatsTypes
<1>5. PollsInOrder' /\ BaselinesInOrder'
  <2>1. Follows(LatestPoll, LatestPoll)
    BY <1>1, SamplesAreCounted, FollowsSelf
  <2> QED BY <1>1, <1>2, <1>3, <2>1 DEF StatsInv, PollsInOrder, BaselinesInOrder
<1>6. WrittenInOrder'
  <2>1. CASE written = Uncounted
    <3>1. heldBack = 0 /\ poll.at # "merge" /\ LatestPoll.total \in Nat
      BY <1>1, <2>1 DEF StatsInv, WrittenInOrder, Samples
    <3> QED BY <1>1, <1>3, <2>1, <3>1 DEF WrittenInOrder, InFlight, Uncounted
  <2>2. CASE written # Uncounted
    BY <1>1, <1>3, <2>2 DEF StatsInv, WrittenInOrder
  <2> QED BY <2>1, <2>2
<1> QED BY <1>4, <1>5, <1>6 DEF StatsInv

\* The cached poll is dropped: what is left is the database's.
LEMMA DropInv ==
  ASSUME StatsInv, Forget \/ PanelRestart
  PROVE  StatsInv'
<1>1. /\ UNCHANGED <<proc, file, poll, stored, mirror, written, call>>
      /\ poll.at = "idle" /\ latest' = None /\ StatsTypes
      /\ \/ base' = base /\ unread' = unread
         \/ base' = mirror /\ unread' = IsSample(file) /\ call.at = "idle"
      /\ heldBack' \in Nat /\ heldBack' <= heldBack
      /\ base' \in Samples /\ base \in Samples /\ mirror \in Samples
  BY DEF Forget, PanelRestart, pollOnly, StatsInv, StatsTypes
<1>2. window' \in BOOLEAN /\ unread' \in BOOLEAN
  BY DEF Forget, PanelRestart, pollOnly, StatsInv, StatsTypes, IsSample
<1>3. StatsTypes'
  <2>1. PollTypes' /\ CallTypes'
    BY <1>1 DEF StatsTypes, PollTypes, CallTypes
  <2> QED BY <1>1, <1>2, <2>1, NoneIsASample DEF StatsTypes
<1>4. /\ LatestPoll' = stored /\ stored \in Samples /\ LatestPoll \in Samples
      /\ Follows(LatestPoll, stored) /\ Follows(stored, stored)
      /\ ~Dropping /\ ~Dropping' /\ InFlight = 0 /\ InFlight' = 0
  BY <1>1, LatestType, NoneIsASample, SamplesAreCounted, FollowsSelf
  DEF LatestPoll, StatsTypes, StatsInv, PollsInOrder, Dropping, InFlight
<1>5. PollsInOrder'
  BY <1>1, <1>4 DEF StatsInv, PollsInOrder
<1>6. BaselinesInOrder'
  <2>1. Follows(base', stored)
    BY <1>1 DEF StatsInv, BaselinesInOrder
  <2>2. call.at \in {"mirror", "memory"} => Follows(call.base, stored)
    BY <1>1, <1>4, SamplesAreCounted, FollowsOn DEF StatsInv, StatsTypes, CallTypes, BaselinesInOrder
  <2> QED BY <1>1, <1>4, <2>1, <2>2 DEF StatsInv, BaselinesInOrder
<1>7. WrittenInOrder'
  <2>1. /\ LatestPoll.total \in Nat /\ stored.total \in Nat /\ LatestPoll.total <= stored.total
        /\ heldBack \in Nat /\ written \in Nat \cup {Uncounted}
    BY <1>1, <1>4 DEF Samples, Follows, StatsTypes
  <2> QED BY <1>1, <1>4, <2>1, NoneIsASample DEF StatsInv, WrittenInOrder
<1> QED BY <1>3, <1>5, <1>6, <1>7 DEF StatsInv

LEMMA RestartInv ==
  ASSUME StatsInv, Restart
  PROVE  StatsInv'
<1>1. /\ UNCHANGED <<file, unread, poll, stored, latest, base, mirror, heldBack, window, written>>
      /\ call' = [at |-> "events"] /\ StatsTypes
      /\ proc' = proc \/ proc' = Fresh
      /\ LatestPoll' = LatestPoll /\ (Dropping' <=> Dropping) /\ InFlight' = InFlight
  BY DEF Restart, callOnly, StatsInv, LatestPoll, Dropping, InFlight
<1>2. /\ proc' \in Processes /\ proc'.run > 0 /\ Follows(proc, proc') /\ CountedSoFar(proc')
      /\ CountedSoFar(proc) /\ CountedSoFar(file)
  <2>0. proc \in Processes /\ CountedSoFar(proc) /\ CountedSoFar(file) /\ proc.run > 0
    BY <1>1, SamplesAreCounted DEF StatsTypes, Processes, CountedSoFar
  <2>1. CASE proc' = proc
    BY <2>0, <2>1, FollowsSelf
  <2>2. CASE proc' = Fresh
    <3> PICK n \in Nat : n = proc.run + 1
      BY <2>0 DEF Processes
    <3>1. proc' = [proc EXCEPT !.run = n, !.cpu = 0, !.count = 0]
      BY <2>2 DEF Fresh
    <3>2. /\ proc'.run = n /\ proc'.cpu = 0 /\ proc'.count = 0 /\ proc'.total = proc.total
          /\ proc' \in Processes
      BY <2>0, <3>1 DEF Processes
    <3> QED BY <2>0, <3>2 DEF Follows, CountedSoFar
  <2> QED BY <1>1, <2>1, <2>2
<1>3. Follows(file, proc')
  BY <1>2, FollowsOn DEF StatsInv, PollsInOrder
<1>4. StatsTypes'
  <2>1. PollTypes' /\ CallTypes'
    BY <1>1 DEF StatsTypes, PollTypes, CallTypes
  <2> QED BY <1>1, <1>2, <2>1 DEF StatsTypes
<1>5. PollsInOrder' /\ BaselinesInOrder' /\ WrittenInOrder'
  BY <1>1, <1>3 DEF StatsInv, PollsInOrder, BaselinesInOrder, WrittenInOrder
<1> QED BY <1>4, <1>5 DEF StatsInv

LEMMA StatsStep == StatsInv /\ [StatsNext]_statsVars => StatsInv'
<1> SUFFICES ASSUME StatsInv, [StatsNext]_statsVars PROVE StatsInv'
  OBVIOUS
<1>1. CASE UNCHANGED statsVars
  <2>1. LatestPoll' = LatestPoll /\ (Dropping' <=> Dropping) /\ InFlight' = InFlight
    BY <1>1 DEF statsVars, LatestPoll, Dropping, InFlight
  <2>2. StatsTypes'
    BY <1>1 DEF statsVars, StatsInv, StatsTypes, PollTypes, CallTypes
  <2>3. PollsInOrder' /\ BaselinesInOrder' /\ WrittenInOrder'
    BY <1>1, <2>1 DEF statsVars, StatsInv, PollsInOrder, BaselinesInOrder, WrittenInOrder
  <2> QED BY <2>2, <2>3 DEF StatsInv
<1>2. CASE PollStep
  BY <1>2, ReadingInv, StoreInv, ResetInv, RecordPollInv, EventInv DEF PollStep
<1>3. CASE CallStep
  BY <1>3, EventInv, CacheInv, MarkInv DEF CallStep
<1>4. CASE WriteStats \/ OutsideRestart
  BY <1>4, FileInv
<1>5. CASE CounterWindowPasses \/ Forget \/ Restart \/ Summarise \/ PanelRestart
  BY <1>5, EventInv, DropInv, RestartInv, CacheInv
<1> QED BY <1>1, <1>2, <1>3, <1>4, <1>5 DEF StatsNext

LEMMA StatsSound == StatsSpec => []StatsInv
BY StatsStart, StatsStep, PTL DEF StatsSpec

(***************************************************************************)
(* stats.rs record_poll and events.rs counter_poll: what the counter's     *)
(* events say, what is held back and what is on its way never come to more *)
(* than the polls have seen, whatever fails, restarts or is read cold.     *)
(***************************************************************************)
THEOREM IncreasesCountOnce == StatsSpec => []NoJumpTwice
<1>1. StatsInv => NoJumpTwice
  BY DEF StatsInv, WrittenInOrder, NoJumpTwice
<1> QED BY <1>1, StatsSound, PTL

(***************************************************************************)
(* stats.rs mark_baseline, check_reset and summaries: the total shown is   *)
(* what was counted since the baseline's poll, exactly while the process   *)
(* is the same and never more after any number of restarts.                *)
(***************************************************************************)
THEOREM TotalsAreSinceBaseline == StatsSpec => []TotalSinceBaseline
<1>1. StatsInv => TotalSinceBaseline
  <2> SUFFICES ASSUME StatsInv, IsSample(LatestPoll), ~Dropping
               PROVE  LET rise == LatestPoll.total - base.total
                      IN  IF LatestPoll.run = base.run THEN Shown = rise ELSE Shown <= rise
    BY DEF TotalSinceBaseline
  <2>1. Follows(base, LatestPoll) /\ base \in Samples /\ LatestPoll \in Samples
    BY LatestType DEF StatsInv, BaselinesInOrder, StatsTypes
  <2> PICK s \in Samples : s = LatestPoll
    BY <2>1
  <2>2. CASE s.run = base.run
    BY <2>1, <2>2 DEF Follows, Shown, Above, ResetBy, WentBack, Samples
  <2>3. CASE s.run # base.run
    BY <2>1, <2>3 DEF Follows, Shown, Above, Samples
  <2> QED BY <2>2, <2>3
<1> QED BY <1>1, StatsSound, PTL

-----------------------------------------------------------------------------
(***************************************************************************)
(* Proofs about UnitWatch, for any number of starts and any grace period of *)
(* two polls or more: a start is reported at most once, and the panel's own *)
(* restart only between systemctl's return and the note.  The argument:     *)
(* what the watcher sees only moves forward, and a start of the panel's own *)
(* that it has not yet seen still has enough of the grace period left for   *)
(* the poll under way, if that one read too early, and for the next.        *)
(***************************************************************************)
UnitStates == {"active", "inactive", "failed", "unseen"}
Statuses == [state : UnitStates, entered : 0..MaxStarts]

UnitTypes ==
  /\ unit \in Statuses
  /\ lastSeen \in Statuses
  /\ watch = [at |-> "idle"] \/ (watch = [at |-> "judge", status |-> watch.status]
                                /\ watch.status \in Statuses)
  /\ grace \in Nat
  /\ restart \in {"idle", "stopped", "unnoted"}
  /\ restart = "stopped" => unit.entered < MaxStarts
  /\ mine \subseteq 1..unit.entered
  /\ reported \in [Starts -> Nat]

\* What was seen is not newer than what is read, nor that than the unit.
SeenInOrder ==
  /\ lastSeen.entered <= unit.entered
  /\ watch.at = "judge" =>
       lastSeen.entered <= watch.status.entered /\ watch.status.entered <= unit.entered

ReportsAreOfSeen ==
  \A s \in Starts : reported[s] <= 1 /\ (reported[s] = 1 => s <= lastSeen.entered)

\* An own start that was noted and is yet to be seen is within its grace period.
GraceLasts ==
  restart # "unnoted" =>
    \A s \in mine : lastSeen.entered < s =>
      \/ grace >= 2
      \/ grace >= 1 /\ (watch.at = "judge" => s <= watch.status.entered)

WatchInv == UnitTypes /\ SeenInOrder /\ ReportsAreOfSeen /\ GraceLasts

LEMMA Reads ==
  ASSUME WatchInv
  PROVE  /\ MaxStarts \in Nat /\ unit.entered \in 0..MaxStarts /\ lastSeen.entered \in 0..MaxStarts
         /\ watch.at = "judge" => watch.status \in Statuses /\ watch.status.entered \in 0..MaxStarts
         /\ \A s \in mine : s \in Nat /\ s <= unit.entered
<1>1. MaxStarts \in Nat /\ unit.entered \in 0..MaxStarts /\ lastSeen.entered \in 0..MaxStarts
  BY UnitWatchAssumption DEF WatchInv, UnitTypes, Statuses
<1>2. watch.at = "judge" => watch.status \in Statuses /\ watch.status.entered \in 0..MaxStarts
  BY DEF WatchInv, UnitTypes, Statuses
<1>3. \A s \in mine : s \in Nat /\ s <= unit.entered
  BY <1>1 DEF WatchInv, UnitTypes
<1> QED BY <1>1, <1>2, <1>3

LEMMA InitWatchInv == UnitInit => WatchInv
<1> SUFFICES ASSUME UnitInit PROVE WatchInv
  OBVIOUS
<1>1. UnitTypes
  BY UnitWatchAssumption DEF UnitInit, UnitTypes, Statuses, UnitStates, Unseen
<1>2. SeenInOrder /\ ReportsAreOfSeen /\ GraceLasts
  BY DEF UnitInit, SeenInOrder, ReportsAreOfSeen, GraceLasts, Unseen
<1> QED BY <1>1, <1>2 DEF WatchInv

\* The unit changes: only forward.
LEMMA UnitMoves ==
  ASSUME WatchInv, UNCHANGED <<lastSeen, watch, grace, reported>>,
         unit' \in Statuses, unit.entered <= unit'.entered,
         restart' = "stopped" => unit'.entered < MaxStarts,
         \/ UNCHANGED mine /\ restart' \in {restart, "stopped"} /\ (restart' = "stopped" => restart # "unnoted")
         \/ UNCHANGED mine /\ restart = "stopped" /\ restart' = "idle"
         \/ mine' = mine \cup {unit'.entered} /\ restart' = "unnoted" /\ unit'.entered > 0
  PROVE  WatchInv'
<1>1. MaxStarts \in Nat /\ unit.entered \in 0..MaxStarts /\ unit'.entered \in 0..MaxStarts
      /\ lastSeen.entered \in 0..MaxStarts
  BY Reads DEF Statuses
<1>2. UnitTypes'
  <2>1. mine' \subseteq 1..unit'.entered
    BY <1>1 DEF WatchInv, UnitTypes
  <2> QED BY <2>1 DEF WatchInv, UnitTypes
<1>3. SeenInOrder'
  BY <1>1, Reads DEF WatchInv, SeenInOrder
<1>4. ReportsAreOfSeen' /\ GraceLasts'
  BY DEF WatchInv, ReportsAreOfSeen, GraceLasts
<1> QED BY <1>2, <1>3, <1>4 DEF WatchInv

LEMMA UnitStepInv ==
  ASSUME WatchInv, OutsideStart \/ End \/ BeginRestart \/ EndRestart
  PROVE  WatchInv'
<1>1. MaxStarts \in Nat /\ unit \in Statuses /\ unit.entered \in 0..MaxStarts
      /\ unit = [state |-> unit.state, entered |-> unit.entered] /\ unit.state \in UnitStates
      /\ restart \in {"idle", "stopped", "unnoted"}
  BY Reads DEF WatchInv, UnitTypes, Statuses
<1>2. unit.entered < MaxStarts => Started \in Statuses /\ Started.entered = unit.entered + 1
  BY <1>1 DEF Started, Statuses, UnitStates
<1>3. \A s \in UnitStates : /\ [unit EXCEPT !.state = s] \in Statuses
                            /\ [unit EXCEPT !.state = s].entered = unit.entered
  BY <1>1 DEF Statuses
<1>4. CASE OutsideStart
  <2>1. unit' = Started /\ unit.entered < MaxStarts
        /\ UNCHANGED <<lastSeen, watch, grace, restart, reported, mine>>
    BY <1>4 DEF OutsideStart, unitOnly
  <2>2. unit' \in Statuses /\ unit.entered <= unit'.entered /\ restart # "stopped"
    BY <1>1, <1>2, <1>4, <2>1 DEF OutsideStart
  <2> QED BY <2>1, <2>2, UnitMoves
<1>5. CASE End
  <2>1. /\ \E s \in UnitStates : unit' = [unit EXCEPT !.state = s]
        /\ UNCHANGED <<lastSeen, watch, grace, restart, reported, mine>>
    BY <1>5 DEF End, unitOnly, UnitStates
  <2>2. unit' \in Statuses /\ unit.entered = unit'.entered
    BY <1>1, <1>3, <2>1
  <2>3. restart = "stopped" => unit.entered < MaxStarts
    BY DEF WatchInv, UnitTypes
  <2> QED BY <1>1, <2>1, <2>2, <2>3, UnitMoves
<1>6. CASE BeginRestart
  <2>1. /\ restart = "idle" /\ restart' = "stopped"
        /\ \E s \in UnitStates : unit' = [unit EXCEPT !.state = s]
        /\ unit.entered < MaxStarts
        /\ UNCHANGED <<lastSeen, watch, grace, reported, mine>>
    BY <1>1, <1>6 DEF BeginRestart, panelOnly, UnitStates
  <2>2. unit' \in Statuses /\ unit.entered = unit'.entered
    BY <1>1, <1>3, <2>1
  <2> QED BY <1>1, <2>1, <2>2, UnitMoves
<1>7. CASE EndRestart /\ restart' = "unnoted"
  <2>1. /\ unit' = Started /\ mine' = mine \cup {unit'.entered}
        /\ UNCHANGED <<lastSeen, watch, grace, reported>>
    BY <1>7 DEF EndRestart, panelOnly
  <2>2. unit.entered < MaxStarts
    BY <1>7 DEF EndRestart, WatchInv, UnitTypes
  <2>3. unit' \in Statuses /\ unit.entered <= unit'.entered /\ unit'.entered > 0
    BY <1>1, <1>2, <2>1, <2>2
  <2> QED BY <1>7, <2>1, <2>3, UnitMoves
<1>8. CASE EndRestart /\ restart' = "idle"
  <2>1. /\ restart = "stopped" /\ unit' = [unit EXCEPT !.state = "failed"] /\ "failed" \in UnitStates
        /\ UNCHANGED <<lastSeen, watch, grace, reported, mine>>
    BY <1>8 DEF EndRestart, panelOnly, UnitStates
  <2>2. unit' \in Statuses /\ unit.entered <= unit'.entered
    BY <1>1, <1>3, <2>1
  <2> QED BY <1>8, <2>1, <2>2, UnitMoves
<1> QED BY <1>4, <1>5, <1>6, <1>7, <1>8 DEF EndRestart

LEMMA NoteInv ==
  ASSUME WatchInv, Note
  PROVE  WatchInv'
<1>1. grace' = Grace /\ restart' = "idle" /\ UNCHANGED <<unit, mine, lastSeen, watch, reported>>
  BY DEF Note, panelOnly
<1>2. grace' \in Nat /\ grace' >= 2
  BY <1>1, UnitWatchAssumption
<1> QED BY <1>1, <1>2 DEF WatchInv, UnitTypes, SeenInOrder, ReportsAreOfSeen, GraceLasts

LEMMA ReadInv ==
  ASSUME WatchInv, Read \/ ReadFails
  PROVE  WatchInv'
<1>1. CASE Read
  <2>1. /\ watch.at = "idle" /\ watch' = [at |-> "judge", status |-> unit]
        /\ UNCHANGED <<unit, lastSeen, grace, restart, mine, reported>>
    BY <1>1 DEF Read
  <2>2. UnitTypes'
    BY <2>1 DEF WatchInv, UnitTypes
  <2>3. SeenInOrder'
    BY <2>1, Reads DEF WatchInv, SeenInOrder
  <2>4. ReportsAreOfSeen' /\ GraceLasts'
    BY <2>1, Reads DEF WatchInv, UnitTypes, ReportsAreOfSeen, GraceLasts
  <2> QED BY <2>2, <2>3, <2>4 DEF WatchInv
<1>2. CASE ReadFails
  <2>1. /\ watch.at = "idle" /\ grace > 1 /\ grace' = grace - 1 /\ grace \in Nat
        /\ UNCHANGED <<unit, lastSeen, watch, restart, mine, reported>>
    BY <1>2 DEF ReadFails, WatchInv, UnitTypes
  <2>2. grace' \in Nat /\ grace' >= 1
    BY <2>1
  <2>3. GraceLasts'
    BY <2>1, <2>2 DEF GraceLasts
  <2> QED BY <2>1, <2>2, <2>3 DEF WatchInv, UnitTypes, SeenInOrder, ReportsAreOfSeen
<1> QED BY <1>1, <1>2

LEMMA JudgeInv ==
  ASSUME WatchInv, Judge
  PROVE  WatchInv' /\ \A s \in mine : reported'[s] > reported[s] => restart = "unnoted"
<1> DEFINE now == watch.status
<1> DEFINE reports == lastSeen # Unseen /\ Restarted(lastSeen, now) /\ grace = 0
<1>1. /\ watch.at = "judge" /\ lastSeen' = now /\ watch' = [at |-> "idle"]
      /\ grace' = (IF grace > 0 THEN grace - 1 ELSE 0)
      /\ reported' = IF reports THEN [reported EXCEPT ![now.entered] = @ + 1] ELSE reported
      /\ UNCHANGED <<unit, restart, mine>>
  BY DEF Judge, Remembered
<1>2. reports => now.entered # 0 /\ now.entered # lastSeen.entered /\ grace = 0
  BY DEF Restarted
<1> HIDE DEF reports, now
<1>3. /\ MaxStarts \in Nat /\ now \in Statuses /\ now.entered \in 0..MaxStarts
      /\ lastSeen.entered \in 0..MaxStarts /\ lastSeen.entered <= now.entered
      /\ unit.entered \in 0..MaxStarts /\ now.entered <= unit.entered
      /\ grace \in Nat /\ reported \in [Starts -> Nat]
  BY <1>1, Reads DEF WatchInv, UnitTypes, SeenInOrder, now
<1>4. reports => now.entered \in Starts /\ reported[now.entered] = 0
  <2>1. reports => now.entered \in Starts /\ lastSeen.entered < now.entered
    BY <1>2, <1>3 DEF Starts
  <2> QED BY <1>3, <2>1 DEF WatchInv, ReportsAreOfSeen
<1>5. \A s \in Starts : /\ reports /\ s = now.entered => reported'[s] = 1
                        /\ ~(reports /\ s = now.entered) => reported'[s] = reported[s]
  BY <1>1, <1>3, <1>4
<1>6. UnitTypes'
  <2>1. reported' \in [Starts -> Nat] /\ grace' \in Nat
    BY <1>1, <1>3, <1>4
  <2> QED BY <1>1, <1>3, <2>1 DEF WatchInv, UnitTypes
<1>7. SeenInOrder'
  BY <1>1, <1>3 DEF SeenInOrder
<1>8. ReportsAreOfSeen'
  <2> SUFFICES ASSUME NEW s \in Starts PROVE reported'[s] <= 1 /\ (reported'[s] = 1 => s <= now.entered)
    BY <1>1 DEF ReportsAreOfSeen
  <2>1. reported[s] <= 1 /\ (reported[s] = 1 => s <= lastSeen.entered) /\ s \in Nat
    BY DEF WatchInv, ReportsAreOfSeen, Starts
  <2> QED BY <1>3, <1>5, <2>1
<1>9. GraceLasts'
  <2> SUFFICES ASSUME restart # "unnoted", NEW s \in mine, now.entered < s
               PROVE  grace' >= 1
    BY <1>1 DEF GraceLasts
  <2>1. s \in Nat /\ lastSeen.entered < s /\ ~(s <= now.entered)
    BY <1>3, Reads
  <2>2. grace >= 2
    BY <1>1, <2>1 DEF WatchInv, GraceLasts, now
  <2> QED BY <1>1, <1>3, <2>2
<1>10. ASSUME NEW s \in mine, reported'[s] > reported[s], restart # "unnoted"
       PROVE  FALSE
  <2>1. s \in Starts
    BY <1>3 DEF WatchInv, UnitTypes, Starts
  <2>2. reports /\ s = now.entered
    BY <1>3, <1>5, <1>10, <2>1
  <2>3. lastSeen.entered < s /\ grace = 0
    BY <1>2, <1>3, <2>2
  <2> QED BY <1>10, <2>3 DEF WatchInv, GraceLasts
<1> QED BY <1>6, <1>7, <1>8, <1>9, <1>10 DEF WatchInv

\* The invariant of the unit watcher holds in every state it reaches.
THEOREM WatchIsSound == UnitSpec => []WatchInv
<1>1. UnitInit => WatchInv
  BY InitWatchInv
<1>2. WatchInv /\ [UnitNext]_unitVars => WatchInv'
  <2>1. ASSUME WatchInv, UNCHANGED unitVars PROVE WatchInv'
    BY <2>1 DEF unitVars, WatchInv, UnitTypes, SeenInOrder, ReportsAreOfSeen, GraceLasts
  <2> QED BY <2>1, UnitStepInv, NoteInv, ReadInv, JudgeInv DEF UnitNext
<1> QED BY <1>1, <1>2, PTL DEF UnitSpec

\* A start is reported at most once, however polls and failed reads fall
\* (unit_change_events, events.rs).
THEOREM StartsReportedOnce == UnitSpec => []ReportedOnce
<1>1. WatchInv => ReportedOnce
  BY DEF WatchInv, ReportsAreOfSeen, ReportedOnce
<1> QED BY <1>1, WatchIsSound, PTL

\* Noting a restart is enough: a later poll never reports it, also when the status
\* it judges was read before the note (EventLog::restarted, events.rs).
THEOREM OwnRestartsAreQuiet == UnitSpec => OwnRestartNotReported
<1>1. WatchInv /\ [UnitNext]_unitVars =>
        [\A s \in mine : reported'[s] > reported[s] => restart = "unnoted"]_unitVars
  <2> SUFFICES ASSUME WatchInv, UnitNext, NEW s \in mine, reported'[s] > reported[s]
               PROVE  restart = "unnoted"
    OBVIOUS
  <2>1. ~UNCHANGED reported
    <3>1. s \in Starts /\ reported \in [Starts -> Nat]
      BY Reads DEF WatchInv, UnitTypes, Starts
    <3> QED BY <3>1
  <2>2. Judge
    BY <2>1 DEF UnitNext, OutsideStart, End, BeginRestart, EndRestart, Note, Read, ReadFails,
                unitOnly, panelOnly
  <2> QED BY <2>2, JudgeInv
<1> QED BY <1>1, WatchIsSound, PTL DEF OwnRestartNotReported, UnitSpec

-----------------------------------------------------------------------------
(***************************************************************************)
(* Proofs about Journal's table of lines, for any instances, lines and      *)
(* limits: dropping entries when the table is full neither loses counts     *)
(* that are still fresh nor lets two copies of a line into one window.  The *)
(* argument: an entry's age is the time since its last stored copy, and a   *)
(* line without an entry has been quiet for as long as entries are kept.    *)
(***************************************************************************)
Entries == [age : 0..Retain, suppressed : Nat]

EntryIsCurrent(k) ==
  \/ entry[k] \in Entries /\ entry[k].age = since[k]
  \/ entry[k] = Absent /\ since[k] = Never

TableInv ==
  /\ DOMAIN entry = Keys
  /\ owed \in [Keys -> Int]
  /\ since \in [Keys -> 0..Retain]
  /\ \A k \in Keys : EntryIsCurrent(k)

LEMMA EntriesAreNotAbsent ==
  ASSUME NEW e \in Entries
  PROVE  e # Absent /\ e.age \in 0..Retain /\ e.suppressed \in Nat
         /\ e = [age |-> e.age, suppressed |-> e.suppressed]
<1>1. e.age \in 0..Retain /\ e.suppressed \in Nat /\ e = [age |-> e.age, suppressed |-> e.suppressed]
  BY DEF Entries
<1>2. e.age # -1
  BY <1>1, JournalAssumption
<1> QED BY <1>1, <1>2 DEF Absent

LEMMA InitTableInv == JournalInit => TableInv
BY JournalAssumption DEF JournalInit, TableInv, EntryIsCurrent, Never

LEMMA KeptCases ==
  ASSUME TableInv, NEW k \in Keys
  PROVE  /\ Kept(k) = entry[k] \/ (Kept(k) = Absent /\ entry[k].age >= Retain)
         /\ \/ Kept(k) \in Entries /\ Kept(k) = entry[k] /\ Kept(k).age = since[k]
            \/ Kept(k) = Absent /\ since[k] = Retain
<1>1. Kept(k) = entry[k] \/ (Kept(k) = Absent /\ entry[k].age >= Retain)
  BY DEF Kept
<1>2. Absent.age = -1 /\ Retain \in Nat \ {0}
  BY JournalAssumption DEF Absent
<1>3. entry[k].age >= Retain => since[k] = Retain
  <2>1. since[k] \in 0..Retain
    BY DEF TableInv
  <2> QED BY <1>2, <2>1 DEF TableInv, EntryIsCurrent, Never
<1> QED BY <1>1, <1>3 DEF TableInv, EntryIsCurrent, Never

LEMMA LineMoves ==
  ASSUME TableInv, NEW n \in Names, NEW l \in Lines, Line(n, l)
  PROVE  /\ TableInv'
         /\ Stored(Kept(<<n, l>>)) => since[<<n, l>>] >= 1
         /\ \A q \in Keys : Unreported(q)' > Unreported(q) => entry[q].age >= Retain
<1> DEFINE k == <<n, l>>
<1> DEFINE e == Kept(k)
<1>1. k \in Keys
  BY DEF Keys
<1>2. IF Stored(e)
        THEN /\ entry' = [q \in Keys |-> IF q = k THEN [age |-> 0, suppressed |-> 0] ELSE Kept(q)]
             /\ owed' = [owed EXCEPT ![k] = @ - e.suppressed]
             /\ since' = [since EXCEPT ![k] = 0]
        ELSE /\ entry' = [q \in Keys |-> IF q = k THEN [e EXCEPT !.suppressed = @ + 1] ELSE Kept(q)]
             /\ owed' = [owed EXCEPT ![k] = @ + 1]
             /\ UNCHANGED since
  BY DEF Line
<1>3. /\ e = entry[k] \/ (e = Absent /\ entry[k].age >= Retain)
      /\ \/ e \in Entries /\ e = entry[k] /\ e.age = since[k]
         \/ e = Absent /\ since[k] = Retain
  BY <1>1, KeptCases
<1>4. owed \in [Keys -> Int] /\ since \in [Keys -> 0..Retain] /\ Retain \in Nat \ {0}
  BY JournalAssumption DEF TableInv
<1>5. e.suppressed \in Nat
  BY <1>3, EntriesAreNotAbsent DEF Absent
<1> HIDE DEF k, e
<1>6. Stored(e) => since[k] >= 1
  <2>1. CASE e \in Entries
    BY <1>3, <1>4, <2>1, EntriesAreNotAbsent DEF Stored
  <2>2. CASE e = Absent /\ since[k] = Retain
    BY <1>4, <2>2
  <2> QED BY <1>3, <2>1, <2>2
<1>7. \A q \in Keys : q # k => entry'[q] = Kept(q) /\ owed'[q] = owed[q] /\ since'[q] = since[q]
  BY <1>1, <1>2, <1>4
<1>8. EntryIsCurrent(k)'
  <2>1. CASE Stored(e)
    <3>1. entry'[k] = [age |-> 0, suppressed |-> 0] /\ since'[k] = 0
      BY <1>1, <1>2, <1>4, <2>1
    <3>2. [age |-> 0, suppressed |-> 0] \in Entries
      BY <1>4 DEF Entries
    <3> QED BY <3>1, <3>2 DEF EntryIsCurrent
  <2>2. CASE ~Stored(e)
    <3>1. e \in Entries /\ e.age = since[k]
      BY <1>3, <2>2 DEF Stored
    <3>2. entry'[k] = [e EXCEPT !.suppressed = @ + 1] /\ since'[k] = since[k]
      BY <1>1, <1>2, <2>2
    <3>3. [e EXCEPT !.suppressed = @ + 1] \in Entries /\ [e EXCEPT !.suppressed = @ + 1].age = e.age
      BY <3>1 DEF Entries
    <3> QED BY <3>1, <3>2, <3>3 DEF EntryIsCurrent
  <2> QED BY <2>1, <2>2
<1>9. TableInv'
  <2>1. DOMAIN entry' = Keys
    BY <1>2
  <2>2. owed' \in [Keys -> Int] /\ since' \in [Keys -> 0..Retain]
    BY <1>1, <1>2, <1>4, <1>5
  <2>3. \A q \in Keys : EntryIsCurrent(q)'
    BY <1>7, <1>8, KeptCases DEF EntryIsCurrent, Never
  <2> QED BY <2>1, <2>2, <2>3 DEF TableInv
<1>10. ASSUME NEW q \in Keys, Unreported(q)' > Unreported(q)
       PROVE  entry[q].age >= Retain
  <2> SUFFICES ASSUME ~(entry[q].age >= Retain) PROVE FALSE
    OBVIOUS
  <2>1. Kept(q) = entry[q]
    BY KeptCases
  <2>2. owed'[q] - entry'[q].suppressed > owed[q] - entry[q].suppressed
    BY <1>10 DEF Unreported
  <2>3. q = k
    <3>1. entry[q].suppressed \in Int /\ owed[q] \in Int
      BY <1>4, EntriesAreNotAbsent DEF TableInv, EntryIsCurrent, Absent
    <3> QED BY <1>7, <2>1, <2>2, <3>1
  <2>4. e = entry[k] /\ owed[k] \in Int
    BY <1>1, <1>4, <2>1, <2>3 DEF e
  <2>5. CASE Stored(e)
    <3>1. owed'[k] = owed[k] - e.suppressed /\ entry'[k].suppressed = 0
      BY <1>1, <1>2, <1>4, <2>5
    <3> QED BY <1>5, <2>2, <2>3, <2>4, <3>1
  <2>6. CASE ~Stored(e)
    <3>1. e \in Entries
      BY <1>3, <2>6 DEF Stored
    <3>2. owed'[k] = owed[k] + 1 /\ entry'[k] = [e EXCEPT !.suppressed = @ + 1]
      BY <1>1, <1>2, <1>4, <2>6
    <3>3. entry'[k].suppressed = e.suppressed + 1
      BY <3>1, <3>2 DEF Entries
    <3> QED BY <1>5, <2>2, <2>3, <2>4, <3>2, <3>3
  <2> QED BY <2>5, <2>6
<1> QED BY <1>6, <1>9, <1>10 DEF e, k

LEMMA WindowMoves ==
  ASSUME TableInv, LineWindowPasses
  PROVE  TableInv' /\ \A q \in Keys : ~(Unreported(q)' > Unreported(q))
<1>1. /\ entry' = [k \in Keys |-> IF entry[k] = Absent \/ entry[k].age = Retain
                                    THEN entry[k] ELSE [entry[k] EXCEPT !.age = @ + 1]]
      /\ since' = [k \in Keys |-> IF since[k] = Never THEN Never ELSE since[k] + 1]
      /\ owed' = owed
  BY DEF LineWindowPasses
<1>2. Retain \in Nat /\ Never = Retain /\ owed \in [Keys -> Int] /\ since \in [Keys -> 0..Retain]
  BY JournalAssumption DEF TableInv, Never
<1>3. ASSUME NEW k \in Keys
      PROVE  /\ since'[k] \in 0..Retain /\ EntryIsCurrent(k)'
             /\ entry'[k].suppressed = entry[k].suppressed /\ entry[k].suppressed \in Int
  <2>1. CASE entry[k] = Absent /\ since[k] = Never
    BY <1>1, <1>2, <2>1 DEF EntryIsCurrent, Absent
  <2>2. CASE entry[k] \in Entries /\ entry[k].age = since[k] /\ since[k] = Retain
    BY <1>1, <1>2, <2>2 DEF EntryIsCurrent, Entries
  <2>3. CASE entry[k] \in Entries /\ entry[k].age = since[k] /\ since[k] # Retain
    <3>1. entry[k] # Absent /\ since[k] + 1 \in 0..Retain
      BY <1>2, <2>3, EntriesAreNotAbsent
    <3>2. entry'[k] = [entry[k] EXCEPT !.age = @ + 1] /\ since'[k] = since[k] + 1
      BY <1>1, <1>2, <2>3, <3>1
    <3> QED BY <2>3, <3>1, <3>2 DEF EntryIsCurrent, Entries
  <2> QED BY <2>1, <2>2, <2>3 DEF TableInv, EntryIsCurrent
<1>4. since' \in [Keys -> 0..Retain]
  BY <1>1, <1>3
<1>5. \A q \in Keys : ~(Unreported(q)' > Unreported(q))
  BY <1>1, <1>2, <1>3 DEF Unreported
<1> QED BY <1>1, <1>2, <1>3, <1>4, <1>5 DEF TableInv

LEMMA OthersKeepTheTable ==
  ASSUME [JournalNext]_journalVars, ~LineWindowPasses,
         \A n \in Names, l \in Lines : ~Line(n, l)
  PROVE  UNCHANGED table
<1>1. CASE UNCHANGED journalVars
  BY <1>1 DEF journalVars, table
<1>2. CASE \E n \in Names : Create(n) \/ Delete(n) \/ Open(n) \/ Close(n) \/ Wake(n)
  BY <1>2 DEF Create, Delete, Open, Close, Wake, table
<1>3. CASE Rescan
  BY <1>3 DEF Rescan, table
<1> QED BY <1>1, <1>2, <1>3 DEF JournalNext

LEMMA KeptTable ==
  ASSUME TableInv, UNCHANGED table
  PROVE  TableInv' /\ \A q \in Keys : ~(Unreported(q)' > Unreported(q))
<1>1. TableInv'
  BY DEF table, TableInv, EntryIsCurrent
<1>2. \A q \in Keys : Unreported(q) \in Int
  BY EntriesAreNotAbsent DEF TableInv, EntryIsCurrent, Unreported, Absent
<1>3. \A q \in Keys : Unreported(q)' = Unreported(q)
  BY DEF table, Unreported
<1> QED BY <1>1, <1>2, <1>3

LEMMA TableStep ==
  ASSUME TableInv, [JournalNext]_journalVars
  PROVE  /\ TableInv'
         /\ \A q \in Keys : Unreported(q)' > Unreported(q) => entry[q].age >= Retain
<1>1. CASE LineWindowPasses
  BY <1>1, WindowMoves
<1>2. CASE \E n \in Names, l \in Lines : Line(n, l)
  BY <1>2, LineMoves
<1>3. CASE UNCHANGED table
  BY <1>3, KeptTable
<1> QED BY <1>1, <1>2, <1>3, OthersKeepTheTable

\* The invariant of the table of recent lines holds in every state it reaches.
THEOREM TableIsSound == JournalSpec => []TableInv
<1>1. TableInv /\ [JournalNext]_journalVars => TableInv'
  BY TableStep
<1> QED BY <1>1, InitTableInv, PTL DEF JournalSpec

\* A count that no stored copy will carry any more is lost only with an entry
\* that has been quiet for Retain windows (log_line, events.rs).
THEOREM FreshCountsAreKept == JournalSpec => CountsOutlastEviction
<1>1. TableInv /\ [JournalNext]_journalVars =>
        [\A k \in Keys : Unreported(k)' > Unreported(k) => entry[k].age >= Retain]_journalVars
  BY TableStep
<1> QED BY <1>1, TableIsSound, PTL DEF CountsOutlastEviction, JournalSpec

\* Two stored copies of a line are a window apart, also when its entry was dropped
\* between them (log_line, events.rs).
THEOREM CopiesAreAWindowApart == JournalSpec => OncePerWindow
<1>1. TableInv /\ [JournalNext]_journalVars =>
        [\A n \in Names, l \in Lines :
           Line(n, l) /\ Stored(Kept(<<n, l>>)) => since[<<n, l>>] >= 1]_journalVars
  BY LineMoves
<1> QED BY <1>1, TableIsSound, PTL DEF OncePerWindow, JournalSpec
=============================================================================
