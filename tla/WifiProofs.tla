----------------------------- MODULE WifiProofs ------------------------------
(***************************************************************************)
(* Attempts never overlap, no loss of the connection is forgotten and no   *)
(* connection is back before a slice of the backoff has passed, for all    *)
(* time limits and delays.                                                 *)
(***************************************************************************)
EXTENDS WifiStation, TLAPS

Events == {"start", "got_ip", "disconnected"}

\* Of the events of one attempt, and of the start of the driver that follows, each
\* is in the queue at most once, and in this order.
Rank(event) == CASE event = "got_ip" -> 1 [] event = "disconnected" -> 2 [] OTHER -> 3

EventsOK ==
  /\ events \in Seq(Events)
  /\ \A i, j \in DOMAIN events: i < j => Rank(events[i]) < Rank(events[j])

Quiet == \A e \in Events: ~Queued(e)

Types ==
  /\ pc \in Waits \cup {"start", "attempt", "connect", "cancel", "stop", "clear",
                        "restart", "restarted"}
  /\ bits \subseteq Bits
  /\ driver \in {"stopped", "starting", "idle", "joining", "up"}

\* Where the driver is when the worker is there.
DriverOK ==
  /\ pc \in {"start", "restarted"} => driver \in {"starting", "idle"}
  /\ pc \in {"clear", "restart"} => driver = "stopped"
  /\ pc \in {"attempt", "connect", "backoff", "unconfigured"} => driver = "idle"
  /\ pc \in Waits \cup {"cancel", "stop"} => driver \in {"idle", "joining", "up"}

\* A starting driver has announced nothing; the worker that waits for it will hear it.
StartOK ==
  /\ Queued("start") => driver = "idle" /\ pc \in {"start", "restarted"}
  /\ "started" \in bits => /\ driver = "idle" /\ pc \in {"start", "restarted"}
                           /\ Quiet /\ ~Online
  /\ pc \in {"start", "restarted"} /\ driver = "idle" =>
       Queued("start") \/ "started" \in bits

\* What the driver has announced and is not handled yet.
AirOK ==
  /\ Queued("disconnected") => driver \notin {"joining", "up"}
  /\ Queued("got_ip") => driver # "joining" /\ ~Online
  /\ driver = "joining" => Quiet /\ ~Online
  /\ driver = "up" => Queued("got_ip") \/ Online
  /\ driver = "idle" /\ (Queued("got_ip") \/ Online) =>
       Queued("disconnected") \/ Queued("start")
  /\ "disconnected" \in bits => /\ driver \notin {"joining", "up"} /\ ~Online
                                /\ ~Queued("got_ip") /\ ~Queued("disconnected")

\* Between attempts nothing of the last one is left.
RestOK ==
  /\ pc \in {"attempt", "connect", "backoff", "unconfigured"} => Quiet /\ ~Online
  /\ pc = "connect" => "disconnected" \notin bits
  /\ pc = "established" =>
       driver = "up" \/ Queued("disconnected") \/ "disconnected" \in bits

WifiInv == Types /\ EventsOK /\ DriverOK /\ StartOK /\ AirOK /\ RestOK

-----------------------------------------------------------------------------
\* Posting an event that comes after all those queued.
LEMMA Posted ==
  ASSUME EventsOK, NEW e \in Events, Post(e),
         \A x \in Events: Queued(x) => Rank(x) < Rank(e)
  PROVE  /\ EventsOK' /\ Queued(e)'
         /\ \A x \in Events: x # e => (Queued(x)' <=> Queued(x))
<1>1. events \in Seq(Events) /\ events' \in Seq(Events) /\ Len(events') = Len(events) + 1
  BY DEF EventsOK, Post
<1>2. events'[Len(events')] = e /\ \A i \in 1..Len(events): events'[i] = events[i]
  BY <1>1 DEF Post
<1>3. DOMAIN events = 1..Len(events) /\ DOMAIN events' = 1..Len(events) + 1
  BY <1>1
<1>4. \A i \in DOMAIN events: events[i] \in Events /\ Queued(events[i])
  BY <1>1 DEF Queued
<1>5. EventsOK'
  <2>1. \A i, j \in DOMAIN events': i < j => Rank(events'[i]) < Rank(events'[j])
    <3> SUFFICES ASSUME NEW i \in DOMAIN events', NEW j \in DOMAIN events', i < j
                 PROVE Rank(events'[i]) < Rank(events'[j])
      OBVIOUS
    <3>1. i \in DOMAIN events /\ events'[i] = events[i]
      BY <1>1, <1>2, <1>3
    <3>2. CASE j \in DOMAIN events
      BY <3>1, <3>2, <1>2, <1>3 DEF EventsOK
    <3>3. CASE j \notin DOMAIN events
      <4>1. events'[j] = e
        BY <3>3, <1>1, <1>2, <1>3
      <4> QED
        BY <3>1, <4>1, <1>4
    <3> QED
      BY <3>2, <3>3
  <2> QED
    BY <2>1, <1>1 DEF EventsOK
<1>6. Queued(e)'
  BY <1>1, <1>2, <1>3 DEF Queued
<1>7. \A x \in Events: x # e => (Queued(x)' <=> Queued(x))
  BY <1>1, <1>2, <1>3 DEF Queued
<1> QED
  BY <1>5, <1>6, <1>7

\* The event handled is gone, and those that are left come after it.
LEMMA Handled ==
  ASSUME EventsOK, NEW e \in Events, Handle(e)
  PROVE  /\ EventsOK' /\ Queued(e) /\ ~Queued(e)'
         /\ \A x \in Events: Queued(x)' <=> Queued(x) /\ x # e
         /\ \A x \in Events: Queued(x)' => Rank(e) < Rank(x)
<1>1. /\ events \in Seq(Events) /\ events' \in Seq(Events) /\ Len(events') = Len(events) - 1
      /\ Len(events) > 0 /\ events[1] = e
  BY DEF EventsOK, Handle
<1>2. \A i \in 1..Len(events) - 1: events'[i] = events[i + 1]
  BY <1>1 DEF Handle
<1>3. DOMAIN events = 1..Len(events) /\ DOMAIN events' = 1..Len(events) - 1
  BY <1>1
<1>4. EventsOK'
  <2>1. \A i, j \in DOMAIN events': i < j => Rank(events'[i]) < Rank(events'[j])
    <3> SUFFICES ASSUME NEW i \in DOMAIN events', NEW j \in DOMAIN events', i < j
                 PROVE Rank(events'[i]) < Rank(events'[j])
      OBVIOUS
    <3>1. /\ i + 1 \in DOMAIN events /\ j + 1 \in DOMAIN events /\ i + 1 < j + 1
          /\ events'[i] = events[i + 1] /\ events'[j] = events[j + 1]
      BY <1>1, <1>2, <1>3
    <3>2. Rank(events[i + 1]) < Rank(events[j + 1])
      BY <3>1 DEF EventsOK
    <3> QED
      BY <3>1, <3>2
  <2> QED
    BY <2>1, <1>1 DEF EventsOK
<1>5. Queued(e)
  BY <1>1, <1>3 DEF Queued
<1>6. \A i \in DOMAIN events': Rank(e) < Rank(events'[i])
  <2> SUFFICES ASSUME NEW i \in DOMAIN events' PROVE Rank(e) < Rank(events'[i])
    OBVIOUS
  <2>1. /\ 1 \in DOMAIN events /\ i + 1 \in DOMAIN events /\ 1 < i + 1
        /\ events'[i] = events[i + 1]
    BY <1>1, <1>2, <1>3
  <2> QED
    BY <1>1, <2>1 DEF EventsOK
<1>7. \A x \in Events: Queued(x)' => Rank(e) < Rank(x)
  BY <1>6 DEF Queued
<1>8. \A x \in Events: Queued(x)' => Queued(x) /\ x # e
  <2>1. \A x \in Events: Queued(x)' => Queued(x)
    BY <1>1, <1>2, <1>3 DEF Queued
  <2>2. Rank(e) \in {1, 2, 3}
    BY DEF Rank
  <2> QED
    BY <2>1, <2>2, <1>7
<1>9. \A x \in Events: Queued(x) /\ x # e => Queued(x)'
  <2> SUFFICES ASSUME NEW i \in DOMAIN events, events[i] # e
               PROVE \E k \in DOMAIN events': events'[k] = events[i]
    BY DEF Queued
  <2>1. i - 1 \in DOMAIN events' /\ events'[i - 1] = events[i]
    BY <1>1, <1>2, <1>3
  <2> QED
    BY <2>1
<1> QED
  BY <1>4, <1>5, <1>7, <1>8, <1>9

LEMMA QuietIsEmpty == EventsOK /\ Quiet => events = <<>>
<1> SUFFICES ASSUME EventsOK, Quiet, events # <<>> PROVE FALSE
  OBVIOUS
<1>1. events \in Seq(Events) /\ 1 \in DOMAIN events
  BY DEF EventsOK
<1>2. events[1] \in Events /\ Queued(events[1])
  BY <1>1 DEF Queued
<1> QED
  BY <1>2 DEF Quiet

LEMMA QuietMeans ==
  Quiet <=> ~Queued("got_ip") /\ ~Queued("disconnected") /\ ~Queued("start")
  BY DEF Quiet, Events

LEMMA Unmoved ==
  ASSUME EventsOK, UNCHANGED events
  PROVE  EventsOK' /\ \A x \in Events: Queued(x)' <=> Queued(x)
  BY DEF EventsOK, Queued

-----------------------------------------------------------------------------
LEMMA InitWifi == Init => WifiInv
<1> SUFFICES ASSUME Init PROVE WifiInv
  OBVIOUS
<1>1. EventsOK /\ \A e \in Events: ~Queued(e)
  BY DEF Init, EventsOK, Queued
<1> QED
  BY <1>1, QuietMeans
  DEF Init, WifiInv, Types, DriverOK, StartOK, AirOK, RestOK, Events, Waits, Online

\* The event handler.
LEMMA HandlerStep == WifiInv /\ EventHandler => WifiInv'
<1> SUFFICES ASSUME WifiInv, EventHandler PROVE WifiInv'
  OBVIOUS
<1> USE DEF WifiInv, Events
<1>q. Quiet' <=> ~Queued("got_ip")' /\ ~Queued("disconnected")' /\ ~Queued("start")'
  BY DEF Quiet
<1>1. CASE OnGotIp
  <2>1. EventsOK' /\ Queued("got_ip") /\ ~Queued("got_ip")'
    BY <1>1, Handled DEF OnGotIp
  <2>2. /\ Queued("disconnected")' <=> Queued("disconnected")
        /\ Queued("start")' <=> Queued("start")
    BY <1>1, Handled DEF OnGotIp
  <2> QED
    BY <1>1, <1>q, <2>1, <2>2, QuietMeans
    DEF OnGotIp, Handle, worker, Types, DriverOK, StartOK, AirOK, RestOK, Online, Bits
<1>2. CASE OnDisconnected
  <2>1. EventsOK' /\ Queued("disconnected") /\ ~Queued("disconnected")'
    BY <1>2, Handled DEF OnDisconnected
  <2>2. ~Queued("got_ip")' /\ (Queued("start")' <=> Queued("start"))
    BY <1>2, Handled DEF OnDisconnected, Rank
  <2> QED
    BY <1>2, <1>q, <2>1, <2>2, QuietMeans
    DEF OnDisconnected, Handle, worker, Types, DriverOK, StartOK, AirOK, RestOK, Online, Bits
<1>3. CASE OnStarted
  <2>1. EventsOK' /\ Queued("start") /\ ~Queued("start")'
    BY <1>3, Handled DEF OnStarted
  <2>2. ~Queued("got_ip")' /\ ~Queued("disconnected")'
    BY <1>3, Handled DEF OnStarted, Rank
  <2> QED
    BY <1>3, <1>q, <2>1, <2>2, QuietMeans
    DEF OnStarted, Handle, worker, Types, DriverOK, StartOK, AirOK, RestOK, Online, Bits
<1> QED
  BY <1>1, <1>2, <1>3 DEF EventHandler

\* The driver.
LEMMA DriverStep == WifiInv /\ (Started \/ Joined \/ Lost) => WifiInv'
<1> SUFFICES ASSUME WifiInv, Started \/ Joined \/ Lost PROVE WifiInv'
  OBVIOUS
<1> USE DEF WifiInv, Events
<1>q. Quiet' <=> ~Queued("got_ip")' /\ ~Queued("disconnected")' /\ ~Queued("start")'
  BY DEF Quiet
<1>1. CASE Started
  <2>1. ~Queued("start") /\ Post("start")
    BY <1>1 DEF Started, StartOK
  <2>2. /\ EventsOK' /\ Queued("start")'
        /\ Queued("got_ip")' <=> Queued("got_ip")
        /\ Queued("disconnected")' <=> Queued("disconnected")
    BY <2>1, Posted DEF Rank
  <2> QED
    BY <1>1, <1>q, <2>1, <2>2, QuietMeans
    DEF Started, worker, Types, DriverOK, StartOK, AirOK, RestOK, Online, Waits
<1>2. CASE Joined
  <2>1. Quiet /\ Post("got_ip")
    BY <1>2 DEF Joined, AirOK
  <2>2. EventsOK' /\ Queued("got_ip")' /\ ~Queued("disconnected")' /\ ~Queued("start")'
    BY <2>1, Posted, QuietMeans DEF Quiet
  <2> QED
    BY <1>2, <1>q, <2>1, <2>2, QuietMeans
    DEF Joined, worker, Types, DriverOK, StartOK, AirOK, RestOK, Online, Waits
<1>3. CASE Lost
  <2>1. ~Queued("start") /\ ~Queued("disconnected") /\ Post("disconnected")
    BY <1>3 DEF Lost, StartOK, AirOK
  <2>2. /\ EventsOK' /\ Queued("disconnected")'
        /\ Queued("got_ip")' <=> Queued("got_ip")
        /\ ~Queued("start")'
    BY <2>1, Posted DEF Rank
  <2> QED
    BY <1>3, <1>q, <2>1, <2>2, QuietMeans
    DEF Lost, worker, Types, DriverOK, StartOK, AirOK, RestOK, Online, Waits
<1> QED
  BY <1>1, <1>2, <1>3

\* The worker posts an event only when it gives up a connection or an attempt.
LEMMA GivesUpStep == WifiInv /\ (Cancel \/ Stop) => WifiInv'
<1> SUFFICES ASSUME WifiInv, Cancel \/ Stop PROVE WifiInv'
  OBVIOUS
<1> USE DEF WifiInv, Events
<1>q. Quiet' <=> ~Queued("got_ip")' /\ ~Queued("disconnected")' /\ ~Queued("start")'
  BY DEF Quiet
<1>1. CASE driver \in {"joining", "up"} /\ Post("disconnected")
  <2>1. ~Queued("start") /\ ~Queued("disconnected")
    BY <1>1 DEF StartOK, AirOK
  <2>2. /\ EventsOK' /\ Queued("disconnected")' /\ ~Queued("start")'
        /\ Queued("got_ip")' <=> Queued("got_ip")
    BY <1>1, <2>1, Posted DEF Rank
  <2> QED
    BY <1>1, <1>q, <2>1, <2>2, QuietMeans
    DEF Cancel, Stop, Types, DriverOK, StartOK, AirOK, RestOK, Online, Waits, access
<1>2. CASE Cancel /\ driver \notin {"joining", "up"}
  <2>1. EventsOK' /\ \A x \in Events: Queued(x)' <=> Queued(x)
    BY <1>2, Unmoved DEF Cancel, air
  <2> QED
    BY <1>2, <1>q, <2>1, QuietMeans
    DEF Cancel, Types, DriverOK, StartOK, AirOK, RestOK, Online, Waits, access, air
<1>3. CASE Stop /\ UNCHANGED events
  <2>1. EventsOK' /\ \A x \in Events: Queued(x)' <=> Queued(x)
    BY <1>3, Unmoved
  <2> QED
    BY <1>3, <1>q, <2>1, QuietMeans
    DEF Stop, Types, DriverOK, StartOK, AirOK, RestOK, Online, Waits, access
<1> QED
  BY <1>1, <1>2, <1>3 DEF Cancel, Stop

\* Everything else leaves the queue alone, or empties it.
LEMMA WorkerStep == WifiInv /\ Worker => WifiInv'
<1> SUFFICES ASSUME WifiInv, Worker, ~(Cancel \/ Stop) PROVE WifiInv'
  BY GivesUpStep
<1> USE DEF WifiInv, Events
<1>q. Quiet' <=> ~Queued("got_ip")' /\ ~Queued("disconnected")' /\ ~Queued("start")'
  BY DEF Quiet
<1>e. UNCHANGED events
  BY DEF Worker, WaitStarted, Attempt, Connect, ConnectFailed, JoinDone, JoinTimeout, CancelFailed,
         CancelDone, CancelTimeout, ClearBits, Restart, ConnectionLost, BackoffOver, air
<1>u. EventsOK' /\ \A x \in Events: Queued(x)' <=> Queued(x)
  BY <1>e, Unmoved
<1> USE <1>q, <1>u, QuietMeans
    DEF Types, DriverOK, StartOK, AirOK, RestOK, Online, Waits, Bits, air, access
<1>1. CASE WaitStarted
  BY <1>1 DEF WaitStarted
<1>2. CASE Attempt \/ Connect \/ ConnectFailed
  BY <1>2 DEF Attempt, Connect, ConnectFailed
<1>3. CASE JoinDone
  BY <1>3 DEF JoinDone, ConnectionEstablished
<1>4. CASE JoinTimeout \/ CancelFailed \/ CancelTimeout
  BY <1>4 DEF JoinTimeout, CancelFailed, CancelTimeout
<1>5. CASE CancelDone \/ ConnectionLost
  BY <1>5 DEF CancelDone, ConnectionLost
<1>6. CASE ClearBits \/ Restart
  BY <1>6 DEF ClearBits, Restart
<1>7. CASE BackoffOver
  BY <1>7 DEF BackoffOver
<1> QED
  BY <1>1, <1>2, <1>3, <1>4, <1>5, <1>6, <1>7 DEF Worker

LEMMA StepWifi == WifiInv /\ [Next]_vars => WifiInv'
<1> SUFFICES ASSUME WifiInv, [Next]_vars PROVE WifiInv'
  OBVIOUS
<1>1. CASE Abort
  <2>1. EventsOK' /\ \A e \in Events: ~Queued(e)'
    BY <1>1 DEF Abort, EventsOK, Queued
  <2>2. Quiet'
    BY <2>1 DEF Quiet
  <2> QED
    BY <1>1, <2>1, <2>2
    DEF Abort, WifiInv, Types, DriverOK, StartOK, AirOK, RestOK, Online, Waits, Events
<1>2. CASE UNCHANGED <<pc, bits, driver, events>>
  BY <1>2
  DEF WifiInv, Types, EventsOK, DriverOK, StartOK, AirOK, RestOK, Quiet, Queued, Online
<1>3. CASE RecoveryKept \/ EnterRecovery \/ LeaveRecovery \/ Time \/ UNCHANGED vars
  BY <1>2, <1>3 DEF RecoveryKept, EnterRecovery, LeaveRecovery, Time, vars, worker, air
<1> QED
  BY <1>1, <1>3, HandlerStep, DriverStep, WorkerStep DEF Next

\* The inductive invariant of the station: what the driver has announced, what the
\* bits say and where the worker is fit together.
THEOREM WifiInvariant == Spec => []WifiInv
  BY InitWifi, StepWifi, PTL DEF Spec

\* Every attempt starts from an idle driver with no event left (attempt_connect).
THEOREM AttemptsDoNotOverlap == Spec => []NoOverlap
<1>1. WifiInv => NoOverlap
  BY QuietIsEmpty DEF WifiInv, RestOK, DriverOK, NoOverlap
<1> QED
  BY WifiInvariant, <1>1, PTL

\* wifi_is_connected is true only while there is a connection, or until the event
\* that takes it back is handled.
THEOREM StatusIsTruthful == Spec => []StatusTruthful
<1>1. WifiInv => StatusTruthful
  BY DEF WifiInv, Types, AirOK, StatusTruthful
<1> QED
  BY WifiInvariant, <1>1, PTL

\* The worker that sleeps is woken when the connection is lost (wifi_worker).
THEOREM LossesAreNoticed == Spec => []LossIsNoticed
<1>1. WifiInv => LossIsNoticed
  BY DEF WifiInv, RestOK, LossIsNoticed
<1> QED
  BY WifiInvariant, <1>1, PTL

-----------------------------------------------------------------------------
LEMMA BackoffBounded ==
  ASSUME NEW b \in 1..MaxBackoff PROVE NextBackoff(b) \in 1..MaxBackoff
<1>1. CASE b > MaxBackoff \div 2
  BY <1>1, WifiAssumption DEF NextBackoff
<1>2. CASE ~(b > MaxBackoff \div 2)
  <2>1. b * 2 <= MaxBackoff /\ b * 2 >= 1
    BY <1>2, WifiAssumption
  <2> QED
    BY <1>2, <2>1, WifiAssumption DEF NextBackoff
<1> QED
  BY <1>1, <1>2

Numbers ==
  /\ pc \in Waits \cup {"start", "attempt", "connect", "cancel", "stop", "clear",
                        "restart", "restarted"}
  /\ left \in Nat
  /\ backoff \in 1..MaxBackoff
  /\ bits \subseteq Bits
  /\ driver \in {"stopped", "starting", "idle", "joining", "up"}
  /\ events \in Seq(Events)
  /\ offline \in 0..RecoveryDelay

Flags ==
  /\ ssid \in BOOLEAN /\ password \in BOOLEAN /\ recovery \in BOOLEAN /\ ticked \in BOOLEAN
  /\ rested \in BOOLEAN

LEMMA StepFlags == Flags /\ [Next]_vars => Flags'
<1> SUFFICES ASSUME Flags, [Next]_vars PROVE Flags'
  OBVIOUS
<1>1. settings' = settings /\ (access' = access \/ (recovery' \in {recovery, TRUE, FALSE}
                                                   /\ ticked' \in {TRUE, FALSE}))
  <2>1. CASE EventHandler \/ Started \/ Joined \/ Lost
    BY <2>1 DEF EventHandler, OnGotIp, OnDisconnected, OnStarted, Handle, Started, Joined, Lost
  <2>2. CASE Worker
    BY <2>2
    DEF Worker, WaitStarted, Attempt, Connect, ConnectFailed, JoinDone, JoinTimeout, Cancel,
        CancelFailed, CancelDone, CancelTimeout, Stop, ClearBits, Restart, ConnectionLost,
        BackoffOver
  <2>3. CASE Abort \/ Time
    BY <2>3 DEF Abort, Time
  <2>4. CASE RecoveryKept \/ EnterRecovery \/ LeaveRecovery
    BY <2>4 DEF RecoveryKept, EnterRecovery, LeaveRecovery
  <2>5. CASE UNCHANGED vars
    BY <2>5 DEF vars
  <2> QED
    BY <2>1, <2>2, <2>3, <2>4, <2>5 DEF Next
<1>2. ssid' = ssid /\ password' = password
  BY <1>1 DEF settings
<1>3. access' = access => recovery' = recovery /\ ticked' = ticked
  BY DEF access
<1>4. rested' \in {rested, TRUE, FALSE}
  <2>1. CASE EventHandler
    BY <2>1, Zenon DEF EventHandler, OnGotIp, OnDisconnected, OnStarted, Outage
  <2>2. CASE Started \/ Joined \/ Lost \/ RecoveryKept \/ EnterRecovery \/ LeaveRecovery
    BY <2>2, Zenon DEF Started, Joined, Lost, RecoveryKept, EnterRecovery, LeaveRecovery
  <2>3. CASE Worker
    BY <2>3, Zenon
    DEF Worker, WaitStarted, Attempt, Connect, ConnectFailed, JoinDone, JoinTimeout, Cancel,
        CancelFailed, CancelDone, CancelTimeout, Stop, ClearBits, Restart, ConnectionLost,
        BackoffOver, Outage
  <2>4. CASE Abort \/ Time
    BY <2>4, Zenon DEF Abort, Time
  <2>5. CASE UNCHANGED vars
    BY <2>5, Zenon DEF vars
  <2> QED BY Zenon, <2>1, <2>2, <2>3, <2>4, <2>5 DEF Next
<1> QED
  BY Zenon, <1>1, <1>2, <1>3, <1>4 DEF Flags

LEMMA StepNumbers == Numbers /\ [Next]_vars => Numbers'
<1> SUFFICES ASSUME Numbers, [Next]_vars PROVE Numbers'
  OBVIOUS
<1> USE WifiAssumption
<1>1. CASE EventHandler
  <2>1. \A e \in Events: Handle(e) => events' \in Seq(Events)
    BY DEF Handle, Numbers, Events
  <2> QED
    BY <1>1, <2>1
    DEF EventHandler, OnGotIp, OnDisconnected, OnStarted, Handle, Numbers, Events, Bits,
        worker, access, settings
<1>2. CASE Started \/ Joined \/ Lost
  <2>1. \A e \in Events: Post(e) => events' \in Seq(Events)
    BY DEF Post, Numbers, Events
  <2> QED
    BY <1>2, <2>1
    DEF Started, Joined, Lost, Numbers, Events, worker, access, settings
<1>3. CASE WaitStarted \/ Attempt \/ Connect \/ ConnectFailed
  BY <1>3
  DEF WaitStarted, Attempt, Connect, ConnectFailed, Numbers, Waits, air, access, settings
<1>4. CASE JoinDone \/ JoinTimeout \/ CancelFailed \/ CancelDone \/ CancelTimeout
  BY <1>4
  DEF JoinDone, JoinTimeout, CancelFailed, CancelDone, CancelTimeout, Numbers, Waits, air,
      access, settings
<1>5. CASE Cancel \/ Stop
  <2>1. Post("disconnected") => events' \in Seq(Events)
    BY DEF Post, Numbers, Events
  <2> QED
    BY <1>5, <2>1 DEF Cancel, Stop, Numbers, Waits, Events, air, access, settings
<1>6. CASE ClearBits \/ Restart \/ ConnectionLost
  BY <1>6 DEF ClearBits, Restart, ConnectionLost, Numbers, Waits, air, access, settings
<1>7. CASE BackoffOver
  BY <1>7, BackoffBounded DEF BackoffOver, Numbers, air, access, settings
<1>8. CASE Abort
  BY <1>8 DEF Abort, Numbers, settings
<1>9. CASE RecoveryKept \/ EnterRecovery \/ LeaveRecovery
  BY <1>9
  DEF RecoveryKept, EnterRecovery, LeaveRecovery, OfflineNow, Numbers, worker, air, settings
<1>10. CASE Time
  BY <1>10 DEF Time, Minus1, Plus1, Numbers, air, settings
<1>11. CASE UNCHANGED vars
  BY <1>11 DEF vars, Numbers, worker, air, access, settings
<1> QED
  BY <1>1, <1>2, <1>3, <1>4, <1>5, <1>6, <1>7, <1>8, <1>9, <1>10, <1>11 DEF Next, Worker

LEMMA InitNumbers == Init => Numbers
  BY WifiAssumption DEF Init, Numbers

\* Types; the backoff stays within 30 s (wifi_worker).
THEOREM TypeCorrect == Spec => []TypeOK
<1>1. Init => Flags
  BY Zenon DEF Init, Flags
<1>2. Numbers /\ Flags => TypeOK
  BY Zenon DEF Numbers, Flags, TypeOK, Events
<1> QED
  BY <1>1, <1>2, InitNumbers, StepNumbers, StepFlags, PTL DEF Spec

-----------------------------------------------------------------------------
\* Until the worker has waited, no connection is sought and none announced.
Resting ==
  /\ pc = "start" => ~Online /\ ~Queued("got_ip")
  /\ ~rested => /\ ~Online /\ ~Queued("got_ip") /\ driver \notin {"joining", "up"}
                /\ pc \notin {"start", "unconfigured", "attempt", "connect"}
                /\ pc = "backoff" => left > 0

LEMMA InitResting == Init => Resting
  BY DEF Init, Resting, Online, Queued

LEMMA RestingHandler == WifiInv /\ Resting /\ EventHandler => Resting'
<1> SUFFICES ASSUME WifiInv, Resting, EventHandler PROVE Resting'
  OBVIOUS
<1> USE DEF WifiInv, Events
<1>1. CASE OnGotIp
  <2>1. Queued("got_ip")
    BY <1>1, Handled DEF OnGotIp
  <2> QED
    BY <1>1, <2>1 DEF OnGotIp, Handle, Outage, Online, worker, Resting
<1>2. CASE OnDisconnected
  <2>1. Queued("disconnected") /\ ~Queued("got_ip")'
    BY <1>2, Handled DEF OnDisconnected, Rank
  <2>2. /\ driver \notin {"joining", "up"}
        /\ pc \notin {"attempt", "connect", "backoff", "unconfigured"}
    BY <2>1, QuietMeans DEF AirOK, RestOK
  <2>3. UNCHANGED <<pc, left, driver>> /\ ~Online'
    BY <1>2 DEF OnDisconnected, Handle, worker, Online
  <2>4. rested' = IF Online THEN FALSE ELSE rested
    BY <1>2, <2>3 DEF OnDisconnected, Outage, Online
  <2> QED
    BY <2>1, <2>2, <2>3, <2>4 DEF Resting
<1>3. CASE OnStarted
  <2>1. Queued("start") /\ ~Queued("got_ip")'
    BY <1>3, Handled DEF OnStarted, Rank
  <2>2. driver = "idle" /\ pc \in {"start", "restarted"}
    BY <2>1 DEF StartOK
  <2>3. UNCHANGED <<pc, left, driver>> /\ ~Online'
    BY <1>3 DEF OnStarted, Handle, worker, Online
  <2>4. rested' = IF Online THEN FALSE ELSE rested
    BY <1>3, <2>3 DEF OnStarted, Outage, Online
  <2> QED
    BY <2>1, <2>2, <2>3, <2>4 DEF Resting
<1> QED
  BY <1>1, <1>2, <1>3 DEF EventHandler

\* The driver announces an address only while the worker waits for one.
LEMMA RestingDriver == WifiInv /\ Resting /\ (Started \/ Joined \/ Lost) => Resting'
<1> SUFFICES ASSUME WifiInv, Resting, Started \/ Joined \/ Lost PROVE Resting'
  OBVIOUS
<1> USE DEF WifiInv, Events
<1>1. CASE Started
  <2>1. ~Queued("start") /\ Post("start")
    BY <1>1 DEF Started, StartOK
  <2>2. Queued("got_ip")' <=> Queued("got_ip")
    BY <2>1, Posted DEF Rank
  <2> QED
    BY <1>1, <2>2 DEF Started, worker, Resting, Online
<1>2. CASE Joined
  BY <1>2 DEF Joined, worker, Resting, DriverOK
<1>3. CASE Lost
  <2>1. ~Queued("start") /\ ~Queued("disconnected") /\ Post("disconnected")
    BY <1>3 DEF Lost, StartOK, AirOK
  <2>2. Queued("got_ip")' <=> Queued("got_ip")
    BY <2>1, Posted DEF Rank
  <2> QED
    BY <1>3, <2>2 DEF Lost, worker, Resting, Online
<1> QED
  BY <1>1, <1>2, <1>3

LEMMA RestingWorker == WifiInv /\ Numbers /\ Resting /\ Worker => Resting'
<1> SUFFICES ASSUME WifiInv, Numbers, Resting, Worker PROVE Resting'
  OBVIOUS
<1> USE DEF WifiInv, Events
<1>0. left' = backoff => left' > 0
  BY WifiAssumption DEF Numbers
<1>1. CASE Cancel \/ Stop
  <2>1. Queued("got_ip")' => Queued("got_ip")
    <3>1. CASE UNCHANGED events
      BY <3>1, Unmoved
    <3>2. CASE driver \in {"joining", "up"} /\ Post("disconnected")
      <4>1. ~Queued("start") /\ ~Queued("disconnected")
        BY <3>2 DEF StartOK, AirOK
      <4> QED BY <3>2, <4>1, Posted DEF Rank
    <3> QED BY <1>1, <3>1, <3>2 DEF Cancel, Stop, air
  <2> QED
    BY <1>1, <2>1 DEF Cancel, Stop, Resting, Online, air
<1>2. CASE ~(Cancel \/ Stop)
  <2>1. UNCHANGED events
    BY <1>2
    DEF Worker, WaitStarted, Attempt, Connect, ConnectFailed, JoinDone, JoinTimeout, CancelFailed,
        CancelDone, CancelTimeout, ClearBits, Restart, ConnectionLost, BackoffOver, air
  <2>2. Queued("got_ip")' <=> Queued("got_ip")
    BY <2>1, Unmoved
  <2> USE <2>2 DEF Resting, Online, air
  <2>3. CASE WaitStarted
    <3>1. /\ UNCHANGED <<driver, rested>> /\ bits' = bits \ {"started"}
          /\ pc = "start" \/ (pc' = "backoff" /\ left' > 0)
      BY <1>0, <2>3 DEF WaitStarted
    <3>2. pc' # "start" /\ (pc' = "backoff" => left' > 0 \/ pc = "start")
      BY <2>3, <3>1 DEF WaitStarted
    <3> QED BY <2>2, <3>1, <3>2
  <2>4. CASE Attempt \/ Connect \/ ConnectFailed \/ JoinTimeout \/ CancelFailed \/ CancelTimeout
    BY <2>4 DEF Attempt, Connect, ConnectFailed, JoinTimeout, CancelFailed, CancelTimeout
  <2>5. CASE JoinDone
    <3>1. UNCHANGED <<driver, rested, bits>> /\ pc' \in {"established", "backoff"}
      BY <2>5 DEF JoinDone
    <3>2. pc' = "backoff" => left' > 0
      BY <1>0, <2>5 DEF JoinDone
    <3> QED BY <2>2, <3>1, <3>2
  <2>6. CASE CancelDone \/ ConnectionLost
    <3>1. UNCHANGED <<driver, rested, bits>> /\ pc' = "backoff" /\ left' > 0
      BY <1>0, <2>6 DEF CancelDone, ConnectionLost
    <3> QED BY <2>2, <3>1
  <2>7. CASE ClearBits
    <3>1. Online => ~Queued("got_ip")
      BY DEF AirOK
    <3>2. driver = "stopped"
      BY <2>7 DEF ClearBits, DriverOK
    <3> QED BY <2>7, <3>1, <3>2 DEF ClearBits, Outage
  <2>8. CASE Restart
    BY <2>8 DEF Restart
  <2>9. CASE BackoffOver
    BY <2>9 DEF BackoffOver, Numbers
  <2> QED
    BY <1>2, <2>3, <2>4, <2>5, <2>6, <2>7, <2>8, <2>9 DEF Worker
<1> QED
  BY <1>1, <1>2

LEMMA StepResting == WifiInv /\ Numbers /\ Resting /\ [Next]_vars => Resting'
<1> SUFFICES ASSUME WifiInv, Numbers, Resting, [Next]_vars PROVE Resting'
  OBVIOUS
<1>1. CASE Abort
  <2>1. ~Queued("got_ip")'
    BY <1>1 DEF Abort, Queued
  <2> QED BY <1>1, <2>1 DEF Abort, Resting, Online
<1>2. CASE Time
  <2>1. UNCHANGED <<pc, bits, driver, events>>
    BY <1>2 DEF Time, air
  <2>2. Queued("got_ip")' <=> Queued("got_ip")
    BY <2>1 DEF Queued
  <2>3. left' = (IF pc \in Waits THEN Minus1(left) ELSE left)
        /\ rested' = IF pc = "backoff" /\ left > 0 THEN TRUE ELSE rested
    BY <1>2 DEF Time
  <2>4. pc = "backoff" /\ ~(left > 0) => left' = left
    BY <2>3 DEF Minus1
  <2> QED BY <2>1, <2>2, <2>3, <2>4 DEF Resting, Online
<1>3. CASE RecoveryKept \/ EnterRecovery \/ LeaveRecovery \/ UNCHANGED vars
  <2>1. UNCHANGED <<pc, left, bits, driver, events, rested>>
    BY <1>3 DEF RecoveryKept, EnterRecovery, LeaveRecovery, vars, worker, air
  <2> QED BY <2>1 DEF Resting, Online, Queued
<1> QED
  BY <1>1, <1>2, <1>3, RestingHandler, RestingDriver, RestingWorker DEF Next

\* However a connection was lost, it is back only after a slice of the backoff
\* (wifi_worker, cancel_attempt).
THEOREM OutagesDoLast == Spec => OutagesLast
<1>1. WifiInv /\ Resting /\ [Next]_vars => [~Online /\ Online' => rested]_vars
  <2> SUFFICES ASSUME WifiInv, Resting, [Next]_vars, ~Online, Online' PROVE rested
    OBVIOUS
  <2>1. CASE OnGotIp
    <3>1. Queued("got_ip")
      BY <2>1, Handled DEF OnGotIp, WifiInv, Events
    <3> QED BY <3>1 DEF Resting
  <2>2. CASE OnDisconnected \/ OnStarted \/ ClearBits \/ Abort
    BY <2>2 DEF OnDisconnected, OnStarted, ClearBits, Abort, Online
  <2>3. CASE Worker /\ ~ClearBits
    BY <2>3
    DEF Worker, WaitStarted, Attempt, Connect, ConnectFailed, JoinDone, JoinTimeout, Cancel,
        CancelFailed, CancelDone, CancelTimeout, Stop, Restart, ConnectionLost, BackoffOver,
        Online
  <2>4. CASE Started \/ Joined \/ Lost \/ RecoveryKept \/ EnterRecovery \/ LeaveRecovery \/ Time
             \/ UNCHANGED vars
    BY <2>4
    DEF Started, Joined, Lost, RecoveryKept, EnterRecovery, LeaveRecovery, Time, vars, Online
  <2> QED
    BY <2>1, <2>2, <2>3, <2>4 DEF Next, EventHandler
<1> QED
  BY <1>1, WifiInvariant, InitNumbers, StepNumbers, InitResting, StepResting, PTL
  DEF Spec, OutagesLast

=============================================================================
