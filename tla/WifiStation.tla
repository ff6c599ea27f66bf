----------------------------- MODULE WifiStation -----------------------------
(***************************************************************************)
(* The Wi-Fi worker (main/wifi.c): connection attempts with time limits    *)
(* and backoff, the event bits the event handler sets for it and for the   *)
(* other tasks, and the recovery access point.                             *)
(*                                                                         *)
(* The driver belongs to ESP-IDF.  It is modelled from how the worker uses *)
(* it: its events go through one queue, in the order in which they happen, *)
(* and are handled any time later by the event handler.  Time is counted   *)
(* in slices of the worker's waits.                                        *)
(***************************************************************************)
EXTENDS Integers, Sequences

CONSTANTS
  ConnectTime,    \* 30 s for association and DHCP
  CancelTime,     \* 5 s for the acknowledgement of a cancellation
  MaxBackoff,     \* 30 s
  RecoveryDelay   \* 180 s offline until the recovery access point starts

ASSUME WifiAssumption ==
  /\ ConnectTime \in Nat \ {0}
  /\ CancelTime \in Nat \ {0}
  /\ MaxBackoff \in Nat \ {0}
  /\ RecoveryDelay \in Nat \ {0}

VARIABLES
  ssid,       \* an SSID is configured
  password,   \* the build has a valid recovery password
  pc,         \* where the worker is
  left,       \* time left of its wait
  backoff,
  bits,       \* the event group
  driver,     \* "starting", "idle", "joining" or "up"; "stopped"
  events,     \* driver events that were not handled yet
  recovery,
  offline,    \* time since last_online
  ticked,     \* recovery_tick ran in this slice
  rested      \* history: a slice of the backoff has passed since a connection was lost

worker   == <<pc, left, backoff>>
air      == <<driver, events>>
access   == <<recovery, offline, ticked>>
settings == <<ssid, password>>
vars     == <<settings, worker, bits, air, access, rested>>

Bits == {"connected", "disconnected", "started"}

Online == "connected" \in bits   \* wifi_is_connected

\* Waits of the worker during which recovery_tick runs.
Waits == {"unconfigured", "joining", "cancelling", "established", "backoff"}

Init ==
  /\ ssid \in BOOLEAN
  /\ password \in BOOLEAN
  /\ pc = "start"
  /\ left = 0
  /\ backoff = 1
  /\ bits = {}
  /\ driver = "starting"
  /\ events = <<>>
  /\ recovery = FALSE
  /\ offline = 0
  /\ ticked = FALSE
  /\ rested = TRUE

-----------------------------------------------------------------------------
(* The event handler.                                                      *)

Handle(event) ==
  /\ events # <<>>
  /\ Head(events) = event
  /\ events' = Tail(events)
  /\ UNCHANGED <<settings, worker, driver, access>>

\* A connection that there was is gone.
Outage == rested' = IF Online /\ "connected" \notin bits' THEN FALSE ELSE rested

OnGotIp ==
  /\ Handle("got_ip")
  /\ bits' = bits \cup {"connected"}
  /\ Outage

\* Mutant: only a failed attempt is reported to the worker.
OnDisconnectedQuietly ==
  /\ Handle("disconnected")
  /\ bits' = IF Online THEN bits \ {"connected"} ELSE bits \cup {"disconnected"}
  /\ Outage

OnDisconnected ==
  /\ Handle("disconnected")
  /\ bits' = (bits \ {"connected"}) \cup {"disconnected"}
  /\ Outage

\* Mutant: an address announced before the station stopped stays.
OnStartedKeepsConnected ==
  /\ Handle("start")
  /\ bits' = bits \cup {"started"}
  /\ Outage

OnStarted ==
  /\ Handle("start")
  /\ bits' = (bits \ {"connected"}) \cup {"started"}
  /\ Outage

EventHandler == OnGotIp \/ OnDisconnected \/ OnStarted

-----------------------------------------------------------------------------
(* The driver and the network.                                             *)

Post(event) == events' = Append(events, event)

Started ==
  /\ driver = "starting"
  /\ driver' = "idle"
  /\ Post("start")
  /\ UNCHANGED <<settings, worker, bits, access, rested>>

Joined ==
  /\ driver = "joining"
  /\ driver' = "up"
  /\ Post("got_ip")
  /\ UNCHANGED <<settings, worker, bits, access, rested>>

\* The attempt fails, or the connection breaks down.
Lost ==
  /\ driver \in {"joining", "up"}
  /\ driver' = "idle"
  /\ Post("disconnected")
  /\ UNCHANGED <<settings, worker, bits, access, rested>>

-----------------------------------------------------------------------------
(* The worker.                                                             *)

\* A wait for the driver to start takes the bit away again.
WaitStarted ==
  /\ pc \in {"start", "restarted"}
  /\ "started" \in bits
  /\ bits' = bits \ {"started"}
  /\ IF pc = "restarted" THEN pc' = "backoff" /\ left' = backoff
     ELSE pc' = (IF ssid THEN "attempt" ELSE "unconfigured") /\ left' = 0
  /\ UNCHANGED <<settings, backoff, air, access, rested>>

\* attempt_connect
Attempt ==
  /\ pc = "attempt"
  /\ bits' = bits \ {"disconnected"}
  /\ pc' = "connect"
  /\ UNCHANGED <<settings, left, backoff, air, access, rested>>

Connect ==
  /\ pc = "connect"
  /\ driver' = "joining"
  /\ pc' = "joining"
  /\ left' = ConnectTime
  /\ UNCHANGED <<settings, backoff, bits, events, access, rested>>

\* Mutant: a call that failed is waited for like a connection.
ConnectFailedWaits ==
  /\ pc = "connect"
  /\ pc' = "established"
  /\ UNCHANGED <<settings, left, backoff, bits, air, access, rested>>

ConnectFailed ==
  /\ pc = "connect"
  /\ pc' = "cancel"
  /\ UNCHANGED <<settings, left, backoff, bits, air, access, rested>>

ConnectionEstablished == "connected" \in bits /\ "disconnected" \notin bits

JoinDone ==
  /\ pc = "joining"
  /\ bits \cap {"connected", "disconnected"} # {}
  /\ IF ConnectionEstablished
       THEN pc' = "established" /\ backoff' = 1 /\ left' = 0
       ELSE pc' = "backoff" /\ left' = backoff /\ UNCHANGED backoff
  /\ UNCHANGED <<settings, bits, air, access, rested>>

JoinTimeout ==
  /\ pc = "joining"
  /\ left = 0
  /\ bits \cap {"connected", "disconnected"} = {}
  /\ pc' = "cancel"
  /\ UNCHANGED <<settings, left, backoff, bits, air, access, rested>>

\* cancel_attempt: disconnecting an idle station causes no event.
Cancel ==
  /\ pc = "cancel"
  /\ pc' = "cancelling"
  /\ left' = CancelTime
  /\ IF driver \in {"joining", "up"} THEN driver' = "idle" /\ Post("disconnected")
                                     ELSE UNCHANGED air
  /\ UNCHANGED <<settings, backoff, bits, access, rested>>

CancelFailed ==
  /\ pc = "cancel"
  /\ pc' = "stop"
  /\ UNCHANGED <<settings, left, backoff, bits, air, access, rested>>

CancelDone ==
  /\ pc = "cancelling"
  /\ "disconnected" \in bits
  /\ pc' = "backoff"
  /\ left' = backoff
  /\ UNCHANGED <<settings, backoff, bits, air, access, rested>>

\* Mutant: a cancellation without acknowledgement is taken for done.
CancelTimeoutIgnored ==
  /\ pc \in {"cancel", "cancelling"}
  /\ left = 0
  /\ "disconnected" \notin bits
  /\ pc' = "backoff"
  /\ left' = backoff
  /\ UNCHANGED <<settings, backoff, bits, air, access, rested>>

CancelTimeout ==
  /\ pc = "cancelling"
  /\ left = 0
  /\ "disconnected" \notin bits
  /\ pc' = "stop"
  /\ UNCHANGED <<settings, left, backoff, bits, air, access, rested>>

\* A station that is stopped while it has a connection may report its loss.
Stop ==
  /\ pc = "stop"
  /\ driver' = "stopped"
  /\ \/ UNCHANGED events
     \/ driver \in {"joining", "up"} /\ Post("disconnected")
  /\ pc' = "clear"
  /\ UNCHANGED <<settings, left, backoff, bits, access, rested>>

ClearBits ==
  /\ pc = "clear"
  /\ bits' = bits \ {"connected", "started"}
  /\ Outage
  /\ pc' = "restart"
  /\ UNCHANGED <<settings, left, backoff, air, access>>

Restart ==
  /\ pc = "restart"
  /\ driver' = "starting"
  /\ pc' = "restarted"
  /\ UNCHANGED <<settings, left, backoff, bits, events, access, rested>>

\* A driver call that must not fail failed: abort and boot again.
Abort ==
  /\ pc \in {"stop", "restart"}
  /\ pc' = "start"
  /\ left' = 0
  /\ backoff' = 1
  /\ bits' = {}
  /\ driver' = "starting"
  /\ events' = <<>>
  /\ recovery' = FALSE
  /\ offline' = 0
  /\ ticked' = FALSE
  /\ rested' = TRUE
  /\ UNCHANGED settings

\* Mutant: a connection that was lost is sought again at once.
ConnectionLostRetries ==
  /\ pc = "established"
  /\ "disconnected" \in bits
  /\ pc' = "attempt"
  /\ UNCHANGED <<settings, left, backoff, bits, air, access, rested>>

ConnectionLost ==
  /\ pc = "established"
  /\ "disconnected" \in bits
  /\ pc' = "backoff"
  /\ left' = backoff
  /\ UNCHANGED <<settings, backoff, bits, air, access, rested>>

NextBackoff(b) == IF b > MaxBackoff \div 2 THEN MaxBackoff ELSE b * 2

BackoffOver ==
  /\ pc = "backoff"
  /\ left = 0
  /\ backoff' = NextBackoff(backoff)
  /\ pc' = "attempt"
  /\ UNCHANGED <<settings, left, bits, air, access, rested>>

Worker ==
  \/ WaitStarted \/ Attempt \/ Connect \/ ConnectFailed \/ JoinDone \/ JoinTimeout
  \/ Cancel \/ CancelFailed \/ CancelDone \/ CancelTimeout
  \/ Stop \/ ClearBits \/ Restart \/ ConnectionLost \/ BackoffOver

-----------------------------------------------------------------------------
(* recovery_tick                                                           *)

OfflineNow == IF Online THEN 0 ELSE offline

Needed == ~Online /\ (~ssid \/ OfflineNow >= RecoveryDelay)

RecoveryKept ==
  /\ pc \in Waits
  /\ ~ticked \/ offline # OfflineNow
  /\ ticked' = TRUE
  /\ offline' = OfflineNow
  /\ UNCHANGED <<settings, worker, bits, air, recovery, rested>>

EnterRecovery ==
  /\ pc \in Waits
  /\ Needed /\ ~recovery
  /\ password
  /\ recovery' = TRUE
  /\ ticked' = TRUE
  /\ offline' = OfflineNow
  /\ UNCHANGED <<settings, worker, bits, air, rested>>

\* Mutant: the access point goes only while an attempt is under way.
LeaveRecoveryJoining ==
  /\ pc = "joining"
  /\ ~Needed /\ recovery
  /\ recovery' = FALSE
  /\ ticked' = TRUE
  /\ offline' = OfflineNow
  /\ UNCHANGED <<settings, worker, bits, air, rested>>

LeaveRecovery ==
  /\ pc \in Waits
  /\ ~Needed /\ recovery
  /\ recovery' = FALSE
  /\ ticked' = TRUE
  /\ offline' = OfflineNow
  /\ UNCHANGED <<settings, worker, bits, air, rested>>

Minus1(t) == IF t > 0 THEN t - 1 ELSE t
Plus1(t)  == IF t < RecoveryDelay THEN t + 1 ELSE t

\* A slice passes only after the worker's recovery tick in it.
Time ==
  /\ pc \in Waits => ticked
  /\ left > 0 \/ offline < RecoveryDelay \/ ticked
  /\ left' = IF pc \in Waits THEN Minus1(left) ELSE left
  /\ offline' = Plus1(offline)
  /\ ticked' = FALSE
  /\ rested' = IF pc = "backoff" /\ left > 0 THEN TRUE ELSE rested
  /\ UNCHANGED <<settings, pc, backoff, bits, air, recovery>>

-----------------------------------------------------------------------------
Next ==
  \/ EventHandler \/ Started \/ Joined \/ Lost \/ Worker \/ Abort
  \/ RecoveryKept \/ EnterRecovery \/ LeaveRecovery \/ Time

\* All tasks run, time passes, the driver starts, events are handled; an
\* attempt that is made again and again succeeds some day, and so does a change
\* of the access point that is tried again and again.
Fairness ==
  /\ WF_vars(EventHandler) /\ WF_vars(Started) /\ WF_vars(Worker) /\ WF_vars(Time)
  /\ WF_vars(RecoveryKept) /\ SF_vars(EnterRecovery) /\ SF_vars(LeaveRecovery)
  /\ SF_vars(Connect) /\ SF_vars(Joined) /\ SF_vars(OnGotIp)

Spec == Init /\ [][Next]_vars /\ Fairness

-----------------------------------------------------------------------------
\* Types; the backoff and the time offline stay within their bounds.
TypeOK ==
  /\ ssid \in BOOLEAN
  /\ password \in BOOLEAN
  /\ pc \in Waits \cup {"start", "attempt", "connect", "cancel", "stop", "clear",
                        "restart", "restarted"}
  /\ left \in Nat
  /\ backoff \in 1..MaxBackoff
  /\ bits \subseteq Bits
  /\ driver \in {"stopped", "starting", "idle", "joining", "up"}
  /\ events \in Seq({"start", "got_ip", "disconnected"})
  /\ recovery \in BOOLEAN
  /\ offline \in 0..RecoveryDelay
  /\ ticked \in BOOLEAN
  /\ rested \in BOOLEAN

Queued(event) == \E i \in DOMAIN events: events[i] = event

\* Attempts never overlap: whatever failed, timed out or was cancelled before,
\* the worker asks for a connection only from a started, idle driver, and no
\* event of an earlier attempt is left that it could take for this one's.
NoOverlap ==
  pc \in {"attempt", "connect"} => driver = "idle" /\ ~Online /\ events = <<>>

\* The other tasks are not told of a connection that is gone, except until the
\* event that takes it back is handled or the station has been stopped.
StatusTruthful ==
  Online => \/ driver = "up" \/ Queued("disconnected")
            \/ driver \in {"stopped", "starting"} \/ Queued("start")

\* The worker that sleeps without a time limit will be woken when the connection
\* is gone: no loss is forgotten between event handler, bits and worker.
LossIsNoticed ==
  pc = "established" =>
    driver = "up" \/ Queued("disconnected") \/ "disconnected" \in bits

\* However it was lost (disconnected, given up, or the station stopped), a connection
\* is back only after the worker's backoff, whose slice is a second: long enough for
\* the main loop's rounds of 100 ms to sample the outage (Firmware's RetryDelay).
OutagesLast == [][~Online /\ Online' => rested]_vars

\* A device with an SSID connects again and again, whatever failed before.
Reconnects == ssid => []<>Online

\* The access point follows the state of the connection, in particular while
\* the worker is busy with attempts, cancellations and backoff.
RecoveryFollows ==
  /\ password /\ <>[]~Online => <>[]recovery
  /\ <>[]Online => <>[]~recovery

=============================================================================
