--------------------------- MODULE PresenceProofs ---------------------------
(***************************************************************************)
(* What the presence worker publishes, what the sign-in page tells, and    *)
(* how long an activity stays on display, for every set of activities and  *)
(* all times.                                                              *)
(***************************************************************************)
EXTENDS Presence, TLAPS

(* The worker and its sign-in.                                             *)

PcOK == pc \in {"start", "suspended", "clock", "loop", "refresh", "login", "code", "polling",
                "asking", "fetch", "slot", "backoff"}

StatusOK == status \in Statuses /\ queue \in Statuses \cup {Empty}

\* A request is made without an error pending; an attempt to sign in has one.
PendingErrors ==
  /\ pc = "fetch" => status.error = "none"
  /\ pc \in {"refresh", "login", "code", "polling", "asking"} => auth_error # "none"
  /\ auth_error \in Errors

\* What the page is told follows the attempt.
EventOK ==
  /\ event = "code" <=> pc \in {"code", "polling", "asking"}
  /\ event = "signed_in" =>
       pc \in {"loop", "fetch", "slot", "backoff"} /\ auth_error = "none"
  /\ pc \in {"refresh", "login"} => event = "waiting"
  /\ event \in {"waiting", "code", "signed_in", "retrying"}

WorkerInv == PcOK /\ StatusOK /\ PendingErrors /\ EventOK /\ ReasonMatches /\ code_left \in Nat

-----------------------------------------------------------------------------
\* What the worker and time do to a status leaves it one.
LEMMA Changed ==
  ASSUME NEW s \in Statuses, NEW sv \in Services, NEW e \in Errors,
         NEW p \in Activities \cup {Unknown, NoPresence}
  PROVE  /\ [s EXCEPT !.service = sv] \in Statuses
         /\ [s EXCEPT !.error = e] \in Statuses
         /\ [s EXCEPT !.error = e, !.service = sv] \in Statuses
         /\ [s EXCEPT !.service = sv, !.error = e] \in Statuses
         /\ [s EXCEPT !.service = sv, !.presence = p, !.age = 0] \in Statuses
         /\ Older(s) \in Statuses
<1>1. [s EXCEPT !.service = sv] \in Statuses
  BY DEF Statuses
<1>2. [s EXCEPT !.error = e] \in Statuses
  BY DEF Statuses
<1>3. [s EXCEPT !.error = e, !.service = sv] \in Statuses
  BY DEF Statuses
<1>4. [s EXCEPT !.service = sv, !.error = e] \in Statuses
  BY DEF Statuses
<1>5. [s EXCEPT !.service = sv, !.presence = p, !.age = 0] \in Statuses
  <2>1. 0 \in 0..StaleTime
    BY PresenceAssumption
  <2> QED
    BY Zenon, <2>1 DEF Statuses
<1>6. Older(s) \in Statuses
  <2>1. s.age \in 0..StaleTime
    BY DEF Statuses
  <2>2. s.age < StaleTime => s.age + 1 \in 0..StaleTime
    BY <2>1, PresenceAssumption
  <2>3. s.age < StaleTime => [s EXCEPT !.age = s.age + 1] \in Statuses
    BY <2>2 DEF Statuses
  <2> QED
    BY <2>3 DEF Older
<1> QED
  BY <1>1, <1>2, <1>3, <1>4, <1>5, <1>6

LEMMA InitWorker == WorkerInit => WorkerInv
<1> SUFFICES ASSUME WorkerInit PROVE WorkerInv
  OBVIOUS
<1>1. StatusOK
  BY PresenceAssumption DEF WorkerInit, StatusOK, Statuses, Services, Errors
<1>2. ReasonMatches
  BY DEF WorkerInit, ReasonMatches, Empty
<1> QED
  BY <1>1, <1>2 DEF WorkerInit, WorkerInv, PcOK, PendingErrors, EventOK, Errors

\* An attempt to sign in fails with a reason.
LEMMA Fails ==
  ASSUME WorkerInv, NEW error \in Errors \ {"none"}, AuthFailed(error), code_left' = code_left
  PROVE  WorkerInv'
<1> DEFINE s == [status EXCEPT !.error = error, !.service = "error"]
<1>1. s \in Statuses
  BY Zenon, Changed DEF WorkerInv, StatusOK, Services
<1>2. s.error = error /\ s.service = "error"
  BY DEF WorkerInv, StatusOK, Statuses
<1>3. status' = s /\ queue' = s
  BY DEF AuthFailed, Publish
<1> QED
  BY <1>1, <1>2, <1>3
  DEF WorkerInv, AuthFailed, PcOK, StatusOK, PendingErrors, EventOK, ReasonMatches, Errors

LEMMA Succeeds ==
  ASSUME WorkerInv, AuthOk, code_left' = code_left
  PROVE  WorkerInv'
<1> DEFINE s == [status EXCEPT !.error = "none", !.service = "polling"]
<1>1. s \in Statuses
  BY Zenon, Changed DEF WorkerInv, StatusOK, Services, Errors
<1>2. s.error = "none" /\ s.service = "polling"
  BY DEF WorkerInv, StatusOK, Statuses
<1>3. status' = s /\ queue' = s
  BY DEF AuthOk, Publish
<1> QED
  BY Zenon, <1>1, <1>2, <1>3
  DEF WorkerInv, AuthOk, PcOK, StatusOK, PendingErrors, EventOK, ReasonMatches, Errors

\* A step that publishes nothing.
LEMMA Silent ==
  ASSUME WorkerInv, UNCHANGED <<status, queue, code_left>>,
         PcOK', PendingErrors', EventOK'
  PROVE  WorkerInv'
  BY DEF WorkerInv, StatusOK, ReasonMatches

\* A step that publishes s.
LEMMA Published ==
  ASSUME WorkerInv, NEW s \in Statuses, Publish(s), code_left' = code_left,
         s.service = "error" => s.error # "none",
         s.service \in {"ready", "polling"} => s.error = "none",
         s.service = "ready" => s.presence # NoPresence,
         PcOK', PendingErrors', EventOK'
  PROVE  WorkerInv'
  BY DEF WorkerInv, StatusOK, ReasonMatches, Publish

LEMMA SignInStep == WorkerInv /\ Auth => WorkerInv'
<1> SUFFICES ASSUME WorkerInv, Auth PROVE WorkerInv'
  OBVIOUS
<1>e. {"auth", "other"} \subseteq Errors \ {"none"}
  BY DEF Errors
<1>a. pc \in {"refresh", "login", "code", "polling", "asking"} => auth_error \in Errors \ {"none"}
  BY DEF WorkerInv, PendingErrors
<1>1. CASE RefreshFailed \/ RefreshNotSaved \/ SignInRefusedNotErased \/ CodeFailed
           \/ TokenNotSaved
  BY <1>1, <1>e, Fails
  DEF RefreshFailed, RefreshNotSaved, SignInRefusedNotErased, CodeFailed, TokenNotSaved
<1>2. CASE TokenRefused \/ CodeExpired
  BY <1>2, <1>a, <1>e, Fails DEF TokenRefused, CodeExpired, CodeOver
<1>3. CASE Refreshed \/ TokenGranted
  BY <1>3, Succeeds DEF Refreshed, TokenGranted
<1>4. CASE NoSavedToken \/ SignInRefused
  BY <1>4, Silent
  DEF NoSavedToken, SignInRefused, Step, WorkerInv, PcOK, PendingErrors, EventOK
<1>5. CASE AwaitUser \/ AskForTokens
  BY <1>5, Silent DEF AwaitUser, AskForTokens, Step, WorkerInv, PcOK, PendingErrors, EventOK
<1>6. CASE TokenNotYet
  BY <1>6, <1>e, Silent DEF TokenNotYet, WorkerInv, PcOK, PendingErrors, EventOK
<1>7. CASE CodeReady
  BY <1>7, PresenceAssumption
  DEF CodeReady, Step, WorkerInv, PcOK, PendingErrors, EventOK, StatusOK, ReasonMatches
<1> QED
  BY <1>1, <1>2, <1>3, <1>4, <1>5, <1>6, <1>7 DEF Auth

LEMMA WorkerStepInv == WorkerInv /\ Worker => WorkerInv'
<1> SUFFICES ASSUME WorkerInv, Worker PROVE WorkerInv'
  OBVIOUS
<1>0. status \in Statuses
  BY DEF WorkerInv, StatusOK
<1>1. CASE ConfigError
  <2> DEFINE s == [status EXCEPT !.service = "config_error"]
  <2>1. s \in Statuses
    BY Zenon, <1>0, Changed DEF Services, Errors
  <2>2. s.service = "config_error"
    BY <1>0 DEF Statuses
  <2> QED
    BY Zenon, <1>1, <2>1, <2>2, Published
    DEF ConfigError, Step, WorkerInv, PcOK, PendingErrors, EventOK
<1>2. CASE SyncClock
  <2> DEFINE s == [status EXCEPT !.service = "syncing_clock"]
  <2>1. s \in Statuses
    BY Zenon, <1>0, Changed DEF Services, Errors
  <2>2. s.service = "syncing_clock"
    BY <1>0 DEF Statuses
  <2> QED
    BY Zenon, <1>2, <2>1, <2>2, Published
    DEF SyncClock, Step, WorkerInv, PcOK, PendingErrors, EventOK
<1>3. CASE ClockFailed
  <2> DEFINE s == [status EXCEPT !.service = "error", !.error = "other"]
  <2>1. s \in Statuses
    BY Zenon, <1>0, Changed DEF Services, Errors
  <2>2. s.service = "error" /\ s.error = "other"
    BY <1>0 DEF Statuses
  <2> QED
    BY Zenon, <1>3, <2>1, <2>2, Published
    DEF ClockFailed, WorkerInv, PcOK, PendingErrors, EventOK
<1>4. CASE ClockSynced \/ Wait
  BY <1>4, Silent DEF ClockSynced, Wait, Step, WorkerInv, PcOK, PendingErrors, EventOK
<1>5. CASE StartPoll
  <2>1. status' \in Statuses /\ status'.error = "none"
    BY Zenon, <1>0, <1>5, Changed DEF StartPoll, Errors, Statuses
  <2> QED
    BY <1>5, <2>1
    DEF StartPoll, Step, WorkerInv, PcOK, PendingErrors, EventOK, StatusOK, ReasonMatches
<1>6. CASE StartAuth
  <2> DEFINE s == [status EXCEPT !.error = "none", !.service = "authenticating"]
  <2>1. s \in Statuses
    BY Zenon, <1>0, Changed DEF Services, Errors
  <2>2. s.service = "authenticating"
    BY <1>0 DEF Statuses
  <2> QED
    BY <1>6, <2>1, <2>2, Published
    DEF StartAuth, Step, WorkerInv, PcOK, PendingErrors, EventOK, Errors
<1>7. CASE FetchFailed
  <2>1. PICK e \in {"auth", "other"}:
          Publish([status EXCEPT !.service = "error", !.error = e])
    BY <1>7 DEF FetchFailed
  <2> DEFINE s == [status EXCEPT !.service = "error", !.error = e]
  <2>2. s \in Statuses
    BY Zenon, <1>0, Changed DEF Services, Errors
  <2>3. s.service = "error" /\ s.error = e
    BY <1>0 DEF Statuses
  <2> QED
    BY Zenon, <1>7, <2>1, <2>2, <2>3, Published
    DEF FetchFailed, Step, WorkerInv, PcOK, PendingErrors, EventOK
<1>8. CASE \E p \in Activities \cup {Unknown}: Fetched(p)
  <2>1. PICK p \in Activities \cup {Unknown}: Fetched(p)
    BY <1>8
  <2> DEFINE s == [status EXCEPT !.service = "ready", !.presence = p, !.age = 0]
  <2>2. s \in Statuses
    BY Zenon, <1>0, Changed DEF Services, Errors
  <2>3. s.service = "ready" /\ s.error = status.error /\ s.presence = p
    BY <1>0 DEF Statuses
  <2>4. p # NoPresence
    BY PresenceAssumption DEF Unknown, NoPresence
  <2>5. status.error = "none"
    BY <2>1 DEF Fetched, Step, WorkerInv, PendingErrors
  <2> QED
    BY Zenon, <2>1, <2>2, <2>3, <2>4, <2>5, Published
    DEF Fetched, Step, WorkerInv, PcOK, PendingErrors, EventOK
<1> QED
  BY <1>1, <1>2, <1>3, <1>4, <1>5, <1>6, <1>7, <1>8, SignInStep DEF Worker

LEMMA TickInv == WorkerInv /\ Tick => WorkerInv'
<1> SUFFICES ASSUME WorkerInv, Tick PROVE WorkerInv'
  OBVIOUS
<1>1. ASSUME NEW s \in Statuses
      PROVE  Older(s).service = s.service /\ Older(s).error = s.error
             /\ Older(s).presence = s.presence /\ Older(s) \in Statuses
  BY Zenon, Changed DEF Older, Statuses
<1>2. status' \in Statuses /\ status'.error = status.error
  BY <1>1 DEF Tick, WorkerInv, StatusOK
<1>3. queue' \in Statuses \cup {Empty} /\ ReasonMatches'
  BY <1>1 DEF Tick, WorkerInv, StatusOK, ReasonMatches
<1>4. code_left' \in Nat
  BY DEF Tick, WorkerInv
<1>5. PcOK' /\ PendingErrors' /\ EventOK'
  BY <1>2 DEF Tick, WorkerInv, PcOK, PendingErrors, EventOK
<1> QED
  BY <1>2, <1>3, <1>4, <1>5 DEF WorkerInv, StatusOK

LEMMA StepWorker == WorkerInv /\ [WorkerNext]_workerVars => WorkerInv'
<1> SUFFICES ASSUME WorkerInv, [WorkerNext]_workerVars PROVE WorkerInv'
  OBVIOUS
<1>1. CASE Link \/ Revoke \/ UNCHANGED workerVars
  BY <1>1, Silent
  DEF Link, Revoke, workerVars, login, WorkerInv, PcOK, PendingErrors, EventOK
<1> QED
  BY <1>1, WorkerStepInv, TickInv DEF WorkerNext

\* Failures are published with a reason, successes without one and with a presence
\* (publish, classify_presence_failure, auth_client_ensure).
THEOREM ReasonsMatch == WorkerSpec => []ReasonMatches
<1>1. WorkerInv => ReasonMatches
  BY DEF WorkerInv
<1> QED
  BY InitWorker, StepWorker, <1>1, PTL DEF WorkerSpec

\* The sign-in page shows a code exactly while it can be used, and "signed in" only
\* after a success (auth_json, notify).
THEOREM SignInIsTold == WorkerSpec => []SignInTold
<1>1. WorkerInv => SignInTold
  BY DEF WorkerInv, EventOK, SignInTold, SignIn, PcOK
<1> QED
  BY InitWorker, StepWorker, <1>1, PTL DEF WorkerSpec

\* What a step may not do to a sign-in the server accepts.
Kept == token = "accepted" => token' # NoToken /\ (pc' = "login" => pc = "login")

LEMMA WorkerKeeps == WorkerNext => Kept
<1> SUFFICES ASSUME WorkerNext PROVE Kept
  OBVIOUS
<1>1. CASE Auth
  BY <1>1
  DEF Auth, NoSavedToken, RefreshFailed, Refreshed, RefreshNotSaved, SignInRefused,
      SignInRefusedNotErased, CodeReady, CodeFailed, AwaitUser, AskForTokens, TokenNotYet,
      TokenRefused, TokenGranted, TokenNotSaved, CodeExpired, AuthFailed, AuthOk, Step, NoToken,
      account, Kept
<1>2. CASE Worker /\ ~Auth
  BY Zenon, <1>2
  DEF Worker, ConfigError, SyncClock, ClockFailed, ClockSynced, StartPoll, StartAuth,
      FetchFailed, Wait, Fetched, Step, NoToken, account, Kept
<1>3. CASE Tick \/ Link \/ Revoke
  BY <1>3 DEF Tick, Link, Revoke, login, NoToken, account, Kept
<1> QED
  BY <1>1, <1>2, <1>3 DEF WorkerNext

\* A working sign-in is neither erased nor asked for again (handle_refresh_response,
\* accept_tokens).
THEOREM SignInsAreKept == WorkerSpec => SignInKept
<1>1. [WorkerNext]_workerVars => [Kept]_workerVars
  BY WorkerKeeps
<1> QED
  BY <1>1, PTL DEF WorkerSpec, SignInKept, Kept

-----------------------------------------------------------------------------
(* The display.                                                            *)

\* A status is no older than its age says, as long as it counts.
AgeOK(s) == s.presence \in Activities /\ s.age < StaleTime => reported[s.presence] <= s.age

TestOK ==
  test.left > 0 /\ test.mode \in Activities => tested[test.mode] <= TestTime - test.left

\* What the main loop has shown in this unit of time was due when the unit began.
ShownOK ==
  display \in Activities =>
    IF looped THEN reported[display] < StaleTime \/ tested[display] < TestTime
              ELSE reported[display] <= StaleTime \/ tested[display] <= TestTime

MainOK ==
  /\ received \in Statuses
  /\ test \in {NoTest} \cup [mode: TestModes, left: Nat]
  /\ looped \in BOOLEAN
  /\ reported \in [Activities -> Nat]
  /\ tested \in [Activities -> Nat]

DisplayInv ==
  /\ WorkerInv /\ MainOK
  /\ AgeOK(status) /\ AgeOK(queue) /\ AgeOK(received)
  /\ TestOK /\ ShownOK

LEMMA Names == Activities \cap {Unknown, NoPresence, "connecting", "authenticating",
                                "config_error"} = {}
  BY PresenceAssumption

LEMMA InitDisplay == Init => DisplayInv
<1> SUFFICES ASSUME Init PROVE DisplayInv
  OBVIOUS
<1>1. WorkerInv
  BY InitWorker DEF Init
<1>2. received \in Statuses /\ status.presence = NoPresence /\ queue.presence = NoPresence
  BY <1>1 DEF Init, WorkerInit, WorkerInv, StatusOK, Empty
<1>3. /\ reported \in [Activities -> Nat] /\ tested \in [Activities -> Nat]
  BY PresenceAssumption, TestAssumption DEF Init
<1>4. looped \in BOOLEAN
  BY DEF Init
<1>5. AgeOK(status) /\ AgeOK(queue) /\ AgeOK(received)
  BY <1>2, Names DEF Init, AgeOK
<1>6. TestOK /\ ShownOK
  BY Names DEF Init, TestOK, ShownOK, NoTest, NoPresence
<1> QED
  BY <1>1, <1>2, <1>3, <1>4, <1>5, <1>6 DEF Init, DisplayInv, MainOK

\* A step of the worker keeps the ages of its status, or reads a presence.
LEMMA WorkerAges ==
  ASSUME WorkerInv, Worker
  PROVE  /\ queue' \in {queue, status'}
         /\ \/ status'.presence = status.presence /\ status'.age = status.age
               /\ ~(pc = "fetch" /\ pc' = "slot")
            \/ pc = "fetch" /\ pc' = "slot" /\ status'.age = 0
<1>0. status \in Statuses
  BY DEF WorkerInv, StatusOK
<1>1. CASE \E p \in Activities \cup {Unknown}: Fetched(p)
  BY <1>0, <1>1 DEF Fetched, Step, Publish, Statuses
<1>2. CASE Auth
  <2>1. \/ UNCHANGED <<status, queue>> \/ AuthOk \/ \E error \in Errors: AuthFailed(error)
    BY <1>2
    DEF Auth, NoSavedToken, RefreshFailed, Refreshed, RefreshNotSaved, SignInRefused,
        SignInRefusedNotErased, CodeReady, CodeFailed, AwaitUser, AskForTokens, TokenNotYet,
        TokenRefused, TokenGranted, TokenNotSaved, CodeExpired, Errors, WorkerInv, PendingErrors
  <2>2. pc # "fetch"
    BY <1>2
    DEF Auth, NoSavedToken, RefreshFailed, Refreshed, RefreshNotSaved, SignInRefused,
        SignInRefusedNotErased, CodeReady, CodeFailed, AwaitUser, AskForTokens, TokenNotYet,
        TokenRefused, TokenGranted, TokenNotSaved, CodeExpired, Step, CodeOver
  <2> QED
    BY Zenon, <1>0, <2>1, <2>2 DEF AuthOk, AuthFailed, Publish, Statuses
<1>3. CASE ConfigError \/ SyncClock
  BY <1>0, <1>3 DEF ConfigError, SyncClock, Step, Publish, Statuses
<1>4. CASE ClockFailed \/ ClockSynced \/ Wait
  BY <1>0, <1>4 DEF ClockFailed, ClockSynced, Wait, Step, Publish, Statuses
<1>5. CASE StartPoll \/ StartAuth
  BY <1>0, <1>5 DEF StartPoll, StartAuth, Step, Publish, Statuses
<1>6. CASE FetchFailed
  BY <1>0, <1>6 DEF FetchFailed, Step, Publish, Statuses
<1> QED
  BY <1>1, <1>2, <1>3, <1>4, <1>5, <1>6 DEF Worker

LEMMA DisplayWorkerStep == DisplayInv /\ WorkerStep => DisplayInv'
<1> SUFFICES ASSUME DisplayInv, WorkerStep PROVE DisplayInv'
  OBVIOUS
<1>1. WorkerInv /\ WorkerInv' /\ Worker
  BY WorkerStepInv DEF DisplayInv, WorkerStep
<1>2. \A a \in Activities: reported'[a] \in Nat /\ (reported'[a] = 0 \/ reported'[a] = reported[a])
  BY DEF DisplayInv, MainOK, WorkerStep
<1>3. \A a \in Activities: reported'[a] <= reported[a]
  BY <1>2 DEF DisplayInv, MainOK
<1>4. MainOK'
  BY <1>2 DEF DisplayInv, MainOK, WorkerStep, main
<1>5. status \in Statuses /\ status' \in Statuses
  BY <1>1 DEF WorkerInv, StatusOK
<1>6. AgeOK(status)'
  <2>1. CASE status'.presence = status.presence /\ status'.age = status.age
    BY <1>2, <1>3, <1>4, <1>5, <2>1 DEF DisplayInv, MainOK, AgeOK, Statuses
  <2>2. CASE pc = "fetch" /\ pc' = "slot" /\ status'.age = 0
    BY <2>2 DEF DisplayInv, MainOK, WorkerStep, AgeOK
  <2> QED
    BY <1>1, <2>1, <2>2, WorkerAges
<1>7. AgeOK(queue)'
  <2>1. queue' = status' \/ queue' = queue
    BY <1>1, WorkerAges
  <2>2. queue.presence \in Activities => queue.age \in Nat
    BY <1>1, Names DEF WorkerInv, StatusOK, Statuses, Empty
  <2> QED
    BY <1>2, <1>3, <1>6, <2>1, <2>2 DEF DisplayInv, MainOK, AgeOK
<1>8. AgeOK(received)'
  BY <1>2, <1>3 DEF DisplayInv, MainOK, AgeOK, Statuses, WorkerStep, main
<1>9. TestOK' /\ ShownOK'
  BY <1>2, <1>3, PresenceAssumption DEF DisplayInv, MainOK, WorkerStep, main, TestOK, ShownOK
<1> QED
  BY <1>1, <1>4, <1>6, <1>7, <1>8, <1>9 DEF DisplayInv

\* What is shown now is fresh, or tested.
LEMMA ShownIsDue ==
  ASSUME MainOK, TestOK, NEW s \in Statuses, AgeOK(s), NEW on,
         Shown(DisplayMode(s, on)) \in Activities
  PROVE  \/ reported[Shown(DisplayMode(s, on))] < StaleTime
         \/ tested[Shown(DisplayMode(s, on))] < TestTime
<1>1. CASE test.left > 0
  <2>1. test.mode \in Activities /\ tested[test.mode] \in Nat /\ test.left \in Nat
    BY <1>1 DEF Shown, MainOK, NoTest
  <2> QED
    BY <1>1, <2>1, TestAssumption DEF Shown, TestOK
<1>2. CASE ~(test.left > 0)
  <2>1. DisplayMode(s, on) \in Activities
    BY <1>2 DEF Shown
  <2>2. Fresh(s) /\ DisplayMode(s, on) = s.presence
    BY <2>1, Names DEF DisplayMode
  <2>3. s.age \in Nat /\ reported[s.presence] \in Nat
    BY <2>1, <2>2 DEF Statuses, MainOK
  <2> QED
    BY <1>2, <2>1, <2>2, <2>3, PresenceAssumption DEF Shown, AgeOK, Fresh
<1> QED
  BY <1>1, <1>2

LEMMA DisplayMainLoop == DisplayInv /\ MainLoop => DisplayInv'
<1> SUFFICES ASSUME DisplayInv, MainLoop PROVE DisplayInv'
  OBVIOUS
<1>1. WorkerInv'
  BY DEF DisplayInv, MainLoop, WorkerInv, PcOK, StatusOK, PendingErrors, EventOK,
         ReasonMatches, login, account, Empty
<1>2. received' \in Statuses /\ AgeOK(received')
  BY DEF DisplayInv, MainLoop, MainOK, WorkerInv, StatusOK
<1>3. MainOK'
  BY <1>2 DEF DisplayInv, MainLoop, MainOK, history
<1>4. AgeOK(status)' /\ AgeOK(queue)' /\ AgeOK(received)'
  BY <1>2, Names DEF DisplayInv, MainLoop, AgeOK, history, Empty
<1>5. TestOK'
  BY DEF DisplayInv, MainLoop, TestOK, history
<1>6. ShownOK'
  BY <1>2, ShownIsDue DEF DisplayInv, MainLoop, ShownOK, history
<1> QED
  BY <1>1, <1>3, <1>4, <1>5, <1>6 DEF DisplayInv

LEMMA DisplayTest ==
  ASSUME DisplayInv, NEW chosen \in {NoTest} \cup [mode: TestModes, left: {TestTime}],
         LedTest(chosen)
  PROVE  DisplayInv'
<1>0. TestTime \in Nat /\ TestTime > 0 /\ tested \in [Activities -> Nat]
  BY TestAssumption DEF DisplayInv, MainOK
<1>1. WorkerInv'
  BY DEF DisplayInv, LedTest, workerVars, WorkerInv, PcOK, StatusOK, PendingErrors, EventOK,
         ReasonMatches, login, account
<1>2. \A a \in Activities:
        /\ tested'[a] = IF chosen.mode = a THEN 0
                        ELSE IF tested[a] < TestTime - 1 THEN TestTime - 1 ELSE tested[a]
        /\ tested'[a] \in Nat
  BY <1>0 DEF LedTest
<1>3. \A a \in Activities: tested[a] < TestTime => tested'[a] < TestTime
  BY <1>0, <1>2
<1>4. \A a \in Activities: tested[a] <= TestTime => tested'[a] <= TestTime
  BY <1>0, <1>2
<1>5. MainOK'
  <2>1. tested' \in [Activities -> Nat]
    BY <1>0, <1>2 DEF LedTest
  <2> QED
    BY <2>1, <1>0 DEF DisplayInv, LedTest, MainOK, main
<1>6. TestOK'
  <2>1. chosen.mode \in Activities => tested'[chosen.mode] = 0
    BY <1>2
  <2>2. chosen.left \in {0, TestTime} /\ test' = chosen
    BY DEF NoTest, LedTest
  <2> QED
    BY <1>0, <2>1, <2>2 DEF TestOK
<1>7. ShownOK'
  BY <1>3, <1>4 DEF DisplayInv, LedTest, ShownOK, main
<1>8. AgeOK(status)' /\ AgeOK(queue)' /\ AgeOK(received)'
  BY DEF DisplayInv, LedTest, AgeOK, main, workerVars
<1> QED
  BY <1>1, <1>5, <1>6, <1>7, <1>8 DEF DisplayInv

LEMMA DisplayTime == DisplayInv /\ Time => DisplayInv'
<1> SUFFICES ASSUME DisplayInv, Time PROVE DisplayInv'
  OBVIOUS
<1>0. /\ StaleTime \in Nat /\ TestTime \in Nat
      /\ reported \in [Activities -> Nat] /\ tested \in [Activities -> Nat]
  BY PresenceAssumption, TestAssumption DEF DisplayInv, MainOK
<1>1. WorkerInv /\ WorkerInv'
  BY TickInv DEF DisplayInv, Time
<1>2. \A a \in Activities: /\ reported'[a] \in Nat /\ reported'[a] <= reported[a] + 1
                           /\ tested'[a] \in Nat /\ tested'[a] <= tested[a] + 1
  BY <1>0 DEF Time
<1>3. ASSUME NEW s \in Statuses, AgeOK(s) PROVE AgeOK(Older(s))'
  <2>1. s.age \in Nat /\ Older(s).presence = s.presence
        /\ Older(s).age = IF s.age < StaleTime THEN s.age + 1 ELSE s.age
    BY DEF Statuses, Older
  <2>2. CASE s.presence \in Activities /\ s.age + 1 < StaleTime
    <3>1. reported[s.presence] <= s.age
      BY <1>0, <1>3, <2>1, <2>2 DEF AgeOK
    <3>2. reported[s.presence] \in Nat /\ reported'[s.presence] \in Nat
          /\ reported'[s.presence] <= reported[s.presence] + 1
      BY <1>0, <1>2, <2>2
    <3>3. Older(s).age = s.age + 1 /\ reported'[s.presence] <= s.age + 1
      BY <1>0, <2>1, <2>2, <3>1, <3>2
    <3> QED
      BY <2>1, <3>3 DEF AgeOK
  <2>3. CASE ~(s.presence \in Activities /\ s.age + 1 < StaleTime)
    BY <1>0, <2>1, <2>3 DEF AgeOK
  <2> QED
    BY <2>2, <2>3
<1>4. AgeOK(status)' /\ AgeOK(received)'
  BY <1>1, <1>3 DEF DisplayInv, MainOK, WorkerInv, StatusOK, Time, Tick
<1>5. AgeOK(queue)'
  <2>1. CASE queue = Empty
    BY <2>1, Names DEF Time, Tick, AgeOK, Empty
  <2>2. CASE queue # Empty
    BY <1>1, <1>3, <2>2 DEF DisplayInv, WorkerInv, StatusOK, Time, Tick
  <2> QED
    BY <2>1, <2>2
<1>6. MainOK'
  <2>1. received' \in Statuses
    BY Zenon, Changed DEF DisplayInv, MainOK, Time, Services, Errors
  <2>2. test' \in {NoTest} \cup [mode: TestModes, left: Nat]
    BY DEF DisplayInv, MainOK, Time, NoTest
  <2>3. reported' \in [Activities -> Nat] /\ tested' \in [Activities -> Nat]
    BY <1>0 DEF Time
  <2> QED
    BY Zenon, <2>1, <2>2, <2>3 DEF Time, MainOK
<1>7. TestOK'
  <2>1. test.left \in Nat /\ test'.mode = test.mode
        /\ test'.left = IF test.left > 0 THEN test.left - 1 ELSE test.left
    BY DEF DisplayInv, MainOK, Time, NoTest
  <2> SUFFICES ASSUME test'.left > 0, test.mode \in Activities
               PROVE tested'[test.mode] <= TestTime - test'.left
    BY <2>1 DEF TestOK
  <2>2. tested[test.mode] <= TestTime - test.left /\ test.left > 0
    BY <2>1 DEF DisplayInv, TestOK
  <2> QED
    BY <1>0, <1>2, <2>1, <2>2
<1>8. ShownOK'
  BY <1>0, <1>2 DEF DisplayInv, ShownOK, Time
<1> QED
  BY <1>1, <1>4, <1>5, <1>6, <1>7, <1>8 DEF DisplayInv

LEMMA StepDisplay == DisplayInv /\ [Next]_vars => DisplayInv'
<1> SUFFICES ASSUME DisplayInv, [Next]_vars PROVE DisplayInv'
  OBVIOUS
<1>1. CASE Outside \/ UNCHANGED vars
  <2>1. WorkerInv'
    BY <1>1, Silent DEF Outside, Link, Revoke, vars, workerVars, login, DisplayInv, WorkerInv,
                        PcOK, PendingErrors, EventOK
  <2>2. UNCHANGED <<status, queue, main, test, history>>
    BY <1>1 DEF Outside, Link, Revoke, vars, workerVars
  <2> QED
    BY <2>1, <2>2 DEF DisplayInv, MainOK, AgeOK, TestOK, ShownOK, main, history
<1>2. CASE LedTest(NoTest) \/ \E m \in TestModes: LedTest([mode |-> m, left |-> TestTime])
  BY <1>2, DisplayTest
<1> QED
  BY <1>1, <1>2, DisplayWorkerStep, DisplayMainLoop, DisplayTime DEF Next

\* The LEDs show no activity that is out of date, and no test past its end
\* (app_display_mode, web_server_display).
THEOREM NothingStaleIsShown == Spec => []NoStaleActivity
<1>1. DisplayInv => NoStaleActivity
  <2> SUFFICES ASSUME DisplayInv, display \in Activities
               PROVE reported[display] <= StaleTime \/ tested[display] <= TestTime
    BY DEF NoStaleActivity
  <2> QED
    BY PresenceAssumption, TestAssumption DEF DisplayInv, ShownOK, MainOK
<1> QED
  BY InitDisplay, StepDisplay, <1>1, PTL DEF Spec

\* What is proved of the worker alone holds beside the main loop, which empties
\* its queue, and the LED test.
THEOREM WorkerKeepsItsWord == Spec => [](ReasonMatches /\ SignInTold) /\ SignInKept
<1>1. DisplayInv => ReasonMatches /\ SignInTold
  BY DEF DisplayInv, WorkerInv, EventOK, SignInTold, SignIn, PcOK
<1>2. [Next]_vars => [Kept]_workerVars
  <2> SUFFICES ASSUME Next PROVE Kept \/ UNCHANGED workerVars
    BY DEF vars
  <2>1. CASE WorkerStep \/ Time \/ Outside
    BY <2>1, WorkerKeeps DEF WorkerStep, Time, Outside, WorkerNext
  <2>2. CASE MainLoop
    BY <2>2 DEF MainLoop, login, account, Kept, NoToken
  <2>3. CASE \/ LedTest(NoTest)
             \/ \E m \in TestModes: LedTest([mode |-> m, left |-> TestTime])
    BY <2>3 DEF LedTest
  <2> QED
    BY <2>1, <2>2, <2>3 DEF Next
<1> QED
  BY InitDisplay, StepDisplay, <1>1, <1>2, PTL DEF Spec, SignInKept, Kept

-----------------------------------------------------------------------------
(* Types.                                                                  *)

Account ==
  /\ token \in {NoToken, "accepted", "revoked"}
  /\ access \in {NoToken, "ready", "expired"}
  /\ code_left \in 0..CodeTime
  /\ interval \in 1..MaxInterval

\* What the main loop, which empties the queue, leaves alone.
signIn == <<valid, online, account, login>>

Flags == valid \in BOOLEAN /\ online \in BOOLEAN

LEMMA AccountStep == Account /\ [WorkerNext]_signIn => Account'
<1> SUFFICES ASSUME Account, [WorkerNext]_signIn PROVE Account'
  OBVIOUS
<1>1. CASE Auth
  BY <1>1, PresenceAssumption
  DEF Auth, NoSavedToken, RefreshFailed, Refreshed, RefreshNotSaved, SignInRefused,
      SignInRefusedNotErased, CodeReady, CodeFailed, AwaitUser, AskForTokens, TokenNotYet,
      TokenRefused, TokenGranted, TokenNotSaved, CodeExpired, account, Account
<1>2. CASE Worker /\ ~Auth
  BY Zenon, <1>2
  DEF Worker, ConfigError, SyncClock, ClockFailed, ClockSynced, StartPoll, StartAuth,
      FetchFailed, Wait, Fetched, account, Account
<1>3. CASE Tick
  BY <1>3, PresenceAssumption DEF Tick, Account
<1>4. CASE Link \/ Revoke
  BY <1>4 DEF Link, Revoke, account, login, Account
<1>5. CASE UNCHANGED signIn
  BY <1>5 DEF signIn, account, login, Account
<1> QED
  BY <1>1, <1>2, <1>3, <1>4, <1>5 DEF WorkerNext

LEMMA FlagsStep == Flags /\ [WorkerNext]_signIn => Flags'
<1> SUFFICES ASSUME Flags, [WorkerNext]_signIn PROVE Flags'
  OBVIOUS
<1>1. valid' = valid /\ (online' = online \/ online' = ~online)
  <2>1. CASE Auth
    BY <2>1
    DEF Auth, NoSavedToken, RefreshFailed, Refreshed, RefreshNotSaved, SignInRefused,
        SignInRefusedNotErased, CodeReady, CodeFailed, AwaitUser, AskForTokens, TokenNotYet,
        TokenRefused, TokenGranted, TokenNotSaved, CodeExpired
  <2>2. CASE Worker /\ ~Auth
    BY Zenon, <2>2
    DEF Worker, ConfigError, SyncClock, ClockFailed, ClockSynced, StartPoll, StartAuth,
        FetchFailed, Wait, Fetched
  <2>3. CASE Tick \/ Link \/ Revoke
    BY <2>3 DEF Tick, Link, Revoke
  <2>4. CASE UNCHANGED signIn
    BY <2>4 DEF signIn
  <2> QED
    BY <2>1, <2>2, <2>3, <2>4 DEF WorkerNext
<1> QED
  BY Zenon, <1>1 DEF Flags

LEMMA WorkerTypes ==
  /\ WorkerInit => Account /\ Flags
  /\ WorkerInv /\ Account /\ Flags => WorkerTypeOK
<1>1. WorkerInit => Account
  BY PresenceAssumption DEF WorkerInit, Account
<1>2. WorkerInit => Flags
  BY Zenon DEF WorkerInit, Flags
<1>3. ASSUME WorkerInv, Account, Flags PROVE WorkerTypeOK
  <2>1. auth_error \in Errors /\ event \in {"waiting", "code", "signed_in", "retrying"}
    BY <1>3 DEF WorkerInv, PendingErrors, EventOK
  <2> QED
    BY Zenon, <1>3, <2>1 DEF WorkerInv, PcOK, StatusOK, Account, Flags, WorkerTypeOK
<1> QED
  BY <1>1, <1>2, <1>3

Display ==
  /\ received \in Statuses
  /\ display \in Activities \cup {Unknown, "none", "connecting", "authenticating",
                                  "config_error"}
  /\ test \in {NoTest} \cup [mode: TestModes, left: 0..TestTime]
  /\ reported \in [Activities -> 0..StaleTime + 1]
  /\ tested \in [Activities -> 0..TestTime + 1]

LEMMA DisplayTypes == WorkerInv /\ Display /\ [Next]_vars => Display'
<1> SUFFICES ASSUME WorkerInv, Display, [Next]_vars PROVE Display'
  OBVIOUS
<1>1. CASE WorkerStep
  <2>1. reported' \in [Activities -> 0..StaleTime + 1]
    BY <1>1, PresenceAssumption DEF WorkerStep, Display
  <2> QED
    BY <1>1, <2>1 DEF WorkerStep, Display, main
<1>2. CASE MainLoop
  <2>1. received' \in Statuses
    BY <1>2 DEF MainLoop, WorkerInv, StatusOK, Display
  <2>2. DisplayMode(received', online) \in Activities \cup {Unknown, "connecting",
                                                          "authenticating", "config_error"}
    BY <2>1 DEF DisplayMode, Fresh, Statuses
  <2>3. test.left > 0 => test.mode \in TestModes
    BY DEF Display, NoTest
  <2>4. display' \in Activities \cup {Unknown, "connecting", "authenticating", "config_error"}
    BY <1>2, <2>2, <2>3 DEF MainLoop, Shown, TestModes
  <2> QED
    BY <1>2, <2>1, <2>4 DEF MainLoop, Display, history
<1>3. CASE \E chosen \in {NoTest} \cup [mode: TestModes, left: {TestTime}]: LedTest(chosen)
  <2>1. test' \in {NoTest} \cup [mode: TestModes, left: 0..TestTime]
    BY <1>3, TestAssumption DEF LedTest
  <2>2. tested' \in [Activities -> 0..TestTime + 1]
    BY <1>3, TestAssumption DEF LedTest, Display
  <2> QED
    BY <1>3, <2>1, <2>2 DEF LedTest, Display, main
<1>4. CASE Time
  <2>1. received' \in Statuses
    BY Zenon, <1>4, Changed DEF Time, Display, Services, Errors
  <2>2. test' \in {NoTest} \cup [mode: TestModes, left: 0..TestTime]
    <3>1. CASE test.left > 0
      <4>1. test \in [mode: TestModes, left: 0..TestTime]
        BY <3>1 DEF Display, NoTest
      <4>2. test.left - 1 \in 0..TestTime
        BY <3>1, <4>1, TestAssumption
      <4> QED
        BY <1>4, <3>1, <4>1, <4>2 DEF Time
    <3>2. CASE ~(test.left > 0)
      BY <1>4, <3>2 DEF Time, Display
    <3> QED
      BY <3>1, <3>2
  <2>3. reported' \in [Activities -> 0..StaleTime + 1]
    BY <1>4, PresenceAssumption DEF Time, Display
  <2>4. tested' \in [Activities -> 0..TestTime + 1]
    BY <1>4, TestAssumption DEF Time, Display
  <2> QED
    BY Zenon, <1>4, <2>1, <2>2, <2>3, <2>4 DEF Time, Display
<1>5. CASE Outside \/ UNCHANGED vars
  BY <1>5 DEF Outside, vars, Display, main, history
<1>6. \A m \in TestModes: [mode |-> m, left |-> TestTime] \in [mode: TestModes, left: {TestTime}]
  OBVIOUS
<1> QED
  BY <1>1, <1>2, <1>3, <1>4, <1>5, <1>6 DEF Next

\* Types: in particular nothing ages past the stale time, the polling interval and
\* the test stay within their limits, and the display shows a mode it has.
THEOREM TypeCorrect == Spec => []TypeOK
<1>1. Init => Display /\ looped \in BOOLEAN
  <2>1. Init => received \in Statuses
    BY InitWorker DEF Init, WorkerInv, StatusOK
  <2>2. Init => Display
    BY <2>1, PresenceAssumption, TestAssumption DEF Init, Display
  <2>3. Init => looped \in BOOLEAN
    BY Zenon DEF Init
  <2> QED
    BY <2>2, <2>3
<1>2. [Next]_vars => [WorkerNext]_signIn
  BY DEF Next, vars, WorkerStep, MainLoop, LedTest, Time, Outside, WorkerNext, workerVars, signIn
<1>3. DisplayInv => WorkerInv /\ looped \in BOOLEAN
  BY DEF DisplayInv, MainOK
<1>4. Init => Account /\ Flags
  BY WorkerTypes DEF Init
<1>5. WorkerTypeOK /\ Display /\ looped \in BOOLEAN => TypeOK
  BY Zenon DEF Display, TypeOK
<1> QED
  BY <1>1, <1>2, <1>3, <1>4, <1>5, WorkerTypes, AccountStep, FlagsStep, DisplayTypes,
     InitDisplay, StepDisplay, PTL DEF Spec

=============================================================================
