--------------------------- MODULE PresenceWorker ---------------------------
(***************************************************************************)
(* The presence worker (main/graph_client.c) with the authentication       *)
(* client it owns (main/auth_client.c), the saved refresh token            *)
(* (main/token_storage.c) and the status queue of length one it fills.     *)
(*                                                                         *)
(* The Microsoft services may answer every request with anything; only     *)
(* "invalid_grant" is reserved for a refresh token that was revoked.  Any  *)
(* wait before a retry is a wait of any length.                            *)
(***************************************************************************)
EXTENDS Integers

CONSTANTS
  Activities,   \* presence values with a display of their own
  StaleTime,    \* stale_seconds
  CodeTime,     \* how long a device code is valid
  MaxInterval   \* bound on the polling interval for the token

Unknown == "unknown"   \* PRESENCE_UNKNOWN
NoPresence == "none"   \* has_presence is false
NoToken == "no_token"
Empty == [service |-> "empty", error |-> "none", presence |-> NoPresence, age |-> 0]

ASSUME PresenceAssumption ==
  /\ Activities \cap {Unknown, NoPresence, "connecting", "authenticating",
                      "config_error"} = {}
  /\ StaleTime \in Nat \ {0}
  /\ CodeTime \in Nat \ {0}
  /\ MaxInterval \in Nat \ {0}

Services == {"connecting", "syncing_clock", "authenticating", "polling", "ready",
             "error", "config_error"}
\* SERVICE_ERROR_NONE, the initial SERVICE_ERROR_AUTH, and all other reasons.
Errors   == {"none", "auth", "other"}
Statuses == [service: Services, error: Errors,
             presence: Activities \cup {Unknown, NoPresence}, age: 0..StaleTime]

VARIABLES
  valid,      \* polling_settings_valid()
  online,     \* wifi_is_connected()
  token,      \* flash: NoToken, or a token the server accepts or not
  access,     \* RAM: NoToken, or an access token before or past its deadline
  pc,         \* where the worker is
  auth_error, \* auth->error
  code_left,  \* time left of the device code
  interval,   \* polling interval of the device login
  event,      \* what the web server was told last of the sign-in
  status,     \* the worker's status
  queue       \* what it published: Empty or a status

account == <<token, access>>
login   == <<pc, auth_error, code_left, interval, event>>
workerVars == <<valid, online, account, login, status, queue>>

WorkerInit ==
  /\ valid \in BOOLEAN
  /\ online = FALSE
  /\ token \in {NoToken, "accepted", "revoked"}
  /\ access = NoToken
  /\ pc = "start"
  /\ auth_error = "none"
  /\ code_left = 0
  /\ interval = 1
  /\ event = "waiting"
  /\ status = [service |-> "connecting", error |-> "none", presence |-> NoPresence,
               age |-> 0]
  /\ queue = Empty

-----------------------------------------------------------------------------
\* publish: a complete snapshot replaces what the main loop did not take yet.
Publish(s) == status' = s /\ queue' = s

Step(from, to) == pc = from /\ pc' = to

\* prepare_polling
ConfigError ==
  /\ ~valid
  /\ Step("start", "suspended")
  /\ Publish([status EXCEPT !.service = "config_error"])
  /\ UNCHANGED <<valid, online, account, auth_error, code_left, interval, event>>

SyncClock ==
  /\ valid /\ online
  /\ Step("start", "clock")
  /\ Publish([status EXCEPT !.service = "syncing_clock"])
  /\ UNCHANGED <<valid, online, account, auth_error, code_left, interval, event>>

\* The time service cannot be started, or does not answer in 15 s.
ClockFailed ==
  /\ pc = "clock" /\ pc' \in {"clock"} \cup (IF status.error = "none" THEN {"suspended"} ELSE {})
  /\ Publish([status EXCEPT !.service = "error", !.error = "other"])
  /\ UNCHANGED <<valid, online, account, auth_error, code_left, interval, event>>

ClockSynced ==
  /\ Step("clock", "loop")
  /\ UNCHANGED <<valid, online, account, auth_error, code_left, interval, event, status, queue>>

-----------------------------------------------------------------------------
(* One round of poll_presence_task.                                        *)

\* With an access token before its deadline.
StartPoll ==
  /\ online /\ access = "ready"
  /\ Step("loop", "fetch")
  /\ status' = [status EXCEPT !.error = "none"]
  /\ UNCHANGED <<valid, online, account, auth_error, code_left, interval, event, queue>>

\* ensure_auth publishes, auth_client_ensure begins.
StartAuth ==
  /\ online /\ access # "ready"
  /\ Step("loop", "refresh")
  /\ Publish([status EXCEPT !.error = "none", !.service = "authenticating"])
  /\ auth_error' = "auth"
  /\ event' = "waiting"
  /\ UNCHANGED <<valid, online, account, code_left, interval>>

\* finish_auth_attempt, and back in the round.
AuthOk ==
  /\ pc' = "fetch"
  /\ auth_error' = "none"
  /\ event' = "signed_in"
  /\ Publish([status EXCEPT !.error = "none", !.service = "polling"])

AuthFailed(error) ==
  /\ pc' = "backoff"
  /\ auth_error' = error
  /\ event' = "retrying"
  /\ Publish([status EXCEPT !.error = error, !.service = "error"])

\* refresh_access without a saved token, or with one that cannot be read.
NoSavedToken ==
  /\ token = NoToken
  /\ Step("refresh", "login")
  /\ UNCHANGED <<valid, online, account, auth_error, code_left, interval, event, status, queue>>

\* Mutant: every refusal of the token endpoint costs the sign-in.
RefreshFailedForgets ==
  /\ pc = "refresh"
  /\ token' = NoToken
  /\ \E error \in {"auth", "other"}: AuthFailed(error)
  /\ UNCHANGED <<valid, online, access, code_left, interval>>

\* Storage or memory fails, the request fails, or it is answered with anything
\* but tokens and invalid_grant.
RefreshFailed ==
  /\ pc = "refresh"
  /\ \E error \in {"auth", "other"}: AuthFailed(error)
  /\ UNCHANGED <<valid, online, account, code_left, interval>>

\* accept_tokens: the answer may leave the refresh token as it is.
Refreshed ==
  /\ pc = "refresh"
  /\ token = "accepted"
  /\ access' = "ready"
  /\ AuthOk
  /\ UNCHANGED <<valid, online, token, code_left, interval>>

\* A new refresh token could not be saved, or was saved all the same; the old
\* one may have been withdrawn when the new one was handed out.
RefreshNotSaved ==
  /\ pc = "refresh"
  /\ token = "accepted"
  /\ token' \in {"accepted", "revoked"}
  /\ AuthFailed("other")
  /\ UNCHANGED <<valid, online, access, code_left, interval>>

\* Mutant: invalid_grant is a failure like any other.
SignInRefusedRetried ==
  /\ token = "revoked"
  /\ pc = "refresh"
  /\ AuthFailed("auth")
  /\ UNCHANGED <<valid, online, account, code_left, interval>>

\* invalid_grant
SignInRefused ==
  /\ token = "revoked"
  /\ Step("refresh", "login")
  /\ token' = NoToken
  /\ UNCHANGED <<valid, online, access, auth_error, code_left, interval, event, status, queue>>

SignInRefusedNotErased ==
  /\ pc = "refresh"
  /\ token = "revoked"
  /\ token' \in {token, NoToken}
  /\ AuthFailed("other")
  /\ UNCHANGED <<valid, online, access, code_left, interval>>

-----------------------------------------------------------------------------
(* device_login                                                            *)

\* request_device_code: the code is valid for longer than the polling interval.
CodeReady ==
  /\ Step("login", "code")
  /\ code_left' = CodeTime
  /\ interval' = 1
  /\ event' = "code"
  /\ UNCHANGED <<valid, online, account, auth_error, status, queue>>

\* Also when there is no memory for the first request for tokens: the code just
\* shown is withdrawn at once.
CodeFailed ==
  /\ pc = "login"
  /\ \E error \in {"auth", "other"}: AuthFailed(error)
  /\ UNCHANGED <<valid, online, account, code_left, interval>>

\* poll_for_token: the next request fits in before the deadline.
AwaitUser ==
  /\ interval < code_left
  /\ Step("code", "polling")
  /\ UNCHANGED <<valid, online, account, auth_error, code_left, interval, event, status, queue>>

\* After the interval, and with a connection, the deadline is looked at again; the
\* answer to the request may come after it, or after the connection is gone.
AskForTokens ==
  /\ online /\ code_left > 0
  /\ Step("polling", "asking")
  /\ UNCHANGED <<valid, online, account, auth_error, code_left, interval, event, status, queue>>

\* authorization_pending, slow_down, or a failure that is tried again.
TokenNotYet ==
  /\ pc = "asking"
  /\ pc' = "code"
  /\ interval' \in {interval, interval + 1, interval * 2} \cap 1..MaxInterval
  /\ auth_error' \in {auth_error, "other"}
  /\ UNCHANGED <<valid, online, account, code_left, event, status, queue>>

TokenRefused ==
  /\ pc = "asking"
  /\ \E error \in {auth_error, "other"}: AuthFailed(error)
  /\ UNCHANGED <<valid, online, account, code_left, interval>>

TokenGranted ==
  /\ pc = "asking"
  /\ token' = "accepted"
  /\ access' = "ready"
  /\ AuthOk
  /\ UNCHANGED <<valid, online, code_left, interval>>

TokenNotSaved ==
  /\ pc = "asking"
  /\ token' \in {token, "accepted"}
  /\ AuthFailed("other")
  /\ UNCHANGED <<valid, online, access, code_left, interval>>

CodeOver ==
  \/ pc = "code" /\ interval >= code_left
  \/ pc = "polling" /\ online /\ code_left = 0

\* Mutant: an expired code is reported without a reason.
CodeExpiredSilently ==
  /\ CodeOver
  /\ AuthFailed("none")
  /\ UNCHANGED <<valid, online, account, code_left, interval>>

\* AUTH_EXPIRED, unless the last request failed: then the reason so far stays.
CodeExpired ==
  /\ CodeOver
  /\ \E error \in {auth_error, "other"}: AuthFailed(error)
  /\ UNCHANGED <<valid, online, account, code_left, interval>>

-----------------------------------------------------------------------------
(* fetch_presence                                                          *)

Fetched(p) ==
  /\ Step("fetch", "slot")
  /\ Publish([status EXCEPT !.service = "ready", !.presence = p, !.age = 0])
  /\ UNCHANGED <<valid, online, account, auth_error, code_left, interval, event>>

\* Only 401 drops the access token; 200 without an activity is a failure too.
FetchFailed ==
  /\ Step("fetch", "backoff")
  /\ \/ access' = NoToken /\ Publish([status EXCEPT !.service = "error", !.error = "auth"])
     \/ access' = access  /\ Publish([status EXCEPT !.service = "error", !.error = "other"])
  /\ UNCHANGED <<valid, online, token, auth_error, code_left, interval, event>>

\* task_wait_poll_slot and wait_after_failure
Wait ==
  /\ pc \in {"slot", "backoff"}
  /\ pc' = "loop"
  /\ UNCHANGED <<valid, online, account, auth_error, code_left, interval, event, status, queue>>

Auth == \/ NoSavedToken \/ RefreshFailed \/ Refreshed \/ RefreshNotSaved
        \/ SignInRefused \/ SignInRefusedNotErased \/ CodeReady \/ CodeFailed
        \/ AwaitUser \/ AskForTokens \/ TokenNotYet \/ TokenRefused \/ TokenGranted
        \/ TokenNotSaved \/ CodeExpired
Worker == \/ ConfigError \/ SyncClock \/ ClockFailed \/ ClockSynced
          \/ StartPoll \/ StartAuth \/ Auth \/ FetchFailed \/ Wait
          \/ \E p \in Activities \cup {Unknown}: Fetched(p)

-----------------------------------------------------------------------------
(* The sign-in the web page shows: auth_json of main/web_server.c.          *)

\* Mutant: the code's deadline is not looked at.
SignInAsTold == event

\* An expired code is withheld, whatever the worker waits for.
SignIn == IF event = "code" /\ code_left = 0 THEN "retrying" ELSE event

-----------------------------------------------------------------------------
(* Time, the station, and the account.                                     *)

\* One unit older; the stale time stands for every age beyond it.
Older(s) == IF s.age < StaleTime THEN [s EXCEPT !.age = @ + 1] ELSE s

\* A unit of time; the access token may pass its deadline in any of them.
Tick ==
  /\ status' = Older(status)
  /\ queue' = IF queue = Empty THEN queue ELSE Older(queue)
  /\ access' \in {access} \cup (IF access = "ready" THEN {"expired"} ELSE {})
  /\ code_left' = IF code_left > 0 THEN code_left - 1 ELSE 0
  /\ UNCHANGED <<valid, online, token, pc, auth_error, interval, event>>

\* The station connects or loses its connection.
Link ==
  /\ online' = ~online
  /\ UNCHANGED <<valid, account, login, status, queue>>

\* The account's owner or administrator withdraws the sign-in.
Revoke ==
  /\ token = "accepted"
  /\ token' = "revoked"
  /\ UNCHANGED <<valid, online, access, login, status, queue>>

WorkerNext == Worker \/ Tick \/ Link \/ Revoke

\* The task runs and time passes.  Requests made again and again succeed some
\* day, and somebody signs in when asked to again and again.
Fairness ==
  /\ WF_workerVars(Worker) /\ WF_workerVars(Tick)
  /\ SF_workerVars(SyncClock) /\ SF_workerVars(ClockSynced)
  /\ SF_workerVars(StartPoll) /\ SF_workerVars(StartAuth)
  /\ SF_workerVars(NoSavedToken) /\ SF_workerVars(Refreshed)
  /\ SF_workerVars(SignInRefused) /\ SF_workerVars(CodeReady)
  /\ SF_workerVars(AwaitUser) /\ SF_workerVars(AskForTokens)
  /\ SF_workerVars(TokenGranted)
  /\ SF_workerVars(\E p \in Activities \cup {Unknown}: Fetched(p))

WorkerSpec == WorkerInit /\ [][WorkerNext]_workerVars
FairWorkerSpec == WorkerSpec /\ Fairness

-----------------------------------------------------------------------------
\* Types; the age of a status and the polling interval stay within their bounds.
WorkerTypeOK ==
  /\ valid \in BOOLEAN
  /\ online \in BOOLEAN
  /\ token \in {NoToken, "accepted", "revoked"}
  /\ access \in {NoToken, "ready", "expired"}
  /\ pc \in {"start", "suspended", "clock", "loop", "refresh", "login", "code", "polling",
             "asking", "fetch", "slot", "backoff"}
  /\ auth_error \in Errors
  /\ code_left \in 0..CodeTime
  /\ event \in {"waiting", "code", "signed_in", "retrying"}
  /\ interval \in 1..MaxInterval
  /\ status \in Statuses
  /\ queue \in Statuses \cup {Empty}

\* A sign-in the server still accepts is neither erased nor asked for again.
SignInKept ==
  [][token = "accepted" => token' # NoToken /\ (pc' = "login" => pc = "login")]_workerVars

\* Every published failure carries a reason, every success carries none and a
\* presence: the worker's state, kept across rounds, never leaks an old reason
\* or loses a new one.
ReasonMatches ==
  /\ queue.service = "error" => queue.error # "none"
  /\ queue.service \in {"ready", "polling"} => queue.error = "none"
  /\ queue.service = "ready" => queue.presence # NoPresence

\* A code is on the page exactly while somebody can still enter it and the
\* worker still asks for the result, over lost connections and slow polling;
\* "signed in" is never what is left of an attempt that failed.
SignInTold ==
  /\ SignIn = "code" <=> pc \in {"code", "polling", "asking"} /\ code_left > 0
  /\ SignIn = "signed_in" => pc \in {"loop", "fetch", "slot", "backoff"} /\ auth_error = "none"
  /\ pc \in {"refresh", "login"} => SignIn = "waiting"

\* With a connection and valid settings a presence is read again and again,
\* whatever failed before, unless the time service could not even be started.
Recovers == valid /\ <>[]online => <>(pc = "suspended") \/ []<>(pc = "slot")

=============================================================================
