------------------------------ MODULE Settings ------------------------------
(***************************************************************************)
(* The settings service of the firmware (main/settings.c): the versioned   *)
(* NVS record with its active and candidate settings, the Wi-Fi connection *)
(* trial, scheduled restarts, the authorization-reset intent and the       *)
(* reservation a firmware upload takes.  The refresh token kept by         *)
(* main/token_storage.c is part of the state because settings_init decides *)
(* when it is erased.                                                      *)
(*                                                                         *)
(* Power can be lost at every point, including between the two flash       *)
(* writes of a boot.  A flash write that reports an error leaves either    *)
(* the old or the new contents behind.                                     *)
(***************************************************************************)
EXTENDS Integers

CONSTANTS
  Wifi,         \* Wi-Fi networks with their passwords
  NoWifi,       \* the empty SSID
  Ids,          \* Entra identities: a tenant together with a client
  NoId,         \* the empty identity
  Timings,      \* time server, polling and stale intervals taken together
  Levels,       \* LED brightness
  Defaults,     \* the compiled defaults (settings_defaults)
  NoRecord,     \* no usable record in NVS
  NoToken,      \* no refresh token in NVS
  TrialLimit,   \* 180 s: how long a trial may take
  RebootDelay,  \* 2 s: from an accepted save to the restart
  CommitRetry   \* 5 s: between two attempts to promote a candidate

SettingsSet == [wifi: Wifi \cup {NoWifi}, id: Ids \cup {NoId},
                timing: Timings, brightness: Levels]

Records == [active: SettingsSet, candidate: SettingsSet,
            pending: BOOLEAN, tried: BOOLEAN, reset_auth: BOOLEAN]

NoReboot == -1

ASSUME SettingsAssumption ==
  /\ NoWifi \notin Wifi
  /\ NoId \notin Ids
  /\ NoToken \notin Ids \cup {NoId}
  /\ NoRecord \notin Records \cup SettingsSet
  /\ Defaults \in SettingsSet
  /\ TrialLimit \in Nat \ {0}
  /\ RebootDelay \in Nat \ {0}
  /\ CommitRetry \in Nat \ {0}

VARIABLES
  nvs,              \* flash: the settings blob of namespace "frame"
  token,            \* flash: the identity the saved refresh token belongs to
  phase,            \* "down", the steps of settings_init, or "run"
  record,           \* RAM copy of the blob
  draft,            \* settings_init's local `next'
  current,          \* the boot snapshot every other module reads
  trial,
  firmware_update,
  brightness,       \* the live brightness
  reboot_in,        \* time left to reboot_at, or NoReboot
  trial_left,       \* time left of the trial
  commit_in,        \* time left to next_commit
  online,           \* wifi_is_connected()
  seen,             \* what the main loop read of it for the coming tick
  been_online       \* history: the station had an address since this boot

flash == <<nvs, token>>
ram   == <<record, draft, current, trial, firmware_update, brightness>>
timers == <<reboot_in, trial_left, commit_in>>
link  == <<online, seen, been_online>>
vars  == <<flash, phase, ram, timers, link>>

-----------------------------------------------------------------------------
IdentityChanged(a, b) == a.id # b.id
WifiChanged(a, b)     == a.wifi # b.wifi

\* settings_valid with complete = true; incomplete settings are only refused
\* by the web handler.
Complete(s) == s.wifi # NoWifi /\ s.id # NoId

DefaultRecord == [active |-> Defaults, candidate |-> Defaults, pending |-> FALSE,
                  tried |-> FALSE, reset_auth |-> FALSE]

\* What load_saved_record makes of the flash: a missing, unreadable or invalid
\* record counts as the compiled defaults.
Loaded == IF nvs = NoRecord THEN DefaultRecord ELSE nvs

Untried(r) == r.pending /\ ~r.tried

\* Mutant: only an interrupted trial that already asks for a reset is rolled back.
InterruptedWithReset(r) == r.pending /\ r.tried /\ r.reset_auth

Interrupted(r) == r.pending /\ r.tried
\* Mutant: a rollback across identities does not ask for the erasure.
ResolvedKeepsToken(r) ==
  [r EXCEPT !.pending = @ /\ ~Interrupted(r),
            !.tried   = Untried(r) \/ (@ /\ ~Interrupted(r))]

\* Mutant: the tried marker is left for later.
ResolvedUnmarked(r) ==
  [r EXCEPT !.pending    = @ /\ ~Interrupted(r),
            !.tried      = @ /\ ~Interrupted(r),
            !.reset_auth = @ \/ (Interrupted(r) /\ r.active.id # r.candidate.id)]

\* resolve_interrupted_trial: the record this boot will run with, before the
\* erasure of the token.
Resolved(r) ==
  [r EXCEPT !.pending    = @ /\ ~Interrupted(r),
            !.tried      = Untried(r) \/ (@ /\ ~Interrupted(r)),
            !.reset_auth = @ \/ ( /\ Interrupted(r)
                                  /\ IdentityChanged(r.active, r.candidate) )]

Running == phase = "run"

\* Mutants: settings_busy without one of its terms.
BusyIgnoresReboot == trial \/ firmware_update
BusyIgnoresUpdate == trial \/ reboot_in # NoReboot

Busy == trial \/ reboot_in # NoReboot \/ firmware_update

RestartRequired(s) == \/ WifiChanged(s, current)
                      \/ IdentityChanged(s, current)
                      \/ s.timing # current.timing

\* persist: on success flash and RAM hold the new record; on an error RAM keeps
\* the old one and the flash may hold either.
PersistOk(new)     == nvs' = new /\ record' = new
PersistFailed(new) == nvs' \in {nvs, new} /\ record' = record

\* Losing power or restarting forgets all RAM.  Statics start out zeroed; the
\* value of a zeroed settings structure is never read.
Reset ==
  /\ phase' = "down"
  /\ record' = DefaultRecord
  /\ draft' = DefaultRecord
  /\ current' = Defaults
  /\ trial' = FALSE
  /\ firmware_update' = FALSE
  /\ brightness' = Defaults.brightness
  /\ reboot_in' = NoReboot
  /\ trial_left' = TrialLimit
  /\ commit_in' = 0
  /\ online' = FALSE
  /\ seen' = "unread"
  /\ been_online' = FALSE

-----------------------------------------------------------------------------
\* The program starts with blank or previously used flash.
Init ==
  /\ nvs = NoRecord
  /\ token = NoToken
  /\ phase = "down"
  /\ record = DefaultRecord
  /\ draft = DefaultRecord
  /\ current = Defaults
  /\ trial = FALSE
  /\ firmware_update = FALSE
  /\ brightness = Defaults.brightness
  /\ reboot_in = NoReboot
  /\ trial_left = TrialLimit
  /\ commit_in = 0
  /\ online = FALSE
  /\ seen = "unread"
  /\ been_online = FALSE

-----------------------------------------------------------------------------
(* settings_init, one action per flash access.                             *)

\* What is left of settings_init once the record r is settled.
FinishBoot(r, trying) ==
  /\ phase' = "run"
  /\ record' = r
  /\ draft' = DefaultRecord
  /\ current' = IF trying THEN r.candidate ELSE r.active
  /\ brightness' = current'.brightness

BootStep(r) ==
  IF r # Loaded THEN /\ phase' = "persist"
                     /\ record' = Loaded
                     /\ draft' = r
                     /\ UNCHANGED <<current, brightness>>
                ELSE FinishBoot(r, trial')

BootLoad ==
  /\ phase = "down"
  /\ trial' = Untried(Loaded)
  /\ IF Resolved(Loaded).reset_auth
       THEN /\ phase' = "erase"
            /\ record' = Loaded
            /\ draft' = Resolved(Loaded)
            /\ UNCHANGED <<current, brightness>>
       ELSE BootStep(Resolved(Loaded))
  /\ UNCHANGED <<flash, firmware_update, timers, link>>

\* Mutant: the reset intent is cleared but the token stays.
BootEraseForgotten ==
  /\ phase = "erase"
  /\ trial' = trial
  /\ BootStep([draft EXCEPT !.reset_auth = FALSE])
  /\ UNCHANGED <<flash, firmware_update, timers, link>>

BootErase ==
  /\ phase = "erase"
  /\ token' = NoToken
  /\ trial' = trial
  /\ BootStep([draft EXCEPT !.reset_auth = FALSE])
  /\ UNCHANGED <<nvs, firmware_update, timers, link>>

\* A failed erase, or a failed write, ends in ESP_ERROR_CHECK: abort and reboot.
BootEraseFailed ==
  /\ phase = "erase"
  /\ token' \in {token, NoToken}
  /\ Reset
  /\ UNCHANGED nvs

BootPersist ==
  /\ phase = "persist"
  /\ nvs' = draft
  /\ trial' = trial
  /\ FinishBoot(draft, trial)
  /\ UNCHANGED <<token, firmware_update, timers, link>>

BootPersistFailed ==
  /\ phase = "persist"
  /\ nvs' \in {nvs, draft}
  /\ Reset
  /\ UNCHANGED token

Crash ==
  /\ phase # "down"
  /\ Reset
  /\ UNCHANGED flash

-----------------------------------------------------------------------------
(* The web handlers and Improv: saving settings, asking for a new sign-in. *)

\* Mutant: new credentials go straight into the active settings.
SavedRecordUnstaged(s) ==
  [record EXCEPT !.active = s, !.pending = FALSE, !.tried = FALSE,
                 !.reset_auth = IdentityChanged(s, current)]

\* The record save_settings writes for the submitted settings s.
SavedRecord(s) ==
  LET wifi == WifiChanged(s, current)
  IN [record EXCEPT !.active     = IF wifi THEN @ ELSE s,
                    !.candidate  = IF wifi THEN s ELSE @,
                    !.pending    = wifi,
                    !.tried      = FALSE,
                    !.reset_auth = IdentityChanged(s, current)]

SaveAccepted(s) ==
  /\ Running
  /\ Complete(s)
  /\ ~Busy
  /\ RestartRequired(s) \/ s.brightness # brightness

SettingsSave(s) ==
  /\ SaveAccepted(s)
  /\ PersistOk(SavedRecord(s))
  /\ brightness' = s.brightness
  /\ reboot_in' = IF RestartRequired(s) THEN RebootDelay ELSE reboot_in
  /\ UNCHANGED <<token, phase, draft, current, trial, firmware_update,
                 trial_left, commit_in, link>>

SettingsSaveFailed(s) ==
  /\ SaveAccepted(s)
  /\ PersistFailed(SavedRecord(s))
  /\ UNCHANGED <<token, phase, draft, current, trial, firmware_update,
                 brightness, timers, link>>

\* Improv always starts a trial, also for the credentials already in use.
WifiRecord(w) ==
  [record EXCEPT !.candidate  = [current EXCEPT !.wifi = w,
                                                !.brightness = brightness],
                 !.pending    = TRUE,
                 !.tried      = FALSE,
                 !.reset_auth = FALSE]

SaveWifi(w) ==
  /\ Running
  /\ ~Busy
  /\ PersistOk(WifiRecord(w))
  /\ reboot_in' = RebootDelay
  /\ UNCHANGED <<token, phase, draft, current, trial, firmware_update,
                 brightness, trial_left, commit_in, link>>

SaveWifiFailed(w) ==
  /\ Running
  /\ ~Busy
  /\ PersistFailed(WifiRecord(w))
  /\ UNCHANGED <<token, phase, draft, current, trial, firmware_update,
                 brightness, timers, link>>

ResetRecord == [record EXCEPT !.reset_auth = TRUE]

ResetAuth ==
  /\ Running
  /\ ~Busy
  /\ PersistOk(ResetRecord)
  /\ reboot_in' = RebootDelay
  /\ UNCHANGED <<token, phase, draft, current, trial, firmware_update,
                 brightness, trial_left, commit_in, link>>

ResetAuthFailed ==
  /\ Running
  /\ ~Busy
  /\ PersistFailed(ResetRecord)
  /\ UNCHANGED <<token, phase, draft, current, trial, firmware_update,
                 brightness, timers, link>>

-----------------------------------------------------------------------------
(* Firmware transfers reserve the settings.  A verified upload keeps the   *)
(* reservation until the main loop restarts the device.                    *)

UpdateBegin ==
  /\ Running
  /\ ~Busy
  /\ firmware_update' = TRUE
  /\ UNCHANGED <<flash, phase, record, draft, current, trial, brightness,
                 timers, link>>

UpdateEnd ==
  /\ Running
  /\ firmware_update
  /\ firmware_update' = FALSE
  /\ UNCHANGED <<flash, phase, record, draft, current, trial, brightness,
                 timers, link>>

UpdateRestart ==
  /\ Running
  /\ firmware_update
  /\ Reset
  /\ UNCHANGED flash

-----------------------------------------------------------------------------
(* The main loop reads the link state first and passes it to settings_tick.*)

MainRead ==
  /\ Running
  /\ seen = "unread"
  /\ seen' = IF online THEN "online" ELSE "offline"
  /\ UNCHANGED <<flash, phase, ram, timers, online, been_online>>

Ticking == Running /\ seen # "unread"

\* advance_trial past the deadline sets reboot_at to now, so that the same
\* tick reports the restart; the tried marker makes the next boot roll back.
TrialExpired ==
  /\ Ticking
  /\ trial /\ reboot_in = NoReboot
  /\ trial_left = 0
  /\ Reset
  /\ UNCHANGED flash

\* Mutant: the link state is not looked at.
MayPromoteOffline == Ticking /\ trial /\ reboot_in = NoReboot /\ trial_left > 0
                       /\ commit_in = 0

MayPromote == /\ Ticking
              /\ trial /\ reboot_in = NoReboot
              /\ trial_left > 0
              /\ seen = "online"
              /\ commit_in = 0

PromotedRecord == [record EXCEPT !.active = current, !.pending = FALSE,
                                 !.tried = FALSE]

Promote ==
  /\ MayPromote
  /\ PersistOk(PromotedRecord)
  /\ trial' = FALSE
  /\ commit_in' = CommitRetry
  /\ seen' = "unread"
  /\ UNCHANGED <<token, phase, draft, current, firmware_update, brightness,
                 reboot_in, trial_left, online, been_online>>

PromoteFailed ==
  /\ MayPromote
  /\ PersistFailed(PromotedRecord)
  /\ commit_in' = CommitRetry
  /\ seen' = "unread"
  /\ UNCHANGED <<token, phase, draft, current, trial, firmware_update,
                 brightness, reboot_in, trial_left, online, been_online>>

\* Mutant: a restart that is due waits for the link.
RebootDueOnline ==
  /\ Ticking
  /\ reboot_in = 0
  /\ seen = "online"
  /\ Reset
  /\ UNCHANGED flash

RebootDue ==
  /\ Ticking
  /\ reboot_in = 0
  /\ Reset
  /\ UNCHANGED flash

TickIdle ==
  /\ Ticking
  /\ reboot_in # 0
  /\ trial /\ reboot_in = NoReboot =>
       trial_left > 0 /\ (seen = "offline" \/ commit_in > 0)
  /\ seen' = "unread"
  /\ UNCHANGED <<flash, phase, ram, timers, online, been_online>>

SettingsTick == TrialExpired \/ Promote \/ PromoteFailed \/ RebootDue \/ TickIdle

-----------------------------------------------------------------------------
(* Surroundings: time, the station link, and the OAuth worker, which works *)
(* with the identity of the boot snapshot.                                 *)

Minus1(t) == IF t > 0 THEN t - 1 ELSE t

Time ==
  /\ Running
  /\ reboot_in > 0 \/ commit_in > 0 \/ (trial /\ trial_left > 0)
  /\ reboot_in' = Minus1(reboot_in)
  /\ trial_left' = IF trial THEN Minus1(trial_left) ELSE trial_left
  /\ commit_in' = Minus1(commit_in)
  /\ UNCHANGED <<flash, phase, ram, link>>

LinkUp ==
  /\ Running
  /\ current.wifi # NoWifi
  /\ ~online
  /\ online' = TRUE
  /\ been_online' = TRUE
  /\ UNCHANGED <<flash, phase, ram, timers, seen>>

LinkDown ==
  /\ online
  /\ online' = FALSE
  /\ UNCHANGED <<flash, phase, ram, timers, seen, been_online>>

\* Only a device with a network and an identity signs in (graph_client.c,
\* polling_settings_valid).
TokenStore ==
  /\ Running
  /\ Complete(current)
  /\ token' = current.id
  /\ UNCHANGED <<nvs, phase, ram, timers, link>>

TokenDrop ==
  /\ Running
  /\ Complete(current)
  /\ token' = NoToken
  /\ UNCHANGED <<nvs, phase, ram, timers, link>>

-----------------------------------------------------------------------------
Boot == BootLoad \/ BootErase \/ BootPersist
BootFailure == BootEraseFailed \/ BootPersistFailed

Save == \E s \in SettingsSet: SettingsSave(s) \/ SettingsSaveFailed(s)
Provision == \E w \in Wifi: SaveWifi(w) \/ SaveWifiFailed(w)

Next ==
  \/ Boot \/ BootFailure \/ Crash
  \/ Save \/ Provision \/ ResetAuth \/ ResetAuthFailed
  \/ UpdateBegin \/ UpdateEnd \/ UpdateRestart
  \/ MainRead \/ SettingsTick
  \/ Time \/ LinkUp \/ LinkDown \/ TokenStore \/ TokenDrop

\* The main loop keeps running and time passes.  A boot that fails is retried
\* by the reset that follows, so a boot step that can be tried again and again
\* succeeds some day (SF).  An upload handler has a deadline of 120 s, after
\* which it releases the reservation or has asked for the restart.
Fairness ==
  /\ SF_vars(BootLoad) /\ SF_vars(BootErase) /\ SF_vars(BootPersist)
  /\ WF_vars(Time) /\ WF_vars(MainRead) /\ WF_vars(SettingsTick)
  /\ WF_vars(UpdateEnd \/ UpdateRestart)

Spec == Init /\ [][Next]_vars
FairSpec == Spec /\ Fairness

-----------------------------------------------------------------------------
\* Types of the record, the boot steps and the timers; no timer leaves its bounds.
TypeOK ==
  /\ nvs \in Records \cup {NoRecord}
  /\ token \in Ids \cup {NoToken}
  /\ phase \in {"down", "erase", "persist", "run"}
  /\ record \in Records
  /\ draft \in Records
  /\ current \in SettingsSet
  /\ trial \in BOOLEAN
  /\ firmware_update \in BOOLEAN
  /\ brightness \in Levels
  /\ reboot_in \in 0..RebootDelay \cup {NoReboot}
  /\ trial_left \in 0..TrialLimit
  /\ commit_in \in 0..CommitRetry
  /\ online \in BOOLEAN
  /\ seen \in {"unread", "online", "offline"}
  /\ been_online \in BOOLEAN

-----------------------------------------------------------------------------
(* Properties.                                                             *)

\* No running firmware ever holds a refresh token of another identity, over
\* any sequence of saves, trials, rollbacks, crashes and half-finished boots
\* (settings_init erases the token before the workers start).
TokenIdentity == Running => token \in {NoToken, current.id}

\* While a candidate runs, the flash already says that it was tried: losing
\* power at any moment of the trial returns to the previous settings.
CandidateMarked == Running /\ trial => (Loaded.pending => Loaded.tried)

\* Whenever a save is possible, the RAM record it is built from describes what
\* runs: comparing a submission with the boot snapshot, as save_settings does,
\* is the same as comparing it with the settings the device falls back to.
\* Failed writes and brightness changes in between do not break this.
SnapshotMatchesRecord ==
  Running /\ ~Busy => /\ record.active = [current EXCEPT !.brightness = brightness]
                      /\ ~record.pending /\ ~record.tried /\ ~record.reset_auth

\* The network the device falls back to only ever changes to the one it runs
\* with, after it got an address there in this boot.
FallbackWifiProven ==
  [][Loaded'.active.wifi # Loaded.active.wifi =>
       been_online /\ Loaded'.active.wifi = current.wifi]_vars

\* A firmware transfer is disturbed by no settings write, no trial and no
\* settings restart, whatever the web pages and Improv ask for meanwhile.
UpdateUndisturbed ==
  [][firmware_update /\ Running' =>
       nvs' = nvs /\ ~trial' /\ reboot_in' = NoReboot]_vars

\* Every accepted candidate is promoted or dropped, also when its network never
\* answers, when promoting fails and when power fails in between.  (A candidate
\* whose save reported an error may wait in the flash for the next start.)
TrialResolves == record.pending ~> ~Loaded.pending

\* An accepted reset of the sign-in is carried out, whatever crashes meanwhile.
ResetTakesEffect ==
  (Running /\ record.reset_auth) ~> (Running /\ token = NoToken)

\* The settings never stay locked: a trial, a pending restart and a firmware
\* transfer all come to an end.
Unlocks == Running /\ Busy ~> Running /\ ~Busy

\* SettingsPromise over the state of the service.  The live brightness is part
\* of what runs.
Promise == INSTANCE SettingsPromise WITH
  First     <- Defaults,
  Off       <- NoRecord,
  NoOffer   <- NoRecord,
  SignedOut <- NoToken,
  committed <- Loaded.active,
  offer     <- IF Loaded.pending THEN Loaded.candidate ELSE NoRecord,
  tried     <- Loaded.pending /\ Loaded.tried,
  running   <- IF Running THEN [current EXCEPT !.brightness = brightness]
                          ELSE NoRecord,
  signin    <- token

\* Records, markers, timers, failing writes and half-finished boots together
\* keep that promise.
ImplementsPromise == Promise!Spec

=============================================================================
