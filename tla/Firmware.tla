------------------------------ MODULE Firmware ------------------------------
(***************************************************************************)
(* Wireless firmware updates (main/firmware_update.c,                      *)
(* main/firmware_download.c): the upload handler of the web server, the    *)
(* two application slots with their boot records, the probation of a newly *)
(* installed image and its rollback.  Of the settings service only what    *)
(* meets an update is kept: the reservation, the trial and the scheduled   *)
(* restart; module Settings has the rest.                                  *)
(*                                                                         *)
(* The boot loader and the functions esp_ota_* belong to ESP-IDF and are   *)
(* modelled from how the code relies on them.  Power can be lost at every  *)
(* point.  A confirmation that fails leaves the image on probation; the    *)
(* selection of an image that fails may have been written all the same.    *)
(* Reading the boot record of the running image may fail, and both places  *)
(* that read it take that for an image that is not on probation.           *)
(***************************************************************************)
EXTENDS Integers

CONSTANTS
  Images,          \* signed firmware images
  Factory,         \* the image installed over USB
  Torn,            \* what a slot holds that has no complete, trusted image
  StableTime,      \* 30 s of connection make a boot healthy
  HealthDeadline,  \* 180 s: how long probation may take
  RetryDelay       \* 1 s: the shortest time wifi.c leaves between a loss of
                   \* the connection and the next attempt

Slots    == {"ota_0", "ota_1"}
Other(s) == IF s = "ota_0" THEN "ota_1" ELSE "ota_0"
Off      == "off"        \* no slot is running
NotSeen  == -1           \* connected_at = 0

ASSUME FirmwareAssumption ==
  /\ Torn \notin Images
  /\ Factory \in Images
  /\ StableTime \in Nat \ {0}
  /\ HealthDeadline \in Nat \ {0}
  /\ RetryDelay \in Nat /\ RetryDelay >= 2

VARIABLES
  slot,              \* flash: what each slot holds
  state,             \* flash: the boot record of each slot
  selected,          \* flash: the slot the boot loader tries first
  running,           \* the slot that runs, or Off
  ready,             \* firmware_update_init is done
  pending,
  stable_in,         \* time left until the connection counts as stable, or NotSeen
  deadline_in,       \* time left of probation
  restart_requested,
  handler,           \* where the web server's upload or download handler is
  reserved,          \* settings.c: firmware_update
  trial,             \* settings.c: trial
  reboot_at,         \* settings.c: a restart is scheduled
  online,            \* wifi_is_connected()
  outage,            \* time until the station can have an address again
  sample,            \* what the main loop read of the link for the coming tick
  ticked,            \* the main loop ran since time last passed
  steady,            \* history: how long the station's last connection has lasted
  proven,            \* history: the slots whose present image was confirmed
  unread             \* history: where an image on probation was overlooked because its
                     \* boot record could not be read: at the "start", for the "upload"
                     \* under way, which may then have "erased" the image to go back to

flash    == <<slot, state, selected>>
health   == <<pending, stable_in, deadline_in>>
settings == <<reserved, trial, reboot_at>>
link     == <<online, outage, steady>>
loop     == <<sample, ticked>>
history  == <<proven, unread>>
vars == <<flash, running, ready, health, restart_requested, handler, settings,
          link, loop, history>>

-----------------------------------------------------------------------------
\* The boot loader runs a complete image that has not failed.  An image found
\* pending did not confirm itself.
Bootable(s) == slot[s] \in Images /\ state[s] \notin {"pending", "invalid"}

Probation == running # Off /\ state[running] = "pending"

Busy == reserved \/ trial \/ reboot_at

Reset ==
  /\ running' = Off
  /\ ready' = FALSE
  /\ pending' = FALSE
  /\ stable_in' = NotSeen
  /\ deadline_in' = HealthDeadline
  /\ restart_requested' = FALSE
  /\ handler' = "idle"
  /\ reserved' = FALSE
  /\ trial' = FALSE
  /\ reboot_at' = FALSE
  /\ online' = FALSE
  /\ outage' = 0
  /\ steady' = 0
  /\ sample' = "unread"
  /\ ticked' = FALSE
  /\ unread' = unread \cap {"erased"}

Init ==
  /\ slot = [s \in Slots |-> IF s = "ota_0" THEN Factory ELSE Torn]
  /\ state = [s \in Slots |-> "undefined"]
  /\ selected = "ota_0"
  /\ running = Off
  /\ ready = FALSE
  /\ pending = FALSE
  /\ stable_in = NotSeen
  /\ deadline_in = HealthDeadline
  /\ restart_requested = FALSE
  /\ handler = "idle"
  /\ reserved = FALSE
  /\ trial = FALSE
  /\ reboot_at = FALSE
  /\ online = FALSE
  /\ outage = 0
  /\ steady = 0
  /\ sample = "unread"
  /\ ticked = FALSE
  /\ proven = {"ota_0"}
  /\ unread = {}

-----------------------------------------------------------------------------
(* Boot loader and start of the program.                                   *)

\* The selected image, else the other one; when both have failed, any that is complete.
BootSlot == CASE Bootable(selected)        -> selected
              [] Bootable(Other(selected)) /\ ~Bootable(selected) -> Other(selected)
              [] OTHER -> IF slot["ota_0"] \in Images THEN "ota_0" ELSE "ota_1"

\* A new image is put on probation; one that is still on probation has failed.
\* settings_init may find a candidate to try.
Boot(s) ==
  /\ running = Off
  /\ s = BootSlot
  /\ slot[s] \in Images
  /\ running' = s
  /\ selected' = s
  /\ state' = [t \in Slots |-> CASE t = s /\ state[t] = "new" -> "pending"
                                 [] state[t] = "pending"      -> "invalid"
                                 [] OTHER                     -> state[t]]
  /\ trial' \in BOOLEAN
  /\ UNCHANGED <<slot, ready, health, restart_requested, handler, reserved,
                 reboot_at, link, loop, history>>

\* firmware_update_init; the web server runs already.  A boot record that cannot be
\* read leaves an image on probation unwatched.
FirmwareUpdateInit ==
  /\ running # Off
  /\ ~ready
  /\ ready' = TRUE
  /\ pending' \in {Probation, FALSE}
  /\ unread' = IF Probation /\ ~pending' THEN unread \cup {"start"} ELSE unread
  /\ deadline_in' = HealthDeadline
  /\ UNCHANGED <<flash, running, stable_in, restart_requested, handler,
                 settings, link, loop, proven>>

Crash ==
  /\ running # Off
  /\ Reset
  /\ UNCHANGED <<flash, proven>>

-----------------------------------------------------------------------------
(* firmware_update_tick, called by the main loop.                          *)

Ticking == running # Off /\ ready

\* Restarts come before everything else.
TickRestart ==
  /\ Ticking
  /\ restart_requested
  /\ Reset
  /\ UNCHANGED <<flash, proven>>

TickIdle ==
  /\ Ticking
  /\ ~restart_requested
  /\ ~pending
  /\ ~ticked
  /\ ticked' = TRUE
  /\ UNCHANGED <<flash, running, ready, health, restart_requested, handler,
                 settings, link, sample, history>>

OnProbation == Ticking /\ ~restart_requested /\ pending

\* The argument of firmware_update_tick, read before the call.  Without a probation
\* to watch it is not used.
MainRead ==
  /\ OnProbation
  /\ sample = "unread"
  /\ sample' = IF online THEN "online" ELSE "offline"
  /\ UNCHANGED <<flash, running, ready, health, restart_requested, handler,
                 settings, link, ticked, history>>

Watching == OnProbation /\ sample # "unread"

\* Mutant: a connection once seen is not forgotten.
TrackedForever ==
  IF sample = "online" /\ stable_in = NotSeen THEN StableTime ELSE stable_in

\* track_connection: what is left of the stable time after this tick.
Tracked == IF sample # "online" THEN NotSeen
           ELSE IF stable_in = NotSeen THEN StableTime ELSE stable_in

BootHealthy == Tracked = 0 /\ ~trial

\* esp_ota_mark_app_invalid_rollback_and_reboot refuses when there is nothing
\* to go back to; the restart that follows then leaves the image pending.
RollBack ==
  /\ \/ state' = state
     \/ Bootable(Other(running)) /\ state' = [state EXCEPT ![running] = "invalid"]
  /\ Reset
  /\ UNCHANGED <<slot, selected, proven>>

Tock == /\ sample' = "unread"
        /\ ticked' = TRUE
        /\ UNCHANGED <<slot, selected, running, ready, deadline_in,
                       restart_requested, handler, settings, link>>

\* confirm_healthy_boot
TickConfirm ==
  /\ Watching
  /\ BootHealthy
  /\ state' = [state EXCEPT ![running] = "valid"]
  /\ pending' = FALSE
  /\ stable_in' = Tracked
  /\ proven' = proven \cup {running}
  /\ unread' = {}
  /\ Tock

\* Mutant: the image counts as confirmed although the flash write failed.
TickConfirmFailedForgets ==
  /\ Watching
  /\ BootHealthy
  /\ pending' = FALSE
  /\ stable_in' = Tracked
  /\ UNCHANGED <<state, history>>
  /\ Tock

\* The confirmation is tried again with the next tick.
TickConfirmFailed ==
  /\ Watching
  /\ BootHealthy
  /\ deadline_in > 0
  /\ stable_in' = Tracked
  /\ UNCHANGED <<state, pending, history>>
  /\ Tock

TickWait ==
  /\ Watching
  /\ ~BootHealthy
  /\ deadline_in > 0
  /\ stable_in' = Tracked
  /\ UNCHANGED <<state, pending, history>>
  /\ Tock

\* Mutant: the deadline is looked at only while the station is connected.
TickRollBackOnline ==
  /\ Watching
  /\ sample = "online"
  /\ deadline_in = 0
  /\ RollBack

\* The deadline: not healthy, or healthy and not confirmed.
TickRollBack ==
  /\ Watching
  /\ deadline_in = 0
  /\ RollBack

Tick == TickRestart \/ TickIdle \/ TickConfirm \/ TickConfirmFailed
          \/ TickWait \/ TickRollBack

-----------------------------------------------------------------------------
(* The upload and download handlers.  The web server runs one at a time.   *)

Target == Other(running)

Handling(h) == running # Off /\ handler = h

\* Mutant: an image on probation may be replaced.
UploadCheckOmitsProbation ==
  /\ Handling("idle")
  /\ handler' = "checked"
  /\ UNCHANGED <<flash, running, ready, health, restart_requested, settings,
                 link, loop, history>>

\* update_slot_ready and the size check; refused requests change nothing.  On
\* probation only a boot record that cannot be read lets the upload through.
UploadCheck ==
  /\ Handling("idle")
  /\ handler' = "checked"
  /\ unread' = IF Probation THEN unread \cup {"upload"} ELSE unread
  /\ UNCHANGED <<flash, running, ready, health, restart_requested, settings,
                 link, loop, proven>>

\* The handler is done; what its check overlooked does not matter any more.
HandlerOver ==
  /\ handler' = "idle"
  /\ unread' = unread \ {"upload"}

\* Mutant: the reservation is taken without a look at trial and restart.
UploadReserveUnchecked ==
  /\ Handling("checked")
  /\ reserved' = TRUE
  /\ handler' = IF reserved THEN "idle" ELSE "reserved"
  /\ UNCHANGED <<flash, running, ready, health, restart_requested, trial,
                 reboot_at, link, loop, history>>

\* settings_update_begin
UploadReserve ==
  /\ Handling("checked")
  /\ reserved' = (reserved \/ ~Busy)
  /\ IF Busy THEN HandlerOver ELSE handler' = "reserved" /\ UNCHANGED unread
  /\ UNCHANGED <<flash, running, ready, health, restart_requested, trial,
                 reboot_at, link, loop, proven>>

\* esp_ota_begin erases the slot.
EraseTarget ==
  /\ slot' = [slot EXCEPT ![Target] = Torn]
  /\ proven' = proven \ {Target}

Erased == IF "upload" \in unread THEN unread \cup {"erased"} ELSE unread

\* receive_image is next, and fills it.
UploadErase ==
  /\ Handling("reserved")
  /\ EraseTarget
  /\ unread' = Erased
  /\ handler' = "receiving"
  /\ UNCHANGED <<state, selected, running, ready, health, restart_requested,
                 settings, link, loop>>

\* Either the complete image arrives, or bytes that are not a trusted image.
UploadReceive(content) ==
  /\ Handling("receiving")
  /\ slot' = [slot EXCEPT ![Target] = content]
  /\ handler' = "received"
  /\ UNCHANGED <<state, selected, running, ready, health, restart_requested,
                 settings, link, loop, history>>

SelectTarget ==
  /\ state' = [state EXCEPT ![Target] = "new"]
  /\ selected' = Target

\* Mutant: the image is selected whatever esp_ota_end says.
UploadSelectUnchecked ==
  /\ Handling("received")
  /\ SelectTarget
  /\ handler' = "selected"
  /\ UNCHANGED <<slot, running, ready, health, restart_requested, settings,
                 link, loop, history>>

\* finalize_image: esp_ota_end accepts the image, esp_ota_set_boot_partition
\* selects it.
UploadSelect ==
  /\ Handling("received")
  /\ slot[Target] \in Images
  /\ SelectTarget
  /\ handler' = "selected"
  /\ UNCHANGED <<slot, running, ready, health, restart_requested, settings,
                 link, loop, history>>

\* Mutant: a failed upload keeps the reservation.
UploadFailedKeepsReservation ==
  /\ running # Off /\ handler \in {"reserved", "receiving", "received"}
  /\ handler' = "idle"
  /\ UNCHANGED <<flash, running, ready, health, restart_requested, settings,
                 link, loop, history>>

\* Any of the calls fails: out of memory, time or connection, an image that is
\* not accepted, or a boot record that may have been written all the same.
UploadFailed ==
  /\ running # Off /\ handler \in {"reserved", "receiving", "received"}
  /\ \/ UNCHANGED <<flash, proven>> /\ HandlerOver
     \/ /\ handler = "reserved" /\ EraseTarget /\ UNCHANGED <<state, selected>>
        /\ handler' = "idle" /\ unread' = Erased \ {"upload"}
     \/ /\ handler = "received" /\ slot[Target] \in Images /\ SelectTarget
        /\ UNCHANGED <<slot, proven>> /\ HandlerOver
  /\ reserved' = FALSE
  /\ UNCHANGED <<running, ready, health, restart_requested, trial, reboot_at,
                 link, loop>>

\* Mutant: no restart when the answer cannot be sent.
UploadDoneIfSent ==
  /\ Handling("selected")
  /\ restart_requested' \in BOOLEAN
  /\ handler' = "idle"
  /\ UNCHANGED <<flash, running, ready, health, settings, link, loop, history>>

\* The answer is sent, or fails to be sent, before the restart is asked for.
UploadDone ==
  /\ Handling("selected")
  /\ restart_requested' = TRUE
  /\ HandlerOver
  /\ UNCHANGED <<flash, running, ready, health, settings, link, loop, proven>>

\* firmware_download reserves the settings while it streams a release asset to
\* the browser.
DownloadBegin ==
  /\ Handling("idle")
  /\ ~Busy
  /\ reserved' = TRUE
  /\ handler' = "downloading"
  /\ UNCHANGED <<flash, running, ready, health, restart_requested, trial,
                 reboot_at, link, loop, history>>

DownloadEnd ==
  /\ Handling("downloading")
  /\ reserved' = FALSE
  /\ handler' = "idle"
  /\ UNCHANGED <<flash, running, ready, health, restart_requested, trial,
                 reboot_at, link, loop, history>>

UploadStep == UploadReserve \/ UploadErase
                \/ (\E i \in Images \cup {Torn}: UploadReceive(i))
                \/ UploadSelect \/ UploadFailed \/ UploadDone
Upload == UploadCheck \/ UploadStep
Download == DownloadBegin \/ DownloadEnd

-----------------------------------------------------------------------------
(* The settings service, time and the station link.                        *)

\* Settings saved over the web, by Improv or a sign-in reset.
SettingsSave ==
  /\ running # Off
  /\ ~Busy
  /\ reboot_at' = TRUE
  /\ UNCHANGED <<flash, running, ready, health, restart_requested, handler,
                 reserved, trial, link, loop, history>>

\* settings_tick, after firmware_update_tick in the main loop, promotes a candidate
\* that got online; the connection may be gone since it was sampled.
TrialPromoted ==
  /\ Ticking /\ sample = "unread"
  /\ trial /\ (online \/ outage = RetryDelay)
  /\ trial' = FALSE
  /\ UNCHANGED <<flash, running, ready, health, restart_requested, handler,
                 reserved, reboot_at, link, loop, history>>

\* settings_tick reports a restart: one that was scheduled, or a failed trial.
SettingsRestart ==
  /\ Ticking /\ sample = "unread"
  /\ reboot_at \/ trial
  /\ Reset
  /\ UNCHANGED <<flash, proven>>

Minus1(t) == IF t > 0 THEN t - 1 ELSE t

\* The main loop runs at least once in every unit of time, and reads the link in it.
Time ==
  /\ Ticking
  /\ ticked /\ sample = "unread"
  /\ pending \/ outage > 0
  /\ stable_in' = IF pending THEN Minus1(stable_in) ELSE stable_in
  /\ deadline_in' = IF pending THEN Minus1(deadline_in) ELSE deadline_in
  /\ outage' = Minus1(outage)
  /\ steady' = IF online /\ steady < StableTime THEN steady + 1 ELSE steady
  /\ ticked' = FALSE
  /\ UNCHANGED <<flash, running, ready, pending, restart_requested, handler,
                 settings, online, sample, history>>

LinkUp ==
  /\ running # Off
  /\ ~online /\ outage = 0
  /\ online' = TRUE
  /\ steady' = 0
  /\ UNCHANGED <<flash, running, ready, health, restart_requested, handler,
                 settings, outage, loop, history>>

LinkDown ==
  /\ online
  /\ online' = FALSE
  /\ outage' = RetryDelay
  /\ UNCHANGED <<flash, running, ready, health, restart_requested, handler,
                 settings, steady, loop, history>>

-----------------------------------------------------------------------------
Next ==
  \/ \E s \in Slots: Boot(s)
  \/ FirmwareUpdateInit \/ Crash \/ MainRead \/ Tick \/ Upload \/ Download
  \/ SettingsSave \/ TrialPromoted \/ SettingsRestart
  \/ Time \/ LinkUp \/ LinkDown

\* The boot loader and the main loop keep running, and call settings_tick in every
\* round; time passes, however many rounds there are; every handler ends, an upload
\* after 120 s at the latest.
Fairness ==
  /\ WF_vars(\E s \in Slots: Boot(s)) /\ WF_vars(FirmwareUpdateInit)
  /\ WF_vars(MainRead) /\ WF_vars(Tick) /\ SF_vars(Time)
  /\ WF_vars(UploadStep) /\ WF_vars(DownloadEnd) /\ SF_vars(SettingsRestart)

Spec == Init /\ [][Next]_vars
FairSpec == Spec /\ Fairness

-----------------------------------------------------------------------------
\* Types of slots, boot records, health timers and handlers.
TypeOK ==
  /\ slot \in [Slots -> Images \cup {Torn}]
  /\ state \in [Slots -> {"undefined", "new", "pending", "valid", "invalid"}]
  /\ selected \in Slots
  /\ running \in Slots \cup {Off}
  /\ ready \in BOOLEAN
  /\ pending \in BOOLEAN
  /\ stable_in \in 0..StableTime \cup {NotSeen}
  /\ deadline_in \in 0..HealthDeadline
  /\ restart_requested \in BOOLEAN
  /\ handler \in {"idle", "checked", "reserved", "receiving", "received",
                  "selected", "downloading"}
  /\ reserved \in BOOLEAN
  /\ trial \in BOOLEAN
  /\ reboot_at \in BOOLEAN
  /\ online \in BOOLEAN
  /\ outage \in 0..RetryDelay
  /\ sample \in {"unread", "online", "offline"}
  /\ ticked \in BOOLEAN
  /\ steady \in 0..StableTime
  /\ proven \subseteq Slots
  /\ unread \subseteq {"start", "upload", "erased"}

\* Whatever is uploaded, fails or crashes, and in whatever order: a complete
\* image that was confirmed before stays bootable, so the device can always go
\* back to it.  The one exception the code leaves is an upload let through on
\* probation because the boot record could not be read (update_slot_ready).
FallbackKept == "erased" \in unread \/ \E s \in proven: Bootable(s)

\* Once an upload is accepted, the next start runs it, whether the main loop
\* restarts or the power fails before it does: while the restart is outstanding
\* nothing else selects, replaces or rolls back an image.
AcceptedIsNext ==
  restart_requested \/ handler = "selected" =>
    selected = Target /\ slot[Target] \in Images /\ state[Target] = "new"

\* A transfer under way is never cut off by the device itself: no trial, no
\* restart and no probation that may expire can begin or be left over beside it,
\* unless the probation could not be read when the transfer began.
TransferSafe ==
  handler \in {"reserved", "receiving", "received", "selected"} =>
    /\ reserved /\ ~trial /\ ~reboot_at /\ ~restart_requested
    /\ Probation => "upload" \in unread

\* The main loop stops watching an image only when the flash has it confirmed:
\* RAM and boot record never disagree in the direction that would make the next
\* start drop an image the device believes in, except when the boot record could
\* not be read at the start (firmware_update_init).
WatchedWhileOnProbation == Ticking /\ Probation => pending \/ "start" \in unread

\* An image is confirmed only after the station was connected for the whole
\* stable time, although the main loop only samples the connection, and outside
\* a trial of new settings.  The connection lasts, or was lost since the sample
\* the confirmation goes by.
ConfirmedWhenSteady ==
  [][Probation /\ running' = running /\ state'[running] = "valid" =>
       steady = StableTime /\ (online \/ outage = RetryDelay) /\ ~trial]_vars

\* Probation ends with a confirmation or with a rollback, in every start that
\* could read the boot record.
ProbationEnds == Probation ~> ~Probation \/ "start" \in unread

\* An image that was selected comes to run, also when the browser is gone before
\* the answer is sent.
AcceptedRuns ==
  \A s \in Slots: handler = "selected" /\ running = s ~> running = Other(s)

\* Transfers give the settings back, however they end.
ReservationEnds == reserved ~> ~reserved

=============================================================================
