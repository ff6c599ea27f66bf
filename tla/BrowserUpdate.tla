---------------------------- MODULE BrowserUpdate ----------------------------
(***************************************************************************)
(* A firmware update as the browser sees it (main/firmware.js,             *)
(* main/firmware_transfer.js), on top of the device of module Firmware:    *)
(* the page reads the device's status, uploads an image and judges from    *)
(* later readings whether the device kept it.  Answers get lost, the       *)
(* device restarts on its own, power fails.                                *)
(*                                                                         *)
(* One page updates the device.  The web server answers one request at a   *)
(* time, so a reading is of the moment it is answered.  It does not tell   *)
(* which slot is started next, and takes a boot record that cannot be read *)
(* for an image neither on probation nor confirmed; both can mislead the   *)
(* page.                                                                   *)
(***************************************************************************)
EXTENDS Firmware

VARIABLES
  page,       \* nothing under way, prepared, sending, or waiting for the restart
  sent,       \* the image chosen
  from,       \* pending.partition
  same_boot,  \* pending.token is still the device's control token
  request,    \* the upload: none, coming, handled, accepted, refused
  overdue,    \* Date.now() > pending.deadline
  verdict,    \* what the page said at the end
  slipped,    \* history: the upload was selected by a call that reported a failure
  misled      \* history: when the page found the device ready, another slot than the
              \* one that ran was to be started next

judged == <<sent, from, overdue, verdict, misled>>
browser == <<page, judged, same_boot, request, slipped>>
allVars == <<vars, browser>>

PageInit ==
  /\ Init
  /\ page = "idle"
  /\ sent = Factory
  /\ from = "ota_0"
  /\ same_boot = FALSE
  /\ request = "none"
  /\ overdue = FALSE
  /\ verdict = "none"
  /\ slipped = FALSE
  /\ misled = FALSE

Answering == running # Off /\ handler = "idle"

-----------------------------------------------------------------------------
(* The device.                                                             *)

\* A restart breaks connections and brings a new token.
Reconnect ==
  /\ same_boot' = (same_boot /\ running' # Off)
  /\ request' = IF running' = Off /\ request \in {"coming", "handled"} THEN "none" ELSE request
  /\ UNCHANGED <<page, judged, slipped>>

Device ==
  /\ \/ \E s \in Slots: Boot(s)
     \/ FirmwareUpdateInit \/ Crash \/ MainRead \/ Tick \/ Download
     \/ SettingsSave \/ TrialPromoted \/ SettingsRestart
     \/ Time \/ LinkUp \/ LinkDown
  /\ Reconnect

\* firmware_post: the token is that of this boot.  On probation the upload goes on
\* if the boot record cannot be read.
Arrive ==
  /\ Answering /\ request = "coming"
  /\ \/ same_boot /\ UploadCheck /\ request' = "handled"
     \/ (~same_boot \/ Probation) /\ request' = "refused" /\ UNCHANGED vars
  /\ UNCHANGED <<page, judged, same_boot, slipped>>

\* What the answer would be, if the page still waits for it.
Answer == IF page # "sending" THEN "none"
          ELSE IF handler = "selected" THEN "accepted" ELSE "refused"

Handle ==
  /\ \/ UploadReserve \/ UploadErase \/ UploadSelect \/ UploadDone \/ UploadFailed
     \/ \E content \in {sent, Torn}: UploadReceive(content)
  /\ request' = IF handler' = "idle" THEN Answer ELSE request
  /\ slipped' = (slipped \/ (handler' = "idle" /\ selected' # selected))
  /\ UNCHANGED <<page, judged, same_boot>>

-----------------------------------------------------------------------------
(* The page.                                                               *)

\* firmware_status_json with readiness "ready"; read: whether the boot record of the
\* running image can be read.
Ready(read) == ~(read /\ Probation) /\ ~trial /\ ~reboot_at

\* transferCandidate: the status before, and the image.
Prepare(image) ==
  /\ page = "idle" /\ Answering /\ \E read \in BOOLEAN: Ready(read)
  /\ page' = "prepared"
  /\ sent' = image
  /\ from' = running
  /\ same_boot' = TRUE
  /\ overdue' = FALSE
  /\ verdict' = "none"
  /\ slipped' = FALSE
  /\ misled' = ~(selected = running /\ Bootable(running))
  /\ UNCHANGED <<vars, request>>

\* The image cannot be loaded.
LoadFailed ==
  /\ page = "prepared"
  /\ page' = "idle"
  /\ UNCHANGED <<vars, judged, same_boot, request, slipped>>

\* install
Send ==
  /\ page = "prepared"
  /\ page' = "sending"
  /\ request' = "coming"
  /\ UNCHANGED <<vars, judged, same_boot, slipped>>

Finish(text) == page' = "idle" /\ verdict' = text

\* uploadImage is over: accepted, refused, or without a clear answer, after 150 s
\* at the latest.  An upload that has come so far goes on without the page.
SendOver ==
  /\ page = "sending"
  /\ request' = IF request = "handled" THEN request ELSE "none"
  /\ \/ page' = "waiting" /\ UNCHANGED verdict
     \/ request = "refused" /\ Finish("rejected")
  /\ UNCHANGED <<vars, sent, from, overdue, misled, same_boot, slipped>>

\* 300 s after the start of the upload, which ends within 150 s together with
\* the restart it leads to.
DeadlinePasses ==
  /\ page = "waiting" /\ ~overdue
  /\ handler # "selected" /\ request = "none" /\ ~restart_requested
  /\ overdue' = TRUE
  /\ UNCHANGED <<vars, page, sent, from, verdict, misled, same_boot, request, slipped>>

Confirmed(read) == read /\ state[running] = "valid"

\* Mutant: the slot that runs is not compared.
TellConfirmed(read) == IF Confirmed(read) THEN "complete" ELSE "none"

\* reconcileBoot after a restart
Tell(read) == IF running = from THEN "not_retained"
              ELSE IF Confirmed(read) THEN "complete" ELSE "none"

\* poll: readStatus succeeds.
Poll ==
  /\ page = "waiting" /\ Answering
  /\ \E read \in BOOLEAN:
       LET told == IF same_boot THEN "none" ELSE Tell(read) IN
         \/ told # "none" /\ Finish(told)
         \/ told = "none" /\ overdue /\ Finish("unknown")
  /\ UNCHANGED <<vars, sent, from, overdue, misled, same_boot, request, slipped>>

\* Mutant: the deadline is only looked at when the device answers.
PollFailedWaits == page = "waiting" /\ overdue /\ UNCHANGED allVars

\* The device does not answer, or the answer is lost.
PollFailed ==
  /\ page = "waiting" /\ overdue
  /\ Finish("unknown")
  /\ UNCHANGED <<vars, sent, from, overdue, misled, same_boot, request, slipped>>

Page == \/ \E image \in Images: Prepare(image)
        \/ LoadFailed \/ Send \/ SendOver \/ DeadlinePasses \/ Poll \/ PollFailed

PageNext == Device \/ Arrive \/ Handle \/ Page

\* The page's timers run out and the device comes to the end of an upload.  Polls
\* may fail for as long as they like.
PageFairness ==
  /\ WF_allVars(\E s \in Slots: Boot(s) /\ Reconnect)
  /\ WF_allVars(FirmwareUpdateInit /\ Reconnect) /\ WF_allVars(TickRestart /\ Reconnect)
  /\ WF_allVars(Handle)
  /\ WF_allVars(SendOver) /\ WF_allVars(DeadlinePasses) /\ WF_allVars(PollFailed)

PageSpec == PageInit /\ [][PageNext]_allVars
FairPageSpec == PageSpec /\ PageFairness

-----------------------------------------------------------------------------
\* What the page says at the end is so.  "Not retained": the device starts the slot
\* it had before.  "Update complete": the image sent runs, confirmed, in the slot
\* that was free.  "Rejected": the device starts the slot it had before, unless the
\* image was selected all the same.  The last two may be wrong only when the device,
\* ready by its status, was to start another slot than the one it ran.
VerdictTrue ==
  [][page # "idle" /\ page' = "idle" =>
       /\ verdict' = "not_retained" => selected = from
       /\ verdict' = "complete" /\ ~misled => /\ running = Other(from) /\ slot[running] = sent
                                              /\ state[running] = "valid"
       /\ verdict' = "rejected" /\ ~misled => selected = from \/ slipped]_allVars

\* An upload is judged within its time, whether the device answers or not.
VerdictReached == page = "waiting" ~> page = "idle"

=============================================================================
