--------------------------- MODULE FirmwareProofs ---------------------------
(***************************************************************************)
(* The device can always go back to a confirmed image, an accepted image   *)
(* is the next to run, and no transfer is cut off by the device itself;    *)
(* what the page in the browser says of an update is so.  For every choice *)
(* of images and times.                                                    *)
(***************************************************************************)
EXTENDS BrowserUpdate, TLAPS

\* A proven slot holds a complete image that has not failed.
ProvenBoots ==
  /\ proven # {} \/ "erased" \in unread
  /\ \A s \in proven: slot[s] \in Images /\ state[s] \in {"undefined", "valid"}

\* What runs is proven, or on probation with the other slot to go back to, unless
\* an upload let through on probation took that.
RunsOverFallback ==
  running # Off =>
    /\ slot[running] \in Images /\ state[running] # "new"
    /\ \/ "erased" \in unread
       \/ IF Probation THEN Other(running) \in proven ELSE running \in proven

\* The boot loader's first choice is what runs or a new image; an image that
\* counts as confirmed there really was.
SelectedKnown ==
  /\ running # Off => selected = running \/ state[selected] = "new"
  /\ \/ selected \in proven \/ "erased" \in unread
     \/ state[selected] \notin {"undefined", "valid"} \/ slot[selected] \notin Images

\* RAM and boot record agree about probation, where the record could be read.
PendingAgrees ==
  /\ Ticking /\ Probation => pending \/ "start" \in unread
  /\ pending => Ticking /\ Probation
  /\ "start" \in unread => Ticking /\ Probation /\ ~pending

Writing == {"checked", "reserved", "receiving", "received", "selected"}

\* A handler beyond its checks works under the reservation and for a confirmed
\* image, or for one whose probation it could not read.
HandlerSound ==
  /\ running = Off => handler = "idle" /\ ~restart_requested /\ ~reserved /\ ~ready
  /\ handler \in Writing /\ Probation => "upload" \in unread
  /\ "upload" \in unread => handler \in Writing /\ Probation
  /\ handler \in {"receiving", "received", "selected"} /\ Probation => "erased" \in unread
  /\ handler \notin {"idle", "checked"} => reserved /\ ~restart_requested
  /\ running # Off /\ handler \in {"receiving", "received"} => Target \notin proven
  /\ restart_requested => reserved
  /\ reserved => ~trial /\ ~reboot_at

FirmwareInv ==
  /\ TypeOK /\ ProvenBoots /\ RunsOverFallback /\ SelectedKnown
  /\ PendingAgrees /\ HandlerSound /\ AcceptedIsNext

-----------------------------------------------------------------------------
LEMMA OtherSlot ==
  \A s \in Slots: Other(s) \in Slots /\ Other(s) # s /\ Slots = {s, Other(s)}
  BY DEF Slots, Other

LEMMA OffIsNoSlot == Off \notin Slots
  BY DEF Off, Slots

\* Types depend on the values only: what is left alone keeps its type.
LEMMA TypesKept ==
  ASSUME TypeOK, UNCHANGED <<flash, running, ready, restart_requested, handler, history>>,
         pending' \in BOOLEAN, reserved' \in BOOLEAN, trial' \in BOOLEAN,
         reboot_at' \in BOOLEAN, online' \in BOOLEAN, ticked' \in BOOLEAN,
         sample' \in {"unread", "online", "offline"},
         stable_in' \in 0..StableTime \cup {NotSeen}, deadline_in' \in 0..HealthDeadline,
         outage' \in 0..RetryDelay, steady' \in 0..StableTime
  PROVE  TypeOK'
  BY Zenon DEF TypeOK, flash, history

\* The same when nothing but the flags of the settings service changes.
LEMMA TypesOfFlags ==
  ASSUME TypeOK,
         UNCHANGED <<flash, running, ready, health, restart_requested, handler, link, history>>,
         reserved' \in BOOLEAN, trial' \in BOOLEAN, reboot_at' \in BOOLEAN,
         ticked' \in BOOLEAN, sample' \in {"unread", "online", "offline"}
  PROVE  TypeOK'
<1>1. /\ pending' \in BOOLEAN /\ online' \in BOOLEAN
      /\ stable_in' \in 0..StableTime \cup {NotSeen} /\ deadline_in' \in 0..HealthDeadline
      /\ outage' \in 0..RetryDelay /\ steady' \in 0..StableTime
  BY Zenon DEF TypeOK, health, link
<1> QED
  BY <1>1, TypesKept

\* The same for what an update changes.
LEMMA TypesOfUpdate ==
  ASSUME TypeOK, UNCHANGED <<running, ready, deadline_in, restart_requested, trial, reboot_at,
                             link>>,
         slot' \in [Slots -> Images \cup {Torn}],
         state' \in [Slots -> {"undefined", "new", "pending", "valid", "invalid"}],
         selected' \in Slots, proven' \subseteq Slots,
         handler' \in {"idle", "checked", "reserved", "receiving", "received",
                      "selected", "downloading"},
         reserved' \in BOOLEAN, pending' \in BOOLEAN, ticked' \in BOOLEAN,
         stable_in' \in 0..StableTime \cup {NotSeen},
         sample' \in {"unread", "online", "offline"},
         unread' \subseteq {"start", "upload", "erased"}
  PROVE  TypeOK'
  BY Zenon DEF TypeOK, link

LEMMA ResetTypes ==
  /\ NotSeen \in 0..StableTime \cup {NotSeen}
  /\ HealthDeadline \in 0..HealthDeadline
  /\ 0 \in 0..RetryDelay
  /\ 0 \in 0..StableTime
  BY FirmwareAssumption

LEMMA InitFirmware == Init => FirmwareInv
<1> SUFFICES ASSUME Init PROVE FirmwareInv
  OBVIOUS
<1>1. TypeOK
  BY ResetTypes, FirmwareAssumption DEF Init, TypeOK, Slots
<1>2. ProvenBoots
  BY FirmwareAssumption DEF Init, ProvenBoots, Slots
<1> QED
  BY <1>1, <1>2
  DEF Init, FirmwareInv, RunsOverFallback, SelectedKnown, PendingAgrees, Ticking,
      HandlerSound, Probation, AcceptedIsNext, Writing, Slots

\* Losing the RAM disturbs nothing as long as the flash is left alone.
LEMMA ResetSafe ==
  ASSUME FirmwareInv, running # Off, Reset, slot' = slot, selected' = selected,
         proven' = proven,
         \/ state' = state
         \/ Probation /\ state' = [state EXCEPT ![running] = "invalid"]
  PROVE  FirmwareInv'
<1>1. TypeOK'
  <2>1. state' \in [Slots -> {"undefined", "new", "pending", "valid", "invalid"}]
    BY DEF FirmwareInv, TypeOK
  <2>2. unread' \subseteq {"start", "upload", "erased"}
    BY DEF Reset
  <2> QED BY <2>1, <2>2, ResetTypes DEF FirmwareInv, TypeOK, Reset
<1>2. "erased" \in unread' <=> "erased" \in unread
  BY DEF Reset
<1>3. \A t \in Slots: \/ state'[t] = state[t]
                      \/ Probation /\ t = running /\ state'[t] = "invalid"
  BY DEF FirmwareInv, TypeOK
<1>4. ProvenBoots'
  BY <1>2, <1>3 DEF FirmwareInv, TypeOK, ProvenBoots, Probation
<1>5. SelectedKnown'
  BY <1>2, <1>3 DEF FirmwareInv, TypeOK, SelectedKnown, Reset, Probation
<1> QED
  BY <1>1, <1>4, <1>5
  DEF Reset, FirmwareInv, RunsOverFallback, PendingAgrees, Ticking, HandlerSound,
      Probation, AcceptedIsNext, Writing

\* The boot loader finds a confirmed image or a new one, while there is any.
LEMMA BootFinds ==
  ASSUME FirmwareInv, running = Off, "erased" \notin unread
  PROVE  \/ BootSlot \in proven
         \/ /\ BootSlot \in Slots /\ state[BootSlot] = "new"
            /\ BootSlot \notin proven /\ Other(BootSlot) \in proven
<1> DEFINE o == Other(selected)
<1>1. selected \in Slots /\ o \in Slots /\ Slots = {selected, o} /\ o # selected
      /\ Other(o) = selected
  BY DEF FirmwareInv, TypeOK, Slots, Other
<1>2. /\ proven \subseteq Slots /\ proven # {}
      /\ \A t \in proven: Bootable(t) /\ state[t] # "new"
  BY DEF FirmwareInv, TypeOK, ProvenBoots, Bootable
<1>3. CASE Bootable(selected)
  <2>1. BootSlot = selected
    BY <1>3 DEF BootSlot
  <2>2. selected \in proven \/ state[selected] = "new"
    BY <1>1, <1>3 DEF FirmwareInv, TypeOK, SelectedKnown, Bootable
  <2> QED
    BY <1>1, <1>2, <2>1, <2>2
<1>4. CASE ~Bootable(selected)
  <2>1. o \in proven
    BY <1>1, <1>2, <1>4
  <2>2. BootSlot = o
    BY <1>2, <1>4, <2>1 DEF BootSlot
  <2> QED
    BY <2>1, <2>2
<1> QED
  BY <1>3, <1>4

LEMMA BootSafe ==
  ASSUME FirmwareInv, NEW s \in Slots, Boot(s)
  PROVE  FirmwareInv'
<1>1. /\ running = Off /\ s = BootSlot /\ slot[s] \in Images
      /\ running' = s /\ selected' = s
      /\ state' = [t \in Slots |-> CASE t = s /\ state[t] = "new" -> "pending"
                                     [] state[t] = "pending"      -> "invalid"
                                     [] OTHER                     -> state[t]]
      /\ UNCHANGED <<slot, ready, health, restart_requested, handler, reserved,
                     reboot_at, link, sample, ticked, proven, unread>>
      /\ trial' \in BOOLEAN
  BY DEF Boot, loop, history
<1>2. s # Off /\ s \in Slots
  BY OffIsNoSlot
<1>3. TypeOK'
  <2>1. state' \in [Slots -> {"undefined", "new", "pending", "valid", "invalid"}]
    BY <1>1 DEF FirmwareInv, TypeOK
  <2> QED BY <1>1, <2>1 DEF FirmwareInv, TypeOK, health, link
<1>4. \A t \in proven: state'[t] = state[t]
  BY <1>1 DEF FirmwareInv, TypeOK, ProvenBoots
<1>5. ProvenBoots'
  BY <1>1, <1>4 DEF FirmwareInv, TypeOK, ProvenBoots
<1>6. RunsOverFallback' /\ SelectedKnown'
  <2>0. state'[s] # "new"
    BY <1>1
  <2>1. CASE "erased" \in unread
    BY <1>1, <2>0, <2>1 DEF RunsOverFallback, SelectedKnown
  <2>2. CASE s \in proven
    <3>1. ~Probation'
      BY <1>1, <1>4, <2>2 DEF FirmwareInv, ProvenBoots, Probation
    <3> QED BY <1>1, <2>0, <2>2, <3>1 DEF RunsOverFallback, SelectedKnown
  <2>3. CASE "erased" \notin unread /\ s \notin proven
    <3>1. state[s] = "new" /\ Other(s) \in proven
      BY <1>1, <2>3, BootFinds
    <3>2. state'[s] = "pending"
      BY <1>1, <3>1
    <3> QED BY <1>1, <1>2, <3>1, <3>2 DEF RunsOverFallback, SelectedKnown, Probation
  <2> QED BY <2>1, <2>2, <2>3
<1>8. ~ready /\ ~pending /\ handler = "idle" /\ ~restart_requested /\ ~reserved
      /\ "start" \notin unread /\ "upload" \notin unread
  BY <1>1 DEF FirmwareInv, HandlerSound, PendingAgrees, Ticking, Probation
<1>9. PendingAgrees' /\ HandlerSound' /\ AcceptedIsNext'
  BY <1>1, <1>2, <1>8
  DEF health, PendingAgrees, Ticking, HandlerSound, AcceptedIsNext, Writing
<1> QED BY <1>3, <1>5, <1>6, <1>9 DEF FirmwareInv

-----------------------------------------------------------------------------
LEMMA RunningSlot ==
  ASSUME FirmwareInv, running # Off
  PROVE  running \in Slots /\ Target \in Slots /\ Target # running /\ Slots = {running, Target}
  BY OtherSlot DEF FirmwareInv, TypeOK, Target

LEMMA TrackedType ==
  ASSUME TypeOK PROVE Tracked \in 0..StableTime \cup {NotSeen}
  BY FirmwareAssumption DEF TypeOK, Tracked

\* What an action that leaves the flash alone has to keep.
LEMMA FlashKept ==
  ASSUME FirmwareInv, UNCHANGED <<flash, proven, running>>,
         "erased" \in unread' <=> "erased" \in unread
  PROVE  ProvenBoots' /\ RunsOverFallback' /\ SelectedKnown' /\ (Probation' <=> Probation)
  BY DEF FirmwareInv, flash, Probation, ProvenBoots, RunsOverFallback, SelectedKnown

\* An action that leaves the flash, probation and the transfer alone keeps the
\* invariant, unless it lets a trial or a restart in beside a reservation.
LEMMA TransferKept ==
  ASSUME FirmwareInv, TypeOK',
         UNCHANGED <<flash, running, ready, pending, restart_requested, handler, reserved,
                     history>>,
         reserved => ~trial' /\ ~reboot_at'
  PROVE  FirmwareInv'
<1>1. state' = state /\ slot' = slot /\ selected' = selected /\ proven' = proven
      /\ unread' = unread
  BY DEF flash, history
<1>2. ProvenBoots' /\ RunsOverFallback' /\ SelectedKnown' /\ (Probation' <=> Probation)
  BY <1>1, FlashKept
<1>3. PendingAgrees'
  BY <1>1, <1>2 DEF FirmwareInv, PendingAgrees, Ticking
<1>4. HandlerSound'
  BY <1>1, <1>2 DEF FirmwareInv, HandlerSound, Target
<1>5. AcceptedIsNext'
  BY <1>1 DEF FirmwareInv, AcceptedIsNext, Target
<1> QED
  BY <1>2, <1>3, <1>4, <1>5 DEF FirmwareInv

LEMMA ConfirmSafe ==
  ASSUME FirmwareInv, TickConfirm
  PROVE  FirmwareInv'
<1>1. /\ running # Off /\ Ticking /\ pending /\ ~restart_requested
      /\ state' = [state EXCEPT ![running] = "valid"]
      /\ pending' = FALSE /\ stable_in' = Tracked /\ ticked' = TRUE /\ sample' = "unread"
      /\ proven' = proven \cup {running} /\ unread' = {}
      /\ UNCHANGED <<slot, selected, running, ready, deadline_in, restart_requested,
                     handler, settings, link>>
  BY DEF TickConfirm, Tock, Watching, OnProbation, Ticking
<1>2. running \in Slots /\ Target \in Slots /\ Target # running
  BY <1>1, RunningSlot
<1>3. state[running] = "pending"
  BY <1>1 DEF FirmwareInv, PendingAgrees, Probation
<1>4. /\ state' \in [Slots -> {"undefined", "new", "pending", "valid", "invalid"}]
      /\ state'[running] = "valid"
      /\ \A t \in Slots: t # running => state'[t] = state[t]
  BY <1>1, <1>2 DEF FirmwareInv, TypeOK
<1>5. TypeOK'
  <2>1. stable_in' \in 0..StableTime \cup {NotSeen} /\ proven' \subseteq Slots
    BY <1>1, <1>2, TrackedType DEF FirmwareInv, TypeOK
  <2> QED
    BY <1>1, <1>4, <2>1, TypesOfUpdate DEF FirmwareInv, TypeOK, settings
<1>6. ~Probation'
  BY <1>1, <1>4 DEF Probation
<1>7. ProvenBoots'
  BY <1>1, <1>2, <1>4 DEF FirmwareInv, TypeOK, ProvenBoots, RunsOverFallback
<1>8. RunsOverFallback'
  BY <1>1, <1>4, <1>6 DEF FirmwareInv, RunsOverFallback
<1>9. SelectedKnown'
  BY <1>1, <1>2, <1>4 DEF FirmwareInv, TypeOK, SelectedKnown
<1>10. PendingAgrees' /\ HandlerSound'
  BY <1>1, <1>2, <1>6 DEF FirmwareInv, PendingAgrees, Ticking, HandlerSound, Target, settings
<1>11. AcceptedIsNext'
  BY <1>1, <1>2, <1>4 DEF FirmwareInv, AcceptedIsNext, Target
<1> QED
  BY <1>5, <1>7, <1>8, <1>9, <1>10, <1>11 DEF FirmwareInv

LEMMA TickSafe == FirmwareInv /\ Tick => FirmwareInv'
<1> SUFFICES ASSUME FirmwareInv, Tick PROVE FirmwareInv'
  OBVIOUS
<1>1. CASE TickRestart
  BY <1>1, ResetSafe DEF TickRestart, Ticking, flash
<1>2. CASE TickRollBack
  <2>1. Probation
    BY <1>2 DEF TickRollBack, Watching, OnProbation, FirmwareInv, PendingAgrees
  <2> QED BY <1>2, <2>1, ResetSafe DEF TickRollBack, RollBack, Probation
<1>3. CASE TickIdle
  <2>1. TypeOK'
    BY <1>3, TypesOfFlags DEF TickIdle, settings, FirmwareInv, TypeOK
  <2> QED
    BY <1>3, <2>1, TransferKept DEF TickIdle, health, settings, FirmwareInv, HandlerSound
<1>4. CASE TickConfirm
  BY <1>4, ConfirmSafe
<1>5. CASE TickConfirmFailed \/ TickWait
  <2>1. /\ stable_in' = Tracked /\ ticked' = TRUE /\ sample' = "unread"
        /\ UNCHANGED <<flash, running, ready, pending, deadline_in, restart_requested,
                       handler, settings, link, history>>
    BY <1>5 DEF TickConfirmFailed, TickWait, Tock, flash
  <2>2. TypeOK'
    BY <2>1, TrackedType, TypesKept DEF settings, link, FirmwareInv, TypeOK
  <2> QED
    BY <2>1, <2>2, TransferKept DEF settings, FirmwareInv, HandlerSound
<1> QED BY <1>1, <1>2, <1>3, <1>4, <1>5 DEF Tick

\* Steps of a handler that leave the flash alone.
LEMMA HandlerStepSafe ==
  FirmwareInv /\ (UploadCheck \/ UploadReserve \/ UploadDone \/ Download) => FirmwareInv'
<1> SUFFICES ASSUME FirmwareInv,
                    UploadCheck \/ UploadReserve \/ UploadDone \/ Download
             PROVE  FirmwareInv'
  OBVIOUS
<1>1. /\ UNCHANGED <<slot, state, selected, running, ready, pending, stable_in, deadline_in,
                     trial, reboot_at, online, outage, steady, sample, ticked, proven>>
      /\ handler' \in {"idle", "checked", "reserved", "downloading"}
      /\ reserved' \in BOOLEAN /\ restart_requested' \in BOOLEAN
      /\ unread' \subseteq {"start", "upload", "erased"}
      /\ "erased" \in unread' <=> "erased" \in unread
      /\ "start" \in unread' <=> "start" \in unread
      /\ running # Off
  BY DEF UploadCheck, UploadReserve, UploadDone, HandlerOver, Download, DownloadBegin,
         DownloadEnd, Handling, flash, health, settings, link, loop, history, FirmwareInv, TypeOK
<1>2. TypeOK'
  BY <1>1 DEF FirmwareInv, TypeOK
<1>3. ProvenBoots' /\ RunsOverFallback' /\ SelectedKnown' /\ (Probation' <=> Probation)
  BY <1>1, FlashKept DEF flash
<1>4. PendingAgrees'
  BY <1>1, <1>3 DEF FirmwareInv, PendingAgrees, Ticking
<1>5. HandlerSound' /\ AcceptedIsNext'
  <2>1. CASE UploadCheck
    BY <1>1, <1>3, <2>1
    DEF UploadCheck, Handling, flash, settings, FirmwareInv, HandlerSound, AcceptedIsNext,
        Target, Writing
  <2>2. CASE UploadReserve
    <3>1. /\ handler = "checked" /\ restart_requested' = restart_requested
          /\ reserved' <=> reserved \/ ~Busy
          /\ Busy => handler' = "idle" /\ unread' = unread \ {"upload"}
          /\ ~Busy => handler' = "reserved" /\ unread' = unread
      BY <2>2 DEF UploadReserve, HandlerOver, Handling
    <3>2. AcceptedIsNext'
      BY <1>1, <3>1 DEF FirmwareInv, AcceptedIsNext, Target
    <3>3. CASE Busy
      BY <1>1, <1>3, <3>1, <3>2, <3>3 DEF FirmwareInv, HandlerSound, Writing
    <3>4. CASE ~Busy
      BY <1>1, <1>3, <3>1, <3>2, <3>4 DEF Busy, FirmwareInv, HandlerSound, Writing
    <3> QED
      BY <3>3, <3>4
  <2>3. CASE UploadDone
    BY <1>1, <1>3, <2>3
    DEF UploadDone, HandlerOver, Handling, flash, settings, FirmwareInv, HandlerSound,
        AcceptedIsNext, Target, Writing
  <2>4. CASE Download
    BY <1>1, <1>3, <2>4
    DEF Download, DownloadBegin, DownloadEnd, Handling, Busy, flash, settings, history,
        FirmwareInv, HandlerSound, AcceptedIsNext, Target, Writing
  <2> QED BY <2>1, <2>2, <2>3, <2>4
<1> QED
  BY <1>2, <1>3, <1>4, <1>5 DEF FirmwareInv

\* A handler that erases the other slot, or fills it, on its way or failing.
LEMMA SlotWritten ==
  ASSUME FirmwareInv, handler \in {"reserved", "receiving"}, running # Off,
         UNCHANGED <<state, selected, running, ready, health, restart_requested, trial,
                     reboot_at, link, loop>>,
         NEW content \in Images \cup {Torn}, slot' = [slot EXCEPT ![Target] = content],
         proven' = proven \ {Target},
         Probation => "erased" \in unread',
         unread' \subseteq {"start", "upload", "erased"},
         "erased" \in unread => "erased" \in unread',
         "start" \in unread' <=> "start" \in unread,
         \/ handler' \in {"receiving", "received"} /\ reserved' = reserved
            /\ ("upload" \in unread' <=> "upload" \in unread)
         \/ handler' = "idle" /\ reserved' = FALSE /\ "upload" \notin unread'
  PROVE  FirmwareInv'
<1>1. running \in Slots /\ Target \in Slots /\ Target # running /\ Slots = {running, Target}
  BY RunningSlot
<1>2. /\ slot' \in [Slots -> Images \cup {Torn}]
      /\ slot'[running] = slot[running] /\ Target' = Target
  BY <1>1 DEF FirmwareInv, TypeOK, Target
<1>3. TypeOK'
  <2>1. proven' \subseteq Slots /\ reserved' \in BOOLEAN
    BY DEF FirmwareInv, TypeOK
  <2> QED
    BY <1>2, <2>1, TypesOfUpdate DEF FirmwareInv, TypeOK, health, loop
<1>4. Probation' <=> Probation
  BY DEF Probation
<1>5. ProvenBoots'
  <2>1. running \in proven \/ "erased" \in unread'
    BY DEF FirmwareInv, RunsOverFallback
  <2> QED
    BY <1>1, <1>2, <2>1 DEF FirmwareInv, TypeOK, ProvenBoots
<1>6. RunsOverFallback'
  BY <1>1, <1>2, <1>4 DEF FirmwareInv, RunsOverFallback
<1>7. SelectedKnown'
  BY <1>1, <1>2 DEF FirmwareInv, TypeOK, SelectedKnown
<1>8. PendingAgrees'
  BY <1>4 DEF FirmwareInv, PendingAgrees, Ticking, health
<1>9. HandlerSound'
  BY <1>2, <1>4 DEF FirmwareInv, HandlerSound, Writing
<1>10. AcceptedIsNext'
  BY DEF FirmwareInv, HandlerSound, AcceptedIsNext
<1> QED
  BY <1>3, <1>5, <1>6, <1>7, <1>8, <1>9, <1>10 DEF FirmwareInv

\* A handler that selects the image it received, whatever the call reports.
LEMMA SlotSelected ==
  ASSUME FirmwareInv, Handling("received"), slot[Target] \in Images, SelectTarget,
         UNCHANGED <<slot, running, ready, health, restart_requested, trial, reboot_at, link,
                     loop, proven>>,
         \/ handler' = "selected" /\ UNCHANGED <<reserved, unread>>
         \/ HandlerOver /\ reserved' = FALSE
  PROVE  FirmwareInv'
<1>1. /\ running \in Slots /\ Target \in Slots /\ Target # running
      /\ Slots = {running, Target} /\ running # Off /\ handler = "received"
  BY RunningSlot DEF Handling
<1>2. /\ state' \in [Slots -> {"undefined", "new", "pending", "valid", "invalid"}]
      /\ state'[running] = state[running] /\ state'[Target] = "new"
      /\ selected' = Target /\ Target' = Target /\ Target \notin proven
  BY <1>1 DEF SelectTarget, FirmwareInv, TypeOK, HandlerSound, Target
<1>3. /\ unread' \subseteq {"start", "upload", "erased"} /\ reserved' \in BOOLEAN
      /\ handler' \in {"idle", "selected"}
      /\ "erased" \in unread' <=> "erased" \in unread
      /\ "start" \in unread' <=> "start" \in unread
      /\ "upload" \in unread' <=> "upload" \in unread /\ handler' = "selected"
      /\ handler' = "selected" => reserved' = reserved
      /\ handler' = "idle" => ~reserved'
  BY DEF HandlerOver, FirmwareInv, TypeOK
<1>4. TypeOK'
  BY <1>1, <1>2, <1>3, TypesOfUpdate DEF FirmwareInv, TypeOK, health, loop
<1>5. Probation' <=> Probation
  BY <1>2 DEF Probation
<1>6. ProvenBoots'
  BY <1>1, <1>2, <1>3 DEF FirmwareInv, TypeOK, ProvenBoots
<1>7. RunsOverFallback' /\ SelectedKnown'
  BY <1>1, <1>2, <1>3, <1>5 DEF FirmwareInv, RunsOverFallback, SelectedKnown
<1>8. PendingAgrees'
  BY <1>1, <1>3, <1>5 DEF FirmwareInv, PendingAgrees, Ticking, health
<1>9. HandlerSound'
  <2>1. reserved /\ ~restart_requested /\ ~trial /\ ~reboot_at
    BY <1>1 DEF FirmwareInv, HandlerSound
  <2>2. CASE handler' = "selected"
    BY <1>1, <1>3, <1>5, <2>1, <2>2 DEF FirmwareInv, HandlerSound, Writing
  <2>3. CASE handler' = "idle"
    BY <1>1, <1>3, <1>5, <2>1, <2>3 DEF HandlerSound, Writing
  <2> QED
    BY <1>3, <2>2, <2>3
<1>10. AcceptedIsNext'
  BY <1>1, <1>2, <1>3 DEF FirmwareInv, HandlerSound, AcceptedIsNext
<1> QED
  BY <1>4, <1>6, <1>7, <1>8, <1>9, <1>10 DEF FirmwareInv

LEMMA FailedSafe ==
  ASSUME FirmwareInv, UploadFailed
  PROVE  FirmwareInv'
<1>1. /\ running # Off /\ handler \in {"reserved", "receiving", "received"}
      /\ handler' = "idle" /\ reserved' = FALSE
      /\ UNCHANGED <<running, ready, health, restart_requested, trial, reboot_at, link, loop>>
  BY DEF UploadFailed, HandlerOver
<1>2. CASE UNCHANGED <<flash, proven>> /\ HandlerOver
  <2>1. unread' = unread \ {"upload"}
    BY <1>2 DEF HandlerOver
  <2>2. ProvenBoots' /\ RunsOverFallback' /\ SelectedKnown' /\ (Probation' <=> Probation)
    BY <1>1, <1>2, <2>1, FlashKept
  <2>3. TypeOK'
    BY <1>1, <1>2, <2>1, TypesOfUpdate DEF FirmwareInv, TypeOK, flash, health, loop
  <2>4. PendingAgrees' /\ HandlerSound' /\ AcceptedIsNext'
    BY <1>1, <2>1, <2>2
    DEF FirmwareInv, PendingAgrees, Ticking, HandlerSound, Writing, AcceptedIsNext, health
  <2> QED
    BY <2>2, <2>3, <2>4 DEF FirmwareInv
<1>3. CASE /\ handler = "reserved" /\ EraseTarget /\ UNCHANGED <<state, selected>>
           /\ unread' = Erased \ {"upload"}
  <2>1. Torn \in Images \cup {Torn}
    OBVIOUS
  <2>2. Probation => "upload" \in unread
    BY <1>3 DEF FirmwareInv, HandlerSound, Writing
  <2>3. /\ Probation => "erased" \in unread'
        /\ unread' \subseteq {"start", "upload", "erased"}
        /\ "erased" \in unread => "erased" \in unread'
        /\ "start" \in unread' <=> "start" \in unread
        /\ "upload" \notin unread'
    BY <1>3, <2>2 DEF Erased, FirmwareInv, TypeOK
  <2> QED
    BY <1>1, <1>3, <2>1, <2>3, SlotWritten DEF EraseTarget
<1>4. CASE /\ handler = "received" /\ slot[Target] \in Images /\ SelectTarget
           /\ UNCHANGED <<slot, proven>> /\ HandlerOver
  BY <1>1, <1>4, SlotSelected DEF Handling
<1> QED
  BY <1>2, <1>3, <1>4 DEF UploadFailed

LEMMA TransferStepSafe == FirmwareInv /\ (Upload \/ Download) => FirmwareInv'
<1> SUFFICES ASSUME FirmwareInv, Upload \/ Download PROVE FirmwareInv'
  OBVIOUS
<1>1. CASE UploadErase
  <2>1. Torn \in Images \cup {Torn}
    OBVIOUS
  <2>2. Probation => "upload" \in unread
    BY <1>1 DEF UploadErase, Handling, FirmwareInv, HandlerSound, Writing
  <2>3. /\ Probation => "erased" \in unread'
        /\ unread' \subseteq {"start", "upload", "erased"}
        /\ "erased" \in unread => "erased" \in unread'
        /\ "start" \in unread' <=> "start" \in unread
        /\ "upload" \in unread' <=> "upload" \in unread
    BY <1>1, <2>2 DEF UploadErase, Erased, FirmwareInv, TypeOK
  <2> QED
    BY <1>1, <2>1, <2>3, SlotWritten DEF UploadErase, EraseTarget, Handling, settings
<1>2. ASSUME NEW i \in Images \cup {Torn}, UploadReceive(i) PROVE FirmwareInv'
  <2>1. Handling("receiving") /\ Target \notin proven /\ (Probation => "erased" \in unread)
    BY <1>2 DEF UploadReceive, Handling, FirmwareInv, HandlerSound
  <2>2. proven' = proven \ {Target} /\ unread' = unread
    BY <1>2, <2>1 DEF UploadReceive, history
  <2>3. unread \subseteq {"start", "upload", "erased"}
    BY DEF FirmwareInv, TypeOK
  <2> QED
    BY <1>2, <2>1, <2>2, <2>3, SlotWritten DEF UploadReceive, Handling, settings
<1>3. CASE UploadSelect
  BY <1>3, SlotSelected DEF UploadSelect, settings, history
<1>4. CASE UploadFailed
  BY <1>4, FailedSafe
<1>5. CASE UploadCheck \/ UploadReserve \/ UploadDone \/ Download
  BY <1>5, HandlerStepSafe
<1> QED
  BY <1>1, <1>2, <1>3, <1>4, <1>5 DEF Upload, UploadStep

LEMMA StepFirmware == FirmwareInv /\ [Next]_vars => FirmwareInv'
<1> SUFFICES ASSUME FirmwareInv, [Next]_vars PROVE FirmwareInv'
  OBVIOUS
<1>1. CASE \E s \in Slots: Boot(s)
  BY <1>1, BootSafe
<1>2. CASE FirmwareUpdateInit
  <2>1. /\ running # Off /\ ~ready /\ ready' = TRUE /\ deadline_in' = HealthDeadline
        /\ pending' \in BOOLEAN /\ (pending' => Probation)
        /\ unread' = IF Probation /\ ~pending' THEN unread \cup {"start"} ELSE unread
        /\ UNCHANGED <<slot, state, selected, running, stable_in, restart_requested, handler,
                       reserved, trial, reboot_at, online, outage, steady, sample, ticked, proven>>
    BY <1>2 DEF FirmwareUpdateInit, Probation, flash, settings, link, loop
  <2>2. "start" \notin unread
    BY <2>1 DEF FirmwareInv, PendingAgrees, Ticking
  <2>3. TypeOK'
    BY <2>1, FirmwareAssumption DEF FirmwareInv, TypeOK
  <2>4. ProvenBoots' /\ RunsOverFallback' /\ SelectedKnown' /\ (Probation' <=> Probation)
    BY <2>1, FlashKept DEF flash
  <2>5. PendingAgrees'
    BY <2>1, <2>2, <2>4 DEF PendingAgrees, Ticking
  <2>6. HandlerSound' /\ AcceptedIsNext'
    BY <2>1, <2>4 DEF FirmwareInv, HandlerSound, AcceptedIsNext, Target
  <2> QED
    BY <2>3, <2>4, <2>5, <2>6 DEF FirmwareInv
<1>3. CASE Crash \/ SettingsRestart
  BY <1>3, ResetSafe DEF Crash, SettingsRestart, Ticking, flash
<1>4. CASE MainRead
  <2>1. TypeOK'
    BY <1>4, TypesOfFlags DEF MainRead, settings, FirmwareInv, TypeOK
  <2> QED
    BY <1>4, <2>1, TransferKept DEF MainRead, health, settings, FirmwareInv, HandlerSound
<1>5. CASE Tick
  BY <1>5, TickSafe
<1>6. CASE Upload \/ Download
  BY <1>6, TransferStepSafe
<1>7. CASE SettingsSave
  <2>1. TypeOK'
    BY <1>7, TypesOfFlags DEF SettingsSave, loop, FirmwareInv, TypeOK
  <2> QED
    BY <1>7, <2>1, TransferKept DEF SettingsSave, Busy, health
<1>8. CASE TrialPromoted
  <2>1. TypeOK'
    BY <1>8, TypesOfFlags DEF TrialPromoted, loop, FirmwareInv, TypeOK
  <2> QED
    BY <1>8, <2>1, TransferKept DEF TrialPromoted, health, FirmwareInv, HandlerSound
<1>9. CASE Time
  <2>1. /\ Minus1(stable_in) \in 0..StableTime \cup {NotSeen}
        /\ Minus1(deadline_in) \in 0..HealthDeadline
        /\ Minus1(outage) \in 0..RetryDelay
        /\ steady < StableTime => steady + 1 \in 0..StableTime
    BY FirmwareAssumption DEF FirmwareInv, TypeOK, Minus1, NotSeen
  <2>2. /\ stable_in' \in 0..StableTime \cup {NotSeen} /\ deadline_in' \in 0..HealthDeadline
        /\ outage' \in 0..RetryDelay /\ steady' \in 0..StableTime
    BY <1>9, <2>1 DEF Time, FirmwareInv, TypeOK
  <2>3. TypeOK'
    BY <1>9, <2>2, TypesKept DEF Time, settings, FirmwareInv, TypeOK
  <2> QED
    BY <1>9, <2>3, TransferKept DEF Time, settings, FirmwareInv, HandlerSound
<1>10. CASE LinkUp
  <2>1. TypeOK'
    BY <1>10, ResetTypes, TypesKept DEF LinkUp, health, settings, loop, FirmwareInv, TypeOK
  <2> QED
    BY <1>10, <2>1, TransferKept DEF LinkUp, health, settings, FirmwareInv, HandlerSound
<1>11. CASE LinkDown
  <2>1. RetryDelay \in 0..RetryDelay
    BY FirmwareAssumption
  <2>2. TypeOK'
    BY <1>11, <2>1, TypesKept DEF LinkDown, health, settings, loop, FirmwareInv, TypeOK
  <2> QED
    BY <1>11, <2>2, TransferKept DEF LinkDown, health, settings, FirmwareInv, HandlerSound
<1>12. CASE UNCHANGED vars
  <2>1. TypeOK'
    BY <1>12, TypesOfFlags DEF vars, settings, loop, FirmwareInv, TypeOK
  <2> QED
    BY <1>12, <2>1, TransferKept DEF vars, health, settings, FirmwareInv, HandlerSound
<1> QED
  BY <1>1, <1>2, <1>3, <1>4, <1>5, <1>6, <1>7, <1>8, <1>9, <1>10, <1>11, <1>12 DEF Next

-----------------------------------------------------------------------------
\* The invariant holds in every reachable state.
THEOREM FirmwareInvariant == Spec => []FirmwareInv
<1>1. Init => FirmwareInv
  BY InitFirmware
<1>2. FirmwareInv /\ [Next]_vars => FirmwareInv'
  BY StepFirmware
<1> QED BY <1>1, <1>2, PTL DEF Spec

\* A confirmed, complete image stays bootable through every upload, probation,
\* rollback and loss of power, also where a boot record could not be read at the
\* start; only an upload let through on probation may erase it.
THEOREM FallbackIsKept == Spec => []FallbackKept
<1>1. FirmwareInv => FallbackKept
  BY DEF FirmwareInv, ProvenBoots, FallbackKept, Bootable
<1> QED BY <1>1, FirmwareInvariant, PTL

\* The next start after an accepted upload runs the uploaded image.
THEOREM AcceptedImageIsNext == Spec => []AcceptedIsNext
<1>1. FirmwareInv => AcceptedIsNext
  BY DEF FirmwareInv
<1> QED BY <1>1, FirmwareInvariant, PTL

\* No trial, restart or probation cuts off a transfer under way, unless the
\* probation could not be read when the transfer began.
THEOREM TransfersAreSafe == Spec => []TransferSafe
<1>1. FirmwareInv => TransferSafe
  BY DEF FirmwareInv, TransferSafe, HandlerSound, PendingAgrees, Writing
<1> QED BY <1>1, FirmwareInvariant, PTL

\* An image on probation stays under the main loop's watch in every start that
\* could read its boot record.
THEOREM ProbationIsWatched == Spec => []WatchedWhileOnProbation
<1>1. FirmwareInv => WatchedWhileOnProbation
  BY DEF FirmwareInv, WatchedWhileOnProbation, PendingAgrees, Ticking, Probation
<1> QED BY <1>1, FirmwareInvariant, PTL

-----------------------------------------------------------------------------
(* What samples of the connection tell about it.                           *)

\* What is left of the stable time has passed for the connection too, an outage
\* lasts until a sample has seen it, and a connection sampled by the main loop is
\* still there or only just lost when the sample is used.
SampledSteady ==
  /\ pending /\ stable_in # NotSeen =>
       IF online THEN steady + stable_in >= StableTime
                 ELSE outage >= 1 /\ (ticked => outage >= 2)
  /\ sample # "unread" => pending
  /\ sample = "online" => online \/ outage = RetryDelay
  /\ sample = "online" /\ stable_in # NotSeen => steady + stable_in >= StableTime
  /\ ~ready => stable_in = NotSeen

SteadyInv == FirmwareInv /\ SampledSteady

\* Steps that leave the connection, its samples and the clock alone.
LEMMA SteadyKept ==
  ASSUME SampledSteady, UNCHANGED <<ready, health, link, loop>>
  PROVE  SampledSteady'
  BY DEF SampledSteady, health, link, loop

LEMMA SteadyReset == Reset => SampledSteady'
  BY DEF Reset, SampledSteady

LEMMA SteadyTick == FirmwareInv /\ SampledSteady /\ Tick => SampledSteady'
<1> SUFFICES ASSUME FirmwareInv, SampledSteady, Tick PROVE SampledSteady'
  OBVIOUS
<1>1. CASE TickRestart \/ TickRollBack
  BY <1>1, SteadyReset DEF TickRestart, TickRollBack, RollBack
<1>2. CASE TickIdle
  BY <1>2 DEF TickIdle, SampledSteady, health, link
<1>3. CASE TickConfirm
  BY <1>3 DEF TickConfirm, Tock, Watching, OnProbation, Ticking, SampledSteady
<1>4. CASE TickConfirmFailed \/ TickWait
  <2>1. /\ ready /\ pending /\ stable_in' = Tracked /\ sample' = "unread"
        /\ UNCHANGED <<ready, pending, online, outage, steady>>
    BY <1>4
    DEF TickConfirmFailed, TickWait, Tock, Watching, OnProbation, Ticking, link
  <2>2. stable_in \in Int /\ steady \in Nat
    BY FirmwareAssumption DEF FirmwareInv, TypeOK, NotSeen
  <2>3. CASE sample = "online"
    <3>1. Tracked = IF stable_in = NotSeen THEN StableTime ELSE stable_in
      BY <2>3 DEF Tracked
    <3>2. steady + Tracked >= StableTime
      BY <2>2, <2>3, <3>1, FirmwareAssumption DEF SampledSteady
    <3>3. online \/ outage >= 2
      BY <2>3, FirmwareAssumption DEF SampledSteady
    <3> QED BY <2>1, <3>2, <3>3, FirmwareAssumption DEF SampledSteady, FirmwareInv, TypeOK
  <2>4. CASE sample # "online"
    BY <2>1, <2>4 DEF Tracked, SampledSteady
  <2> QED BY <2>3, <2>4
<1> QED BY <1>1, <1>2, <1>3, <1>4 DEF Tick

LEMMA SteadyTime == FirmwareInv /\ SampledSteady /\ Time => SampledSteady'
<1> SUFFICES ASSUME FirmwareInv, SampledSteady, Time PROVE SampledSteady'
  OBVIOUS
<1>1. /\ ready /\ ticked /\ UNCHANGED <<ready, pending, online>> /\ sample' = "unread"
      /\ stable_in' = IF pending THEN Minus1(stable_in) ELSE stable_in
      /\ outage' = Minus1(outage) /\ ticked' = FALSE
      /\ steady' = IF online /\ steady < StableTime THEN steady + 1 ELSE steady
  BY DEF Time, Ticking
<1>2. /\ stable_in \in 0..StableTime \cup {NotSeen} /\ outage \in Nat
      /\ steady \in 0..StableTime /\ StableTime \in Nat
  BY FirmwareAssumption DEF FirmwareInv, TypeOK
<1>3. SUFFICES ASSUME pending, stable_in' # NotSeen
               PROVE  IF online THEN steady' + stable_in' >= StableTime ELSE outage' >= 1
  BY <1>1 DEF SampledSteady
<1>4. stable_in \in 0..StableTime /\ stable_in' = Minus1(stable_in)
  BY <1>1, <1>2, <1>3 DEF Minus1, NotSeen
<1>5. CASE online
  <2>1. steady + stable_in >= StableTime
    BY <1>3, <1>4, <1>5 DEF SampledSteady, NotSeen
  <2> QED BY <1>1, <1>2, <1>4, <1>5, <2>1 DEF Minus1
<1>6. CASE ~online
  <2>1. outage >= 2
    BY <1>1, <1>3, <1>4, <1>6 DEF SampledSteady, NotSeen
  <2> QED BY <1>1, <1>2, <1>6, <2>1 DEF Minus1
<1> QED BY <1>5, <1>6

\* A sample taken while the station is connected, and a connection lost or won
\* before the sample is used.
LEMMA SteadyLink ==
  FirmwareInv /\ SampledSteady /\ (MainRead \/ LinkUp \/ LinkDown) => SampledSteady'
<1> SUFFICES ASSUME FirmwareInv, SampledSteady, MainRead \/ LinkUp \/ LinkDown
             PROVE  SampledSteady'
  OBVIOUS
<1>1. CASE MainRead
  <2>1. /\ pending /\ sample' = IF online THEN "online" ELSE "offline"
        /\ UNCHANGED <<ready, pending, stable_in, online, outage, steady, ticked>>
    BY <1>1 DEF MainRead, OnProbation, health, link
  <2> QED BY <2>1 DEF SampledSteady
<1>2. CASE LinkUp
  <2>1. /\ outage = 0 /\ ~online /\ online'
        /\ UNCHANGED <<ready, pending, stable_in, sample>>
    BY <1>2 DEF LinkUp, health, loop
  <2>2. sample # "online"
    BY <2>1, FirmwareAssumption DEF SampledSteady
  <2> QED BY <2>1, <2>2 DEF SampledSteady
<1>3. CASE LinkDown
  <2>1. /\ online /\ ~online' /\ outage' = RetryDelay
        /\ UNCHANGED <<ready, pending, stable_in, sample, steady, ticked>>
    BY <1>3 DEF LinkDown, health, loop
  <2> QED BY <2>1, FirmwareAssumption DEF SampledSteady
<1> QED BY <1>1, <1>2, <1>3

LEMMA StepSteady == SteadyInv /\ [Next]_vars => SteadyInv'
<1> SUFFICES ASSUME FirmwareInv, SampledSteady, [Next]_vars PROVE SampledSteady'
  BY StepFirmware DEF SteadyInv
<1>1. CASE \E s \in Slots: Boot(s)
  BY <1>1, SteadyKept DEF Boot
<1>2. CASE FirmwareUpdateInit
  <2>1. ~pending /\ stable_in = NotSeen
    BY <1>2 DEF FirmwareUpdateInit, SampledSteady, FirmwareInv, PendingAgrees, Ticking
  <2> QED
    BY <1>2, <2>1 DEF FirmwareUpdateInit, SampledSteady, loop
<1>3. CASE Crash \/ SettingsRestart
  BY <1>3, SteadyReset DEF Crash, SettingsRestart
<1>4. CASE Tick
  BY <1>4, SteadyTick
<1>5. CASE Upload \/ Download
  BY <1>5, SteadyKept
  DEF Upload, UploadCheck, UploadStep, UploadReserve, UploadErase, UploadReceive,
      UploadSelect, UploadFailed, UploadDone, Download, DownloadBegin, DownloadEnd
<1>6. CASE SettingsSave \/ TrialPromoted
  BY <1>6, SteadyKept DEF SettingsSave, TrialPromoted
<1>7. CASE Time
  BY <1>7, SteadyTime
<1>8. CASE MainRead \/ LinkUp \/ LinkDown
  BY <1>8, SteadyLink
<1>9. CASE UNCHANGED vars
  BY <1>9, SteadyKept DEF vars
<1> QED BY <1>1, <1>2, <1>3, <1>4, <1>5, <1>6, <1>7, <1>8, <1>9 DEF Next

\* Samples are enough: an image is only confirmed after a whole stable time of
\* connection, which lasts or has only just ended, and not during a trial.
THEOREM ConfirmationsAreEarned == Spec => ConfirmedWhenSteady
<1> DEFINE A == Probation /\ running' = running /\ state'[running] = "valid" =>
                  steady = StableTime /\ (online \/ outage = RetryDelay) /\ ~trial
<1>1. Init => SteadyInv
  BY InitFirmware DEF Init, SteadyInv, SampledSteady
<1>2. SteadyInv /\ [Next]_vars => SteadyInv'
  BY StepSteady
<1>3. SteadyInv /\ [Next]_vars => [A]_vars
  <2> SUFFICES ASSUME SteadyInv, Next, Probation, running' = running,
                      state'[running] = "valid"
               PROVE  steady = StableTime /\ (online \/ outage = RetryDelay) /\ ~trial
    OBVIOUS
  <2>1. /\ state[running] = "pending" /\ running \in Slots /\ running # Off
        /\ running # Target
        /\ state \in [Slots -> {"undefined", "new", "pending", "valid", "invalid"}]
    BY OtherSlot DEF SteadyInv, FirmwareInv, TypeOK, Probation, Target
  <2>2. state' # state /\ ~Reset
    BY <2>1 DEF Reset
  <2>3. ~\E s \in Slots: Boot(s)
    BY <2>1 DEF Boot
  <2>4. ~(Upload \/ Download)
    <3>1. ~SelectTarget
      BY <2>1 DEF SelectTarget
    <3> QED
      BY <2>2, <3>1
      DEF Upload, UploadCheck, UploadStep, UploadReserve, UploadErase, UploadReceive,
          UploadSelect, UploadFailed, UploadDone, Download, DownloadBegin, DownloadEnd, flash
  <2>5. ~(FirmwareUpdateInit \/ Crash \/ MainRead \/ SettingsSave \/ TrialPromoted
          \/ SettingsRestart \/ Time \/ LinkUp \/ LinkDown)
    BY <2>2
    DEF FirmwareUpdateInit, Crash, MainRead, SettingsSave, TrialPromoted, SettingsRestart,
        Time, LinkUp, LinkDown, flash
  <2>6. TickConfirm
    BY <2>2, <2>3, <2>4, <2>5
    DEF Next, Tick, TickRestart, TickIdle, TickConfirmFailed, TickWait, TickRollBack,
        RollBack, flash
  <2>7. Tracked = 0 /\ ~trial
    BY <2>6 DEF TickConfirm, BootHealthy
  <2>8. sample = "online" /\ stable_in = 0
    BY <2>7, FirmwareAssumption DEF Tracked, NotSeen
  <2>9. steady \in 0..StableTime /\ StableTime \in Nat
    BY FirmwareAssumption DEF SteadyInv, FirmwareInv, TypeOK
  <2>10. steady + 0 >= StableTime /\ (online \/ outage = RetryDelay)
    BY <2>8 DEF SteadyInv, SampledSteady, NotSeen
  <2> QED BY <2>7, <2>9, <2>10
<1> QED BY <1>1, <1>2, <1>3, PTL DEF Spec, ConfirmedWhenSteady

-----------------------------------------------------------------------------
(* The page in the browser (module BrowserUpdate).                         *)

PageTypes ==
  /\ page \in {"idle", "prepared", "sending", "waiting"}
  /\ sent \in Images
  /\ from \in Slots
  /\ same_boot \in BOOLEAN
  /\ overdue \in BOOLEAN
  /\ request \in {"none", "coming", "handled", "accepted", "refused"}

\* Another slot is selected than the one that runs only by an upload of this boot.
SelectedHere == page # "idle" /\ running # Off /\ ~same_boot => selected = running

\* The upload belongs to the page that waits for it and to the boot the page read
\* its token from; it is over before the deadline passes.
RequestSound ==
  /\ request = "handled" <=> handler \in Writing
  /\ request \in {"none", "handled"} \/ page = "sending"
  /\ restart_requested => request \in {"none", "accepted"}
  /\ page \in {"idle", "prepared"} => request = "none" /\ ~restart_requested
  /\ handler \in Writing \/ restart_requested => same_boot
  /\ same_boot => running # Off
  /\ page \in {"prepared", "sending"} => ~overdue
  /\ page = "waiting" /\ overdue => request # "handled" /\ ~restart_requested

\* Nothing has come of the upload: the device is where the page found it.
Untouched ==
  /\ selected = from /\ slot[from] \in Images /\ state[from] \in {"undefined", "valid"}
  /\ running \in {from, Off}
  /\ handler # "selected" /\ ~restart_requested
  /\ handler = "received" => slot[Other(from)] \in {sent, Torn}

\* The image the page sent is in the slot that was free.
Written ==
  /\ page \in {"sending", "waiting"}
  /\ request # "coming" /\ (request = "refused" => slipped)
  /\ handler \notin {"checked", "reserved", "receiving", "received"}
  /\ slot[Other(from)] = sent

UploadKnown == page # "idle" /\ ~misled => Untouched \/ Written

PageInv == PageTypes /\ SelectedHere /\ RequestSound /\ UploadKnown

LEMMA InitPage == PageInit => FirmwareInv /\ PageInv
<1> SUFFICES ASSUME PageInit PROVE PageInv
  BY InitFirmware, Zenon DEF PageInit
<1>1. PageTypes
  BY FirmwareAssumption DEF PageInit, PageTypes, Slots
<1>2. SelectedHere /\ UploadKnown
  BY DEF PageInit, SelectedHere, UploadKnown
<1>3. RequestSound
  BY DEF PageInit, Init, RequestSound, Writing
<1> QED
  BY <1>1, <1>2, <1>3 DEF PageInv

LEMMA ReconnectTypes ==
  ASSUME PageTypes, Reconnect
  PROVE  /\ PageTypes'
         /\ UNCHANGED <<page, sent, from, overdue, verdict, misled, slipped>>
<1>1. UNCHANGED <<page, sent, from, overdue, verdict, misled, slipped>>
  BY DEF Reconnect, judged
<1>2. same_boot' \in BOOLEAN
  BY DEF Reconnect
<1>3. request' \in {"none", "coming", "handled", "accepted", "refused"}
  BY DEF Reconnect, PageTypes
<1> QED
  BY <1>1, <1>2, <1>3, Zenon DEF PageTypes

\* What the device does beside an upload leaves the upload alone.
LEMMA PageBeside ==
  ASSUME FirmwareInv, PageInv, Reconnect,
         UNCHANGED <<flash, running, restart_requested>>,
         \/ handler' = handler
         \/ handler \in {"idle", "downloading"} /\ handler' \in {"idle", "downloading"}
  PROVE  PageInv'
<1>1. PageTypes' /\ UNCHANGED <<page, sent, from, overdue, misled, slipped>>
  BY ReconnectTypes DEF PageInv
<1>2. UNCHANGED <<slot, state, selected, running, restart_requested>>
  BY DEF flash
<1>3. /\ handler' = "selected" <=> handler = "selected"
      /\ handler' \in Writing <=> handler \in Writing
      /\ handler' = "received" <=> handler = "received"
      /\ handler' \in {"checked", "reserved", "receiving", "received"} <=>
           handler \in {"checked", "reserved", "receiving", "received"}
  BY DEF Writing
<1>4. CASE running = Off
  <2>1. handler \notin Writing /\ ~restart_requested /\ ~same_boot'
    BY <1>2, <1>4 DEF FirmwareInv, HandlerSound, Writing, Reconnect
  <2>2. request' = IF request \in {"coming", "handled"} THEN "none" ELSE request
    BY <1>2, <1>4 DEF Reconnect
  <2>3. RequestSound'
    BY <1>1, <1>2, <1>3, <2>1, <2>2 DEF PageInv, RequestSound
  <2>4. SelectedHere'
    BY <1>2, <1>4 DEF SelectedHere
  <2>5. UploadKnown'
    BY <1>1, <1>2, <1>3, <2>2 DEF PageInv, UploadKnown, Untouched, Written
  <2> QED
    BY <1>1, <2>3, <2>4, <2>5 DEF PageInv
<1>5. CASE running # Off
  <2>1. same_boot' = same_boot /\ request' = request
    BY <1>2, <1>5 DEF Reconnect, PageInv, PageTypes
  <2>3. RequestSound'
    BY <1>1, <1>2, <1>3, <2>1 DEF PageInv, RequestSound
  <2>4. SelectedHere'
    BY <1>1, <1>2, <2>1 DEF PageInv, SelectedHere
  <2>5. UploadKnown'
    BY <1>1, <1>2, <1>3, <2>1 DEF PageInv, UploadKnown, Untouched, Written
  <2> QED
    BY <1>1, <2>3, <2>4, <2>5 DEF PageInv
<1> QED
  BY <1>4, <1>5

\* Confirming the image that runs.
LEMMA PageConfirm ==
  ASSUME FirmwareInv, PageInv, Reconnect, TickConfirm
  PROVE  PageInv'
<1>1. PageTypes' /\ UNCHANGED <<page, sent, from, overdue, misled, slipped>>
  BY ReconnectTypes DEF PageInv
<1>2. /\ UNCHANGED <<slot, selected, running, restart_requested, handler>>
      /\ state' = [state EXCEPT ![running] = "valid"] /\ running # Off
  BY DEF TickConfirm, Tock, Watching, OnProbation, Ticking
<1>3. same_boot' = same_boot /\ request' = request
  BY <1>2 DEF Reconnect, PageInv, PageTypes
<1>4. state \in [Slots -> {"undefined", "new", "pending", "valid", "invalid"}]
  BY DEF FirmwareInv, TypeOK
<1>5. \A s \in Slots: state'[s] = state[s] \/ state'[s] = "valid"
  BY <1>2, <1>4
<1>6. SelectedHere'
  BY <1>1, <1>2, <1>3 DEF PageInv, SelectedHere
<1>7. RequestSound'
  BY <1>1, <1>2, <1>3, Zenon DEF PageInv, RequestSound
<1>8. from \in Slots
  BY DEF PageInv, PageTypes
<1>9. UploadKnown'
  BY <1>1, <1>2, <1>3, <1>5, <1>8 DEF PageInv, UploadKnown, Untouched, Written
<1> QED
  BY <1>1, <1>6, <1>7, <1>9 DEF PageInv

\* Whatever ends a boot takes the upload with it, if it is not accepted yet.
LEMMA PageStop ==
  ASSUME FirmwareInv, PageInv, Reconnect, running # Off, Reset,
         slot' = slot, selected' = selected,
         \/ state' = state
         \/ Probation /\ state' = [state EXCEPT ![running] = "invalid"]
  PROVE  PageInv'
<1>1. PageTypes' /\ UNCHANGED <<page, sent, from, overdue, misled, slipped>>
  BY ReconnectTypes DEF PageInv
<1>2. running' = Off /\ ~restart_requested' /\ handler' = "idle"
  BY DEF Reset
<1>3. /\ ~same_boot'
      /\ request' = IF request \in {"coming", "handled"} THEN "none" ELSE request
  BY <1>2 DEF Reconnect
<1>4. \A s \in Slots: state[s] # "pending" => state'[s] = state[s]
  BY DEF FirmwareInv, TypeOK, Probation
<1>5. SelectedHere'
  BY <1>2 DEF SelectedHere
<1>6. RequestSound'
  BY <1>1, <1>2, <1>3 DEF PageInv, PageTypes, RequestSound, Writing
<1>7. from \in Slots
  BY DEF PageInv, PageTypes
<1>8. UploadKnown'
  BY <1>1, <1>2, <1>3, <1>4, <1>7 DEF PageInv, UploadKnown, Untouched, Written
<1> QED
  BY <1>1, <1>5, <1>6, <1>8 DEF PageInv

\* A start tries a new image, or goes on with the confirmed one.
LEMMA PageBoot ==
  ASSUME FirmwareInv, PageInv, Reconnect, NEW s \in Slots, Boot(s)
  PROVE  PageInv'
<1>1. PageTypes' /\ UNCHANGED <<page, sent, from, overdue, misled, slipped>>
  BY ReconnectTypes DEF PageInv
<1>2. /\ running = Off /\ running' = s /\ selected' = s /\ s = BootSlot
      /\ state' = [t \in Slots |-> CASE t = s /\ state[t] = "new" -> "pending"
                                     [] state[t] = "pending"      -> "invalid"
                                     [] OTHER                     -> state[t]]
      /\ UNCHANGED <<slot, restart_requested, handler>>
  BY DEF Boot
<1>3. s # Off
  BY OffIsNoSlot
<1>4. handler = "idle" /\ ~restart_requested /\ ~same_boot
  BY <1>2, Zenon DEF FirmwareInv, HandlerSound, PageInv, RequestSound
<1>5. ~same_boot' /\ request' = request
  BY <1>2, <1>3, <1>4 DEF Reconnect
<1>6. SelectedHere'
  BY <1>2 DEF SelectedHere
<1>7. RequestSound'
  BY <1>1, <1>2, <1>3, <1>4, <1>5 DEF PageInv, RequestSound, Writing
<1>8. ASSUME Untouched PROVE Untouched'
  <2>1. Bootable(selected) /\ selected = from /\ from \in Slots
    BY <1>8 DEF Untouched, Bootable, PageInv, PageTypes
  <2>2. s = from
    BY <1>2, <2>1 DEF BootSlot
  <2>3. state'[from] = state[from]
    BY <1>2, <1>8, <2>1 DEF Untouched
  <2> QED
    BY <1>1, <1>2, <1>4, <1>8, <2>2, <2>3 DEF Untouched
<1>9. UploadKnown'
  BY <1>1, <1>2, <1>5, <1>8 DEF PageInv, UploadKnown, Written
<1> QED
  BY <1>1, <1>6, <1>7, <1>9 DEF PageInv

LEMMA PageDevice == FirmwareInv /\ PageInv /\ Device => PageInv'
<1> SUFFICES ASSUME FirmwareInv, PageInv, Device PROVE PageInv'
  OBVIOUS
<1>1. Reconnect
  BY DEF Device
<1>2. CASE \E s \in Slots: Boot(s)
  BY <1>1, <1>2, PageBoot
<1>3. CASE Crash \/ SettingsRestart \/ TickRestart
  BY <1>1, <1>3, PageStop DEF Crash, SettingsRestart, TickRestart, Ticking, flash
<1>4. CASE TickRollBack
  <2>1. running # Off /\ Probation
    BY <1>4
    DEF TickRollBack, Watching, OnProbation, FirmwareInv, PendingAgrees, Probation
  <2> QED
    BY <1>1, <1>4, <2>1, PageStop DEF TickRollBack, RollBack
<1>5. CASE TickConfirm
  BY <1>1, <1>5, PageConfirm
<1>6. CASE MainRead \/ TickIdle \/ TickConfirmFailed \/ TickWait
  BY <1>1, <1>6, PageBeside DEF MainRead, TickIdle, TickConfirmFailed, TickWait, Tock, flash
<1>7. CASE DownloadBegin \/ DownloadEnd
  <2>1. handler \in {"idle", "downloading"} /\ handler' \in {"idle", "downloading"}
    BY <1>7 DEF DownloadBegin, DownloadEnd, Handling
  <2> QED
    BY <1>1, <1>7, <2>1, PageBeside DEF DownloadBegin, DownloadEnd
<1>8. CASE FirmwareUpdateInit \/ SettingsSave \/ TrialPromoted \/ Time \/ LinkUp \/ LinkDown
  BY <1>1, <1>8, PageBeside
  DEF FirmwareUpdateInit, SettingsSave, TrialPromoted, Time, LinkUp, LinkDown
<1> QED
  BY <1>2, <1>3, <1>4, <1>5, <1>6, <1>7, <1>8 DEF Device, Tick, Download

LEMMA PageArrives == FirmwareInv /\ PageInv /\ Arrive => PageInv'
<1> SUFFICES ASSUME FirmwareInv, PageInv, Arrive PROVE PageInv'
  OBVIOUS
<1>1. /\ running # Off /\ handler = "idle" /\ request = "coming"
      /\ UNCHANGED <<page, sent, from, overdue, misled, slipped, same_boot>>
  BY DEF Arrive, Answering, judged
<1>2. page = "sending" /\ (~misled => Untouched)
  BY <1>1 DEF PageInv, RequestSound, UploadKnown, Written
<1>3. /\ UNCHANGED <<slot, state, selected, running, restart_requested>>
      /\ \/ handler' = "checked" /\ same_boot /\ request' = "handled"
         \/ handler' = "idle" /\ request' = "refused"
  BY <1>1 DEF Arrive, UploadCheck, flash, vars
<1>4. PageTypes'
  BY <1>1, <1>3 DEF PageInv, PageTypes
<1>5. SelectedHere'
  BY <1>1, <1>3 DEF PageInv, SelectedHere
<1>6. RequestSound'
  BY <1>1, <1>2, <1>3 DEF PageInv, RequestSound, Writing
<1>7. UploadKnown'
  BY <1>1, <1>2, <1>3 DEF UploadKnown, Untouched
<1> QED
  BY <1>4, <1>5, <1>6, <1>7 DEF PageInv

LEMMA PageHandles == FirmwareInv /\ PageInv /\ Handle => PageInv'
<1> SUFFICES ASSUME FirmwareInv, PageInv, Handle PROVE PageInv'
  OBVIOUS
<1>1. /\ running # Off /\ handler \in Writing /\ running' = running
      /\ UNCHANGED <<page, sent, from, overdue, misled, same_boot>>
      /\ request' = IF handler' = "idle" THEN Answer ELSE request
      /\ slipped' = (slipped \/ (handler' = "idle" /\ selected' # selected))
  BY DEF Handle, UploadReserve, UploadErase, UploadReceive, UploadSelect, UploadFailed,
         UploadDone, Handling, Writing, judged
<1>2. /\ request = "handled" /\ same_boot /\ page \in {"sending", "waiting"} /\ ~overdue
      /\ ~restart_requested
  BY <1>1 DEF PageInv, PageTypes, RequestSound
<1>3. /\ Answer \in {"none", "accepted", "refused"}
      /\ Answer # "none" => page = "sending"
      /\ handler = "selected" => Answer # "refused"
  BY DEF Answer
<1>4. PageTypes'
  BY <1>1, <1>2, <1>3 DEF PageInv, PageTypes
<1>5. handler' = "idle" \/ handler' \in Writing
  BY DEF Handle, UploadReserve, HandlerOver, UploadErase, UploadReceive, UploadSelect,
         UploadFailed, UploadDone, Writing
<1>6. RequestSound'
  <2>1. request' = "handled" <=> handler' \in Writing
    BY <1>1, <1>2, <1>3, <1>5 DEF Writing
  <2>2. request' \in {"none", "handled"} \/ page' = "sending"
    BY <1>1, <1>2, <1>3
  <2>3. restart_requested' => handler = "selected" /\ handler' = "idle"
    BY <1>2 DEF Handle, UploadReserve, UploadErase, UploadReceive, UploadSelect, UploadFailed,
                UploadDone, HandlerOver, Handling
  <2> QED
    BY <1>1, <1>2, <1>3, <2>1, <2>2, <2>3 DEF RequestSound
<1>7. SelectedHere'
  BY <1>1, <1>2 DEF SelectedHere
<1>8. SUFFICES ASSUME ~misled PROVE UploadKnown'
  BY <1>1, <1>4, <1>6, <1>7 DEF PageInv, UploadKnown
<1>9. CASE handler = "selected"
  <2>1. handler' = "idle" /\ UNCHANGED <<slot, state, selected>>
    BY <1>9 DEF Handle, UploadReserve, UploadErase, UploadReceive, UploadSelect, UploadFailed,
                UploadDone, HandlerOver, Handling, flash
  <2> QED
    BY <1>1, <1>2, <1>3, <1>8, <1>9, <2>1 DEF PageInv, UploadKnown, Untouched, Written
<1>10. CASE handler # "selected"
  <2>1. Untouched
    BY <1>1, <1>2, <1>8, <1>10 DEF PageInv, UploadKnown, Written, Writing
  <2>2. /\ from = running /\ Other(from) = Target /\ running \in Slots /\ Target \in Slots
        /\ Target # running
    BY <1>1, <2>1, RunningSlot DEF Untouched, Target
  <2>3. slot \in [Slots -> Images \cup {Torn}]
        /\ state \in [Slots -> {"undefined", "new", "pending", "valid", "invalid"}]
    BY DEF FirmwareInv, TypeOK
  <2>4. ~restart_requested' /\ ~UploadDone
    BY <1>2, <1>10 DEF Handle, UploadReserve, UploadErase, UploadReceive, UploadSelect,
                       UploadFailed, UploadDone, Handling
  <2>5. CASE handler = "received" /\ slot[Target] \in Images /\ SelectTarget /\ slot' = slot
             /\ handler' \in {"idle", "selected"}
    <3>1. slot[Target] = sent /\ selected' # selected
      BY <2>1, <2>2, <2>5, FirmwareAssumption DEF Untouched, SelectTarget
    <3>2. Written'
      BY <1>1, <1>2, <1>3, <2>2, <2>5, <3>1 DEF Written
    <3> QED
      BY <3>2 DEF UploadKnown
  <2>6. CASE /\ handler' # "selected" /\ UNCHANGED <<state, selected>>
             /\ slot'[running] = slot[running]
             /\ handler' = "received" => slot'[Target] \in {sent, Torn}
    <3>1. Untouched'
      BY <1>1, <2>1, <2>2, <2>4, <2>6 DEF Untouched
    <3> QED
      BY <3>1 DEF UploadKnown
  <2>7. CASE UploadSelect
    BY <2>5, <2>7 DEF UploadSelect, Handling
  <2>8. CASE UploadReserve \/ UploadErase
    BY <2>2, <2>3, <2>6, <2>8
    DEF UploadReserve, HandlerOver, UploadErase, EraseTarget, flash
  <2>9. ASSUME NEW content \in {sent, Torn}, UploadReceive(content) PROVE UploadKnown'
    BY <2>2, <2>3, <2>6, <2>9 DEF UploadReceive
  <2>10. CASE UploadFailed
    <3>1. CASE UNCHANGED flash
      BY <2>6, <2>10, <3>1 DEF UploadFailed, HandlerOver, flash
    <3>2. CASE EraseTarget /\ UNCHANGED <<state, selected>>
      BY <2>2, <2>3, <2>6, <2>10, <3>2 DEF UploadFailed, HandlerOver, EraseTarget
    <3>3. CASE /\ handler = "received" /\ slot[Target] \in Images /\ SelectTarget
               /\ slot' = slot
      BY <2>5, <2>10, <3>3 DEF UploadFailed, HandlerOver
    <3> QED
      BY <2>10, <3>1, <3>2, <3>3 DEF UploadFailed
  <2> QED
    BY <2>4, <2>7, <2>8, <2>9, <2>10 DEF Handle
<1> QED
  BY <1>9, <1>10

LEMMA PageActs == FirmwareInv /\ PageInv /\ Page => PageInv'
<1> SUFFICES ASSUME FirmwareInv, PageInv, Page PROVE PageInv'
  OBVIOUS
<1>1. UNCHANGED vars
  BY DEF Page, Prepare, LoadFailed, Send, SendOver, DeadlinePasses, Poll, PollFailed
<1>2. UNCHANGED <<slot, state, selected, running, restart_requested, handler>>
  BY <1>1 DEF vars, flash
<1>3. ASSUME NEW image \in Images, Prepare(image) PROVE PageInv'
  <2>1. /\ page = "idle" /\ page' = "prepared" /\ sent' = image /\ from' = running
        /\ same_boot' = TRUE /\ overdue' = FALSE /\ request' = request
        /\ misled' = ~(selected = running /\ Bootable(running))
        /\ running # Off /\ handler = "idle"
    BY <1>3 DEF Prepare, Answering
  <2>2. request = "none" /\ ~restart_requested
    BY <2>1 DEF PageInv, RequestSound
  <2>3. running \in Slots
    BY <2>1, RunningSlot
  <2>4. PageTypes'
    BY <2>1, <2>2, <2>3 DEF PageTypes
  <2>5. SelectedHere'
    BY <2>1 DEF SelectedHere
  <2>6. RequestSound'
    BY <1>2, <2>1, <2>2 DEF RequestSound, Writing
  <2>7. ASSUME ~misled' PROVE Untouched'
    <3>1. /\ selected = running /\ slot[running] \in Images
          /\ state[running] \in {"undefined", "valid"}
      BY <2>1, <2>3, <2>7 DEF Bootable, FirmwareInv, TypeOK, RunsOverFallback
    <3> QED
      BY <1>2, <2>1, <2>2, <3>1 DEF Untouched
  <2> QED
    BY <2>4, <2>5, <2>6, <2>7 DEF PageInv, UploadKnown
<1>4. CASE LoadFailed \/ Send
  <2>1. /\ page = "prepared" /\ UNCHANGED <<sent, from, overdue, misled, slipped, same_boot>>
        /\ \/ page' = "idle" /\ request' = request
           \/ page' = "sending" /\ request' = "coming"
    BY <1>4 DEF LoadFailed, Send, judged
  <2>2. /\ request = "none" /\ ~restart_requested /\ handler \notin Writing /\ ~overdue
        /\ ~misled => Untouched
    BY <2>1 DEF PageInv, RequestSound, UploadKnown, Written
  <2>3. PageTypes' /\ SelectedHere'
    BY <1>2, <2>1 DEF PageInv, PageTypes, SelectedHere
  <2>4. RequestSound'
    BY <1>2, <2>1, <2>2 DEF PageInv, RequestSound
  <2>5. UploadKnown'
    BY <1>2, <2>1, <2>2 DEF UploadKnown, Untouched
  <2> QED
    BY <2>3, <2>4, <2>5 DEF PageInv
<1>5. CASE SendOver
  <2>1. /\ page = "sending" /\ UNCHANGED <<sent, from, overdue, misled, slipped, same_boot>>
        /\ request' = IF request = "handled" THEN request ELSE "none"
        /\ page' = "waiting" \/ (page' = "idle" /\ request = "refused")
    BY <1>5 DEF SendOver, Finish
  <2>2. ~overdue
    BY <2>1 DEF PageInv, RequestSound
  <2>3. PageTypes' /\ SelectedHere'
    BY <1>2, <2>1 DEF PageInv, PageTypes, SelectedHere
  <2>4. RequestSound'
    BY <1>2, <2>1, <2>2 DEF PageInv, RequestSound
  <2>5. UploadKnown'
    BY <1>2, <2>1 DEF PageInv, UploadKnown, Untouched, Written
  <2> QED
    BY <2>3, <2>4, <2>5 DEF PageInv
<1>6. CASE DeadlinePasses
  <2>1. /\ page = "waiting" /\ request = "none" /\ ~restart_requested /\ overdue' = TRUE
        /\ UNCHANGED <<page, sent, from, misled, slipped, same_boot, request>>
    BY <1>6 DEF DeadlinePasses
  <2>2. PageTypes' /\ SelectedHere'
    BY <1>2, <2>1 DEF PageInv, PageTypes, SelectedHere
  <2>3. RequestSound'
    BY <1>2, <2>1 DEF PageInv, RequestSound
  <2>4. UploadKnown'
    BY <1>2, <2>1 DEF PageInv, UploadKnown, Untouched, Written
  <2> QED
    BY <2>2, <2>3, <2>4 DEF PageInv
<1>7. CASE Poll \/ PollFailed
  <2>1. /\ page = "waiting" /\ page' = "idle"
        /\ UNCHANGED <<sent, from, overdue, same_boot, request>>
        /\ ~same_boot \/ overdue
    BY <1>7 DEF Poll, PollFailed, Finish
  <2>2. request = "none" /\ ~restart_requested
    BY <2>1 DEF PageInv, RequestSound
  <2>3. PageTypes' /\ SelectedHere' /\ UploadKnown'
    BY <2>1 DEF PageInv, PageTypes, SelectedHere, UploadKnown
  <2>4. RequestSound'
    BY <1>2, <2>1, <2>2 DEF PageInv, RequestSound
  <2> QED
    BY <2>3, <2>4 DEF PageInv
<1> QED
  BY <1>3, <1>4, <1>5, <1>6, <1>7 DEF Page

\* What the device does in the page's sight it can do without the page.
LEMMA PageStepIsStep == PageInv /\ [PageNext]_allVars => [Next]_vars
<1> SUFFICES ASSUME PageInv, [PageNext]_allVars PROVE [Next]_vars
  OBVIOUS
<1>1. CASE Device
  BY <1>1 DEF Device, Next
<1>2. CASE Arrive
  BY <1>2 DEF Arrive, Next, Upload
<1>3. CASE Handle
  <2>1. {sent, Torn} \subseteq Images \cup {Torn}
    BY DEF PageInv, PageTypes
  <2>2. UploadStep
    BY <1>3, <2>1 DEF Handle, UploadStep
  <2> QED
    BY <2>2 DEF Next, Upload
<1>4. CASE Page
  BY <1>4 DEF Page, Prepare, LoadFailed, Send, SendOver, DeadlinePasses, Poll, PollFailed
<1>5. CASE UNCHANGED allVars
  BY <1>5 DEF allVars
<1> QED
  BY <1>1, <1>2, <1>3, <1>4, <1>5 DEF PageNext

LEMMA StepPage ==
  FirmwareInv /\ PageInv /\ [PageNext]_allVars => FirmwareInv' /\ PageInv'
<1> SUFFICES ASSUME FirmwareInv, PageInv, [PageNext]_allVars
             PROVE  FirmwareInv' /\ PageInv'
  OBVIOUS
<1>1. FirmwareInv'
  BY PageStepIsStep, StepFirmware
<1>2. CASE UNCHANGED allVars
  <2>1. /\ UNCHANGED <<page, sent, from, overdue, same_boot, request>>
        /\ UNCHANGED <<misled, slipped>>
        /\ UNCHANGED <<slot, state, selected, running, restart_requested, handler>>
    BY <1>2 DEF allVars, vars, flash, browser, judged
  <2>2. PageTypes' /\ SelectedHere'
    BY <2>1 DEF PageInv, PageTypes, SelectedHere
  <2>3. RequestSound' /\ UploadKnown'
    BY <2>1 DEF PageInv, RequestSound, UploadKnown, Untouched, Written
  <2> QED
    BY <1>1, <2>2, <2>3 DEF PageInv
<1> QED
  BY <1>1, <1>2, PageDevice, PageArrives, PageHandles, PageActs DEF PageNext

\* There is no verdict before the end.
Undecided == page # "idle" => verdict = "none"

LEMMA StepUndecided == Undecided /\ [PageNext]_allVars => Undecided'
<1> SUFFICES ASSUME Undecided, [PageNext]_allVars PROVE Undecided'
  OBVIOUS
<1>1. CASE Device \/ Arrive \/ Handle \/ UNCHANGED allVars
  <2>1. UNCHANGED <<page, verdict>>
    BY <1>1 DEF Device, Reconnect, Arrive, Handle, allVars, browser, judged
  <2> QED
    BY <2>1 DEF Undecided
<1>2. CASE Page
  BY <1>2 DEF Page, Prepare, LoadFailed, Send, SendOver, DeadlinePasses, Poll, PollFailed,
              Finish, judged, Undecided
<1> QED
  BY <1>1, <1>2 DEF PageNext

BrowserInv == FirmwareInv /\ PageInv /\ Undecided

\* The invariant of the page and the device holds in every reachable state.
THEOREM BrowserInvariant == PageSpec => []BrowserInv
<1>1. PageInit => BrowserInv
  BY InitPage DEF BrowserInv, Undecided, PageInit
<1>2. BrowserInv /\ [PageNext]_allVars => BrowserInv'
  BY StepPage, StepUndecided DEF BrowserInv
<1> QED
  BY <1>1, <1>2, PTL DEF PageSpec

\* With the page the device does nothing it could not do alone, so what holds of
\* module Firmware holds of the composition.
THEOREM PageImplementsDevice == PageSpec => Spec
<1>1. PageInit => Init
  BY DEF PageInit
<1>2. BrowserInv /\ [PageNext]_allVars => [Next]_vars
  BY PageStepIsStep DEF BrowserInv
<1> QED
  BY <1>1, <1>2, BrowserInvariant, PTL DEF PageSpec, Spec

\* The page's verdict is true: "not retained" only when the device starts the slot it
\* had before; "complete" only for the image it sent, running and confirmed in the
\* other slot; "rejected" only when nothing came of the upload, or its selection was
\* written by a call that failed.
THEOREM VerdictsAreTrue == PageSpec => VerdictTrue
<1> DEFINE Complete == /\ running = Other(from) /\ slot[running] = sent
                       /\ state[running] = "valid"
           A == page # "idle" /\ page' = "idle" =>
                  /\ verdict' = "not_retained" => selected = from
                  /\ verdict' = "complete" /\ ~misled => Complete
                  /\ verdict' = "rejected" /\ ~misled => selected = from \/ slipped
<1>1. BrowserInv /\ [PageNext]_allVars => [A]_allVars
  <2> SUFFICES ASSUME FirmwareInv, PageInv, Undecided, PageNext, page # "idle", page' = "idle"
               PROVE  A
    BY DEF BrowserInv
  <2>1. LoadFailed \/ SendOver \/ Poll \/ PollFailed
    BY DEF PageNext, Device, Reconnect, Arrive, Handle, Page, Prepare, Send, DeadlinePasses
  <2>2. CASE LoadFailed
    <3>1. verdict' = "none"
      BY <2>2 DEF LoadFailed, judged, Undecided
    <3> QED
      BY <3>1
  <2>3. CASE SendOver
    <3>1. verdict' = "rejected" /\ request = "refused"
      BY <2>3 DEF SendOver, Finish
    <3>2. ~misled => selected = from \/ slipped
      BY <3>1 DEF PageInv, UploadKnown, Untouched, Written
    <3> QED
      BY <3>1, <3>2
  <2>4. CASE PollFailed
    BY <2>4 DEF PollFailed, Finish
  <2>5. CASE Poll
    <3>1. /\ running # Off /\ handler = "idle"
          /\ \/ verdict' = "unknown"
             \/ ~same_boot /\ verdict' = "not_retained" /\ running = from
             \/ ~same_boot /\ verdict' = "complete" /\ running # from /\ state[running] = "valid"
      BY <2>5 DEF Poll, Finish, Answering, Tell, Confirmed
    <3>2. running \in Slots /\ from \in Slots
      BY <3>1, RunningSlot DEF PageInv, PageTypes
    <3>3. ASSUME verdict' = "complete", ~misled PROVE Complete
      <4>1. running # from /\ state[running] = "valid"
        BY <3>1, <3>3
      <4>2. running = Other(from)
        BY <3>2, <4>1 DEF Slots, Other
      <4>3. Written
        BY <3>1, <3>3, <4>1 DEF PageInv, UploadKnown, Untouched
      <4> QED
        BY <4>1, <4>2, <4>3 DEF Written
    <3>4. ASSUME verdict' = "not_retained" PROVE selected = from
      BY <3>1, <3>4 DEF PageInv, SelectedHere
    <3> QED
      BY <3>1, <3>3, <3>4
  <2> QED
    BY <2>1, <2>2, <2>3, <2>4, <2>5
<1> QED
  BY <1>1, BrowserInvariant, PTL DEF PageSpec, VerdictTrue

=============================================================================
