# Verification of the Daddy Status firmware

TLA+ models of the firmware in this repository (`main/`), model-checked with
TLC and, where marked, proved with TLAPS for every value of the constants.
Every definition is translated from the C source; comments in the modules name
the function a definition stands for, and `PROJECT.json` maps each one to its
lines. Code outside this repository (ESP-IDF's Wi-Fi driver, boot loader and
`esp_ota_*`, NVS, the Microsoft services) is modelled from how the code uses it
and marked external.

## The system

An ESP32 shows a Teams presence on two LEDs. FreeRTOS runs six activities that
share state: the **main loop** (`main.c`), the **presence worker**
(`graph_client.c`), the **Wi-Fi worker** (`wifi.c`), the driver's **event
handlers**, the **HTTP server** (`web_server.c`, one request at a time) and the
**LED task** (`ledcontrol.c`). Between them are two queues of length one, one
event group, one mutex (`settings.c`), one spin lock and one atomic flag. Two
NVS namespaces and the OTA slots survive a loss of power.

| Component (source) | State | Operations | What is hard | What makes it correct | Here |
|---|---|---|---|---|---|
| Settings (`settings.c`, `token_storage.c`) | NVS record (active, candidate, pending, tried, reset_auth), RAM copy, boot snapshot, trial, reboot_at, firmware_update, live brightness | init, save, save_wifi, reset_auth, tick, update_begin/end | two flash writes per boot, power loss anywhere, failed writes that were written, three writers | token belongs to the running identity; fallback never lost; trials, resets and locks end | `Settings`, `SettingsPromise`, `SettingsProofs` |
| Firmware update (`firmware_update.c`, `firmware_download.c`) | OTA slots and boot records, pending, connected_at, restart_requested, the reservation | upload, download, tick, init | power loss while a slot is overwritten, probation against settings restarts, unsent answers | always an image to go back to; an accepted image runs; probation ends | `Firmware`, `FirmwareProofs` |
| LED task (`ledcontrol.c`, `led_frame.c`) | mode queue, mode, frame cache, failed | set_mode, refresh, render, wait | a refresh racing a mode, a brightness published before its wake-up, failed output | no mode and no wake-up lost; the LEDs settle | `LedControl`, `LedProofs` |
| Wi-Fi worker (`wifi.c`) | event bits, driver state, backoff, recovery | connect, time out, cancel, restart the station, recovery access point | events that arrive late, calls that fail, an attempt over another | no overlap, no missed loss, reconnects, recovery follows | `WifiStation`, `WifiProofs` |
| Presence worker (`graph_client.c`) and authentication (`auth_client.c`) | status, access token, device code, saved refresh token, what the sign-in page shows | clock, refresh, device login, poll, back off | every call fails in its own way, tokens rotate, answers go stale, waits are computed from text and ticks | a working sign-in is kept, reasons match, the page tells the truth, it recovers, it neither hurries nor sleeps too long | `PresenceWorker`, `PresenceProofs`; lengths of the waits in `Waits`, `WaitsProofs` |
| Main loop and display (`main.c`, `app_state.c`) | last status, display mode | receive, choose the mode, set it | the queue overwrites, time passes without a status, an LED test covers the mode | nothing stale is shown | `Presence`, `PresenceProofs` |
| Improv (`improv.c`, `improv_serial.c`) | frame buffer, provisioning state, pending result, restarting | feed, dispatch, poll | the old address must not complete a new trial | success is reported only for committed credentials; every request is answered | `Improv`, proved about in `SettingsProofs`; parser in `ImprovFrame`, `ImprovFrameProofs` |
| Web server (`web_server.c`) | status snapshot, sign-in code, LED test override, control token | JSON pages, settings and firmware posts | snapshots read while tasks write | answers match what happened | its calls into the services above, the sign-in page (`PresenceWorker`), the LED test (`Presence`), status and control token (`BrowserUpdate`) |
| Storage (`storage.c`) | key partition, NVS data | read keys, scan, generate keys, open, recover | recovery must not erase what is still readable; firmware with and without encryption in turns | saved data is erased only where nothing else can open it | `Storage`, `StorageProofs` |
| Protocol helpers (`protocol.c`, `task_time.h`) | none | Retry-After, seconds to ticks, next slot, parse and encode | limits, overflow, coarse ticks | waits neither overflow nor shrink to nothing | `Waits`, `WaitsProofs`; parsing of JSON and forms is not modelled |
| Presence mapping (`presence.c`), HTTP (`http_transport.c`) | buffers | map, request | — | — | not modelled: a table, and I/O whose outcomes are the answers of `PresenceWorker` |
| Browser (`dashboard.js`, `firmware*.js`, `auth.html`) | prepared update, deadline, the boot it knows | read status, upload, poll, judge | the answer is lost, the device restarts on its own | the verdict is true, and there is one | `BrowserUpdate` for an update, proved about in `FirmwareProofs`; dashboard and release list are presentation |
| Diagnostics (`diagnostics.c`, `firmware_status.c`) | none of their own | sampling, JSON | — | — | not modelled; what the page reads of the firmware status is in `BrowserUpdate` |

Calls and shared state: the main loop calls `firmware_update_tick`,
`settings_tick`, `improv_serial_tick` in this order, then takes the newest
status and sets the LED mode. Web handlers and Improv call the settings service
under its mutex. A firmware transfer holds `firmware_update`, which makes
`settings_busy` refuse everything else. The presence worker waits for the
`CONNECTED` bit of the Wi-Fi worker and owns the refresh token after
`settings_init` decided whether to erase it.

## Modules

### Settings, SettingsPromise

`nvs` and `token` are flash; everything else is lost by `Reset` (power loss,
abort, restart). `settings_init` is three actions, one per flash access
(`BootLoad`, `BootErase`, `BootPersist`), each of which may fail; a failing one
ends in `ESP_ERROR_CHECK` and a reboot. `PersistFailed` leaves either value in
flash. The main loop reads the link first (`MainRead`) and uses what it read in
`SettingsTick`, so the value may be old. The code compares times with deadlines;
the model counts what is left of them (`Minus1`), and `Time` is one unit.
The time server and the two intervals are one value (`Timings`): the service
only compares them. `TokenStore` and `TokenDrop` are the presence worker,
reduced to what it does to the token.

`SettingsPromise` is the abstract specification: one committed value, one
offered candidate that is run at most once, a sign-in bound to its identity. It
knows no records, flags, timers or errors. `Settings!ImplementsPromise` is the
refinement, checked as a property and proved.

### Firmware

Two slots with content and boot record, the boot loader's choice (`Boot`), the
tick of the main loop in its order of checks, the upload handler step by step,
power loss (`Crash`) between any two. An incomplete or untrusted image is
`Torn`. Signature checking itself is ESP-IDF's. Of the settings service only
reservation, trial and scheduled restart are kept. The link is read before the
tick that goes by it (`MainRead`, `sample`), so it may be gone when an image is
confirmed. Selecting an image may be written although the call reports an error
(`UploadFailed`).

* `esp_ota_get_state_partition` may fail, and both callers then take the image
  for one that is not on probation. `unread` is the history of where that
  happened, and it is what the properties except:
  - at the `"start"` (`firmware_update_init`): nobody watches the image, it is
    neither confirmed nor rolled back, and the next start drops it
    (`WatchedWhileOnProbation`, `ProbationEnds`);
  - for the `"upload"` (`update_slot_ready`): the upload starts although the
    image that runs is on probation, and the deadline may cut it off
    (`TransferSafe`);
  - such an upload has `"erased"` the only image to go back to
    (`FallbackKept`). The boot loader is then left with what is complete
    (`BootSlot`, last case), confirmed or not.
  Without a failed read the properties hold as if the exceptions were not there.

* A confirmation that reports an error is taken to have left the image pending.
  `esp_ota_mark_app_valid_cancel_rollback` either changes the one state word or
  does not. Were it changed in spite of an error, `pending` and the boot record
  would disagree and the deadline would roll back a confirmed image.
* `RetryDelay >= 2`: an outage is never shorter than two ticks of the main loop;
  `ConfirmedWhenSteady` rests on this. That an outage lasts for a slice of the
  worker's backoff, one second, is `WifiStation!OutagesLast`, checked and proved;
  that the main loop ticks more than twice in a second is the 100 ms of its queue
  wait (`main.c`).

### LedControl

The mode queue of length one, the two clients and the task. `SetBrightness`
(under the mutex) and `LedsRefresh` (after it) are separate steps because other
tasks run between them. `Frame` keeps of a frame what tells two of them apart.
After a failed output the LEDs may show anything (`Garbage`).

### WifiStation

The worker's program counter follows `wifi_worker`, `attempt_connect` and
`cancel_attempt`; `worker_wait` and `worker_delay` are cut into slices, in each
of which `recovery_tick` runs. The driver puts events into one queue in the
order in which they happen; the event handler takes them any time later. A
disconnect request to an idle station posts no event. That `GOT_IP` could be
posted by the TCP/IP task after the driver's `DISCONNECTED` is not modelled.
`rested` is history: a slice of the backoff has passed since the connection was
lost.

### PresenceWorker, Presence

`PresenceWorker` is the presence task with the authentication client it calls.
A device code is asked about in two steps: code and connection are looked at
before the request (`AskForTokens`), and both may be gone when it is answered.
The services may answer anything; `invalid_grant` is the one answer reserved
for a token that was revoked, as OAuth defines it. Waits before retries last
any length of time here; `Waits` counts them. Reasons are `none`, `auth` (the
value `auth_client_ensure` starts with) and `other`. Ages count up to the stale
time, which stands for everything older. `event` is what the worker told the
web server of the sign-in, and `SignIn` what the page makes of it.

`Presence` composes the worker with the queue's reader and with the LED test of
the web server: the main loop takes the newest status, chooses the mode, lets a
test that is not over override it, and sets it when it changed. `reported` and
`tested` are history: how long ago Graph reported, or somebody chose, an
activity. Both count per activity, so showing one for another is an error too.

### Waits

One round of requests, then the wait for the next slot (`NextSlot`, `WaitSlot`)
or the wait after a failure (`RetryAfterSeconds`, `WaitRetry`, chunk by chunk,
then the random delay below a second, `Jitter`).
Unsigned integers and ticks wrap at `Modulus`; a task wakes up to `Late` units
after the tick. The clock is set back to its phase within the tick at each new
round, since nothing but the difference from `poll_started` is used. The
references are `Asked`, the header read digit by digit in integers without a
width and cut off only at the end; `hold`, a backoff that simply doubles with
every failure in a row; and `FirstSlot`, the definition of a slot by a set.

### Improv, ImprovFrame

`Improv` extends `Settings` with the provisioning service and its client. The
main loop alternates between `settings_tick` (`TickDone`) and
`improv_serial_tick` (the actions guarded by `Serving`, ending in `Poll`). The
tick that finds a restart due runs both before the restart, so `Restart` and
`ExpireAndRestart` are one step with the client's last answer in it. Commands
are complete frames; refused ones change nothing. `asked`, `answer` and `cut`
are the client: the network it submitted last, what it heard of it, and whether
the device was restarted by something else in between, after which the code
promises no answer. `web` are the networks saved over the web since: the device
keeps nothing of a request but the flag of a trial, so the trial of such a
network answers the client that still waits, and `SuccessIsCommitted` says so.

`ImprovFrame` is the parser underneath: `Feed` is `improv_feed` for one byte,
`paused` says that the byte before is more than a second old, `Complete` is
`complete_frame` with the dispatch up to the call that acts. Sizes are
parameters (prefix, values of a byte, limits of the strings). The reference is
the client's side: `Encoded` are the frames it builds, and `Expected` says what
has to be understood from the bytes heard, without a buffer or a state.

### Storage

`storage_init` call by call over a key partition and `Chunks` pieces of data,
for firmware built with and without NVS encryption. `Stop` may come at any
step, also while keys are being written. `Flash`, `Provision`, `LoseKeys` and
`EraseFlash` are what happens to a device between two starts. `saved` is
history: what was saved and not deliberately erased.

### BrowserUpdate

`BrowserUpdate` extends `Firmware` with the page that updates the device: the
status read before (`Prepare`), the upload, which may be lost before or after
the device handled it (`SendOver`), polls that may fail, and the verdict of
`reconcileBoot` (`Tell`). `Reconnect` is what a restart does to the page: a
broken connection and a new control token, by which it tells boots apart.

The status does not say which slot is started next, nor whether the boot record
could be read. Two histories follow what this hides from the page, and
`VerdictTrue` excepts them:

* `slipped`: the upload failed, but its image was selected all the same. The page
  says "rejected", and the next start runs the image.
* `misled`: the device was ready by its status, but was to start another slot
  than the one it ran. "Complete" may then be told of an earlier image that slot
  held, and "rejected" of a device that will start the other slot anyway.

## Runs

| Run | Bounds | States | Shows |
|---|---|---|---|
| `settings` | 2 networks, 2 identities, 2 levels, trial of 2 units | 95 000 | `TokenIdentity`, `CandidateMarked`, `SnapshotMatchesRecord`, `FallbackWifiProven`, `UpdateUndisturbed`, `ImplementsPromise` |
| `settings_live` | 1 network, 2 identities, 1 level | 3 300 | `TrialResolves`, `ResetTakesEffect`, `Unlocks` |
| `firmware` | 2 images, 2 slots, stable 2, deadline 3 | 121 600 | `FallbackKept`, `AcceptedIsNext`, `TransferSafe`, `WatchedWhileOnProbation`, `ConfirmedWhenSteady`, `ProbationEnds`, `AcceptedRuns`, `ReservationEnds` |
| `led` | 4 modes (2 animated), 2 levels | 19 100 | `ModeNotLost`, `NoStaleSleep`, `Settles` |
| `wifi` | join 2, cancel 1, backoff up to 3, recovery after 4 slices | 5 000 | `NoOverlap`, `StatusTruthful`, `LossIsNoticed`, `OutagesLast`, `Reconnects`, `RecoveryFollows` |
| `presence_worker` | 1 activity, code of 3 units, interval up to 2 | 5 300 | `ReasonMatches`, `SignInTold`, `SignInKept`, `Recovers` |
| `presence` | 1 activity, code of 2 units, test of 2 units | 2 400 000 | `NoStaleActivity` |
| `waits` | integers mod 64, 2 ticks a second, waits in chunks of 6 s, headers of up to 3 characters, requests that end around the slots | 10 700 | `OnCadence`, `RetriesOnTime` |
| `improv` | 2 networks, 1 identity, 1 level, trial of 2 units | 308 000 | `SuccessIsCommitted`, `RequestsAnswered` |
| `improv_frames` | bytes mod 7, 6 of them sent, prefix of 2, strings of up to 1 | 347 000 | `FramesUnderstood`, `FrameFits` |
| `storage` | 3 chunks, 2 keys | 520 | `SavedDataKept` |
| `browser` | 2 images, 2 slots, stable 1, deadline 1 | 905 000 | `VerdictTrue`, `VerdictReached` |

Type invariants are not run: those of `Settings`, `Improv`, `WifiStation`,
`PresenceWorker` and `Presence` are theorems, and those of `LedControl`,
`Firmware`, `Storage` and `ImprovFrame` parts of the inductive invariants below.

Why the bounds are enough. Two networks and two identities allow every
combination of "the same" and "changed" that the code compares; no definition
tells apart more than two. Two slots are what the partition table has. Time
limits only matter relative to each other: the trial is longer than the restart
delay and than the wait between two attempts to promote, the deadline of
probation is longer than the stable time, recovery takes longer than an attempt
with its cancellation, an LED test outlives a unit of time. In the presence run
one activity and "unknown" can be reported or tested; that two activities are
not confused is left to the proof. Counters that the code lets run (ages,
device code, backoff) are cut off at the value beyond which the code makes no
difference.

The sizes of `improv_frames` keep the proportions of the code: the length byte
can announce more data than any command has, as much as the buffer holds and no
more (`FrameFits` is tight), and the prefix consists of two different bytes, so
that a frame can start inside what looked like another. In `waits` the width of
integers, the rate of ticks and the limits are small enough for every overflow
the code guards against to be reached by a header of three digits; the durations
end one unit before, on and after the first slots, and beyond a slot. In
`storage` an interrupted scan or erase leaves a part of three.

Deadlock is checked in every run: power can be lost, a link can change or time
can pass in every state, so a state without a successor would be a mistake of
the model. That the tasks themselves get on is what the liveness properties say.

## Fairness

* Main loop, LED task, Wi-Fi worker and event handler: weak fairness; they are
  endless loops with bounded waits. Time passes (weak fairness).
* In `Firmware` the main loop reads the link, ticks and calls `settings_tick` in
  every round, in which time may pass or not: weak fairness on `MainRead` and
  `Tick`, strong on `Time` and `SettingsRestart`, which are disabled between the
  read and the tick.
* `SF` on boot steps (`Settings`): a failed boot aborts and starts over, so a
  step is tried again and again and succeeds some day.
* `SF` on LED output and on `Connect`, `Joined`, `OnGotIp`, `EnterRecovery`,
  `LeaveRecovery`: something the code retries forever succeeds some day.
* `SF` on the good answers of clock, token endpoint and Graph, on the user
  completing a sign-in, and on a request made while code and connection last
  (`AskForTokens`): the same. `Recovers` says that nothing *else* is needed,
  in particular that no failure leaves the worker in a state from which the
  good answer is never asked for.
* Handlers end (weak fairness on `UploadStep`, `DownloadEnd`,
  `UpdateEnd \/ UpdateRestart`): uploads and downloads have deadlines.
* `Poll` (`Improv`): weak fairness, a step of the main loop. `RequestsAnswered`
  speaks of clients that stop submitting again before they heard an answer; each
  new submission starts a new request.
* The page (`BrowserUpdate`): its timers run out (`SendOver`, `DeadlinePasses`,
  `PollFailed` after the deadline), and the device boots, initialises, restarts
  and comes to the end of an upload. Nothing makes a poll succeed:
  `VerdictReached` holds for a device that is never heard of again.
* No fairness on power loss, on users, or on the link.

## Proofs

Proofs are for all values of the constants, under the named assumptions in the
modules (which TLC evaluates in the runs).

**`SettingsProofs`** — `TypeCorrect`, `TokensKeepTheirIdentity`,
`CandidatesAreMarked`, `SnapshotsMatch`, `FallbackIsProven`. None of these is
inductive. `IInv` adds what the *next boot* will make of the flash: `TokenFits`
says that for the record in flash, whichever of old and new value a failed
write left there, the token is absent, will be erased, or belongs to the
identity this record leads to. `InvErase` and `InvPersist` tie a half-finished
boot to the flash; `InvTrial` and `InvSettled` say which records can be in flash
beside a running snapshot. `FallbackIsProven` and `UpdatesAreUndisturbed` are
action properties from the same invariant.

`PromiseIsKept` is the refinement, `Spec => Promise!Spec`. Each action has a
lemma that names the promise's action it maps to: the end of a boot is `Start`
(`PromiseStart`), a failed write of the boot is `Mark`, `Drop` or nothing
(`PromiseFailure`), a save that reaches the flash is `Offer`, `Apply` or
`Withdraw` whether or not it reported an error (`PromiseWrite`), a repeated
promotion of what is already in flash is a stutter (`PromisePromote`). The
invariant is needed throughout: without `InvTrial` a promotion could commit
what does not run, without `TokenFits` a start could keep another's sign-in.

Improv is proved about in the same module: `ImprovTypes`, `SuccessesAreCommitted`,
and `ProvisioningUsesSettings`, that each step of the composition is a step of
`Settings` or leaves it alone, so all that is proved of `Settings` holds with
Improv (`ProvisioningKeepsPromise`). `ImprovInv` adds to the invariant of
`Settings` that the candidate still to be tried, the network of a trial, and the
network in use while an answer is due are the client's or were saved over the web
while it waited (`CandidateAsked`, `TrialAsked`, `AnswerDue`).

**`LedProofs`** — `ModesAreNotLost`, `NoWakeUpIsLost`. `LedInv` adds that the
cached frame is what the LEDs show, and that an outdated frame, whether being
sent or cached, always has a wake-up behind it (a pending refresh or a queue
item).

**`FirmwareProofs`** — `FallbackIsKept`, `AcceptedImageIsNext`,
`TransfersAreSafe`, `ProbationIsWatched`, `ConfirmationsAreEarned`.
`FirmwareInv` adds that what runs is either proven or has a proven image in the
other slot (`RunsOverFallback`), that the boot loader's choice is known (`SelectedKnown`), that RAM and boot record
agree (`PendingAgrees`) and what each step of a handler may rely on
(`HandlerSound`). Each of these says which failed read of a boot record it cannot
survive: `"start"` breaks `PendingAgrees`, `"upload"` weakens `HandlerSound`, and
`"erased"` takes away the three parts on which `FallbackIsKept` rests. For
`ConfirmationsAreEarned`, `SampledSteady` relates the samples to the connection:
connected time and what is left of the stable time add up, and an outage not
sampled yet, or begun since the sample, still lasts for another one, which is
where `RetryDelay >= 2` is used.

The page that updates the device is proved about here too. `PageImplementsDevice`:
each step of `BrowserUpdate` is a step of `Firmware` or leaves the device alone,
so the theorems above hold with the page. For `VerdictsAreTrue` the page has to
infer what happened from the little it sees, and `PageInv` says why it can.
`UploadKnown`: until the verdict the device is `Untouched` (it starts the slot
the page found it in) or the page's image is `Written`, which a selection that
reported a failure also leads to (`slipped`). `SelectedHere`: after a restart the
slot that runs is the one selected. `RequestSound` ties the upload to the boot
the page read its token from, which is what makes "the same boot" and "another boot" mean
anything once the answer is lost.

**`WifiProofs`** — `AttemptsDoNotOverlap`, `StatusIsTruthful`,
`LossesAreNoticed`, `OutagesDoLast`, `TypeCorrect`. What is hard to see is which
events can be queued when. `WifiInv` ranks the events (`Rank`): each is queued at most once
and in the order of a connection's life (`EventsOK`), which ones fits the
driver's state (`DriverOK`, `StartOK`, `AirOK`), and `RestOK` says what the
worker's position implies about both. "Never two attempts" is then a
consequence of the positions before an attempt. `OutagesDoLast` follows from what
the invariant says while no slice of the backoff has passed since a loss: the
driver neither joins nor is up, and no address is on its way.

**`PresenceProofs`** — `ReasonsMatch`, `SignInIsTold`, `SignInsAreKept` for the
worker alone, `NothingStaleIsShown` and `TypeCorrect` for the composition, in which
`WorkerKeepsItsWord` repeats the first three.
`WorkerInv` adds to `ReasonMatches` which reasons are pending at which step
(`PendingErrors`) and what the page was told (`EventOK`). `DisplayInv` adds that
the ages carried by the worker's status, the queue and the main loop's copy are
never younger than the report they are of (`AgeOK`), that a running test is one
somebody chose (`TestOK`), and that what the main loop has shown in this unit of time
was still due when the unit began (`ShownOK`).

**`StorageProofs`** — `SavedDataIsKept`. `StorageInv` says that only
fitting firmware gets past the start and keys exist only where the flash is
encrypted (`Agreed`), and what each step of the start has already
found out (`Reached`), in particular that the part already scanned is
empty and that only firmware without encryption erases.

**`ImprovFrameProofs`** — `FramesFit`; `RoundTrip`: what the client encodes
is what `complete_frame` understands, for every network and password within the
limits, by lemmas on joining sequences and on `take_string`; and
`CommandsUnderstood`: on a line with anything on it, the device acts exactly when
a frame of the client has ended, and on what it says. `ParserInv` is the
invariant for the last: the buffer is the end of what was heard, and no prefix
begins before it (`Located`). It is kept because the first byte of the prefix
does not come again in it (`FrameAssumption`; "IMPROV" in the code): the byte that
breaks off a prefix can begin another, but none of those before it can
(`Restarted`).

**`WaitsProofs`** — `RetryAfterExact`: for every header, of any length, the code
returns the number it states, cut off at the limit, although it computes in
integers that wrap. The provers have no induction over a predicate, so the
induction over the digits is one over a set of naturals, and rests on the least
element of its complement (`LeastNat`, `SetInduction`); the recursive functions
are unfolded by `RecursionOverNat`. `StaysOnCadence` and `RetriesInTime` follow
from `WaitsInv`: the ticks slept, what is left of the wait and the task's lateness
add up (`RetryOnTime`), `backoff` is the doubling one (`BackoffDoubles`), and the
slot is passed by less than a tick and the lateness (`SlotOnTime`). The random
delay of a retry adds less than a second to the wait, and as it ends on a tick
again the lateness counts once. The lemmas
`TicksExact` and `WholeSeconds` are about the conversion to ticks: it neither
overflows nor rounds a wait down to nothing.

Every safety invariant and every safety action property that a run checks is
proved. Only model-checked are the liveness properties (fairness and `ENABLED`
are out of the prover's reach): `TrialResolves`, `ResetTakesEffect`, `Unlocks`,
`ProbationEnds`, `AcceptedRuns`, `ReservationEnds`, `Settles`, `Reconnects`,
`RecoveryFollows`, `Recovers`, `RequestsAnswered` and `VerdictReached`.

## What is left

`Presence` and `LedControl` in one path from report to LEDs. Each is checked
against what the other relies on: the mode set last is what `LedControl`
starts from, and `ModeNotLost` and `Settles` are for any sequence of modes.

## Not modelled

Signature verification, TLS, the boot loader's own code and flash wear are
ESP-IDF's. HTML, JSON layout, logging and diagnostics change no state a
property is about. Memory exhaustion appears as one of the ways a call fails.
Access control of the web pages (control token, origin) is not in scope.

* The order of Wi-Fi events across tasks: `GOT_IP` is posted by the TCP/IP
  task and `DISCONNECTED` by the driver. The model has one ordered queue; the
  order between the two is decided by ESP-IDF alone.
* Two pages that update the device at once, and a request that reaches the
  device after its page gave it up.
* Parsing and validation of submitted settings, forms, tokens and JSON
  (`settings.c`, `protocol.c`, `auth_client.c`): pure functions of one input
  whose outcomes, accepted or refused, are both in the models.
* JSON snapshots of the web server: the device decides nothing by them. The
  firmware status, by which the page decides, is in `BrowserUpdate`.
* The HTTP transport: I/O; its failures are answers of `PresenceWorker`.
* The table of presences (`presence.c`), build, CI and tests.
