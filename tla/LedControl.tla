----------------------------- MODULE LedControl -----------------------------
(***************************************************************************)
(* The LED task (main/ledcontrol.c, main/led_frame.c) and its two clients: *)
(* the main loop, which asks for display modes, and the settings service,  *)
(* which publishes a new brightness and then wakes the task.  The clients  *)
(* reach it through a queue of length one.  LED output can fail.           *)
(***************************************************************************)
EXTENDS Integers

CONSTANTS
  Modes,       \* the display modes in use, a subset of AllModes
  Levels,      \* brightness levels
  FirstLevel   \* the brightness at boot

AllModes == {"connecting", "authenticating", "unknown", "available", "busy",
             "do_not_disturb", "play", "config_error"}

\* leds_refresh queues DISPLAY_MODE_COUNT, which is no display mode.
Refresh == "refresh"
Empty   == "empty"
Unset   == "unset"

ASSUME LedAssumption ==
  /\ Modes \subseteq AllModes
  /\ "connecting" \in Modes
  /\ FirstLevel \in Levels

VARIABLES
  queue,       \* the mode queue: Empty, Refresh or a mode
  previous,    \* the mode the main loop asked for last
  brightness,  \* settings_brightness()
  notify,      \* a saved brightness whose leds_refresh is still to come
  pc,          \* where the LED task is: "render", "send" or "wait"
  mode,        \* the LED task's mode
  phase,       \* the animation phase since `started'
  frame,       \* the frame computed for output, Nothing outside "send"
  cached,      \* the last frame output, Nothing while `rendered' is false
  failed,      \* the last output failed
  shown        \* what the LEDs show

client == <<previous, brightness, notify>>
worker == <<pc, mode, phase, frame, cached, failed>>
vars   == <<queue, client, worker, shown>>

-----------------------------------------------------------------------------
\* led_mode_animated
Animated(m) == m \in {"play", "connecting", "unknown", "authenticating",
                      "do_not_disturb"}

Colour(m) ==
  CASE m = "available"                      -> "green"
    [] m \in {"busy", "authenticating"}     -> "yellow"
    [] m = "do_not_disturb"                 -> "red"
    [] m = "config_error"                   -> "purple"
    [] m = "play"                           -> "rainbow"
    [] OTHER                                -> "blue"

\* led_frame: blinking modes are dark in every second phase; the rainbow moves
\* on instead; busy leaves the second LED dark.
Frame(m, p, level) ==
  IF p = 1 /\ Animated(m) /\ m # "play"
    THEN [colour |-> "dark", leds |-> 0, step |-> 0, level |-> FirstLevel]
    ELSE [colour |-> Colour(m), leds |-> IF m = "busy" THEN 1 ELSE 2,
          step |-> IF m = "play" THEN p ELSE 0, level |-> level]

Frames == {Frame(m, p, l): m \in Modes, p \in {0, 1}, l \in Levels}

\* What the LEDs may show before the first output and after a failed one.
Garbage == [colour |-> "unknown", leds |-> 0, step |-> 0, level |-> FirstLevel]
Nothing == [colour |-> "nothing", leds |-> 0, step |-> 0, level |-> FirstLevel]

Init ==
  /\ queue = Empty
  /\ previous = Unset
  /\ brightness = FirstLevel
  /\ notify = FALSE
  /\ pc = "render"
  /\ mode = "connecting"
  /\ phase = 0
  /\ frame = Nothing
  /\ cached = Nothing
  /\ failed = FALSE
  /\ shown = Garbage

-----------------------------------------------------------------------------
(* The clients.                                                            *)

\* The main loop sends a mode only when it differs from the last one.
SetMode(m) ==
  /\ m # previous
  /\ previous' = m
  /\ queue' = m
  /\ UNCHANGED <<brightness, notify, worker, shown>>

\* settings_save publishes the level under its mutex and calls leds_refresh
\* after it released it.
SetBrightness(level) ==
  /\ ~notify
  /\ level # brightness
  /\ brightness' = level
  /\ notify' = TRUE
  /\ UNCHANGED <<queue, previous, worker, shown>>

\* Mutant: the refresh overwrites what is queued.
LedsRefreshOverwrites ==
  /\ notify
  /\ notify' = FALSE
  /\ queue' = Refresh
  /\ UNCHANGED <<previous, brightness, worker, shown>>

LedsRefresh ==
  /\ notify
  /\ notify' = FALSE
  /\ queue' = IF queue = Empty THEN Refresh ELSE queue
  /\ UNCHANGED <<previous, brightness, worker, shown>>

-----------------------------------------------------------------------------
(* The LED task.                                                           *)

\* render_if_changed computes the frame with the brightness of this moment
\* and leaves out the output when the cached frame is the same.
Render ==
  /\ pc = "render"
  /\ IF cached = Frame(mode, phase, brightness)
       THEN pc' = "wait" /\ frame' = Nothing
       ELSE pc' = "send" /\ frame' = Frame(mode, phase, brightness)
  /\ UNCHANGED <<queue, client, mode, phase, cached, failed, shown>>

SendOk ==
  /\ pc = "send"
  /\ shown' = frame
  /\ cached' = frame
  /\ failed' = FALSE
  /\ frame' = Nothing
  /\ pc' = "wait"
  /\ UNCHANGED <<queue, client, mode, phase>>

\* Mutant: the cache survives a failed output.
SendFailedKeepsCache ==
  /\ pc = "send"
  /\ shown' \in {shown, frame, Garbage}
  /\ failed' = TRUE
  /\ frame' = Nothing
  /\ pc' = "wait"
  /\ UNCHANGED <<queue, client, mode, phase, cached>>

\* render stops at the first driver error; whether the LEDs took the old
\* frame, the new one or a part of it is not known.
SendFailed ==
  /\ pc = "send"
  /\ shown' \in {shown, frame, Garbage}
  /\ failed' = TRUE
  /\ cached' = Nothing
  /\ frame' = Nothing
  /\ pc' = "wait"
  /\ UNCHANGED <<queue, client, mode, phase>>

\* Mutant: only a mode change wakes the task.
TakeItemIgnoresRefresh ==
  /\ pc = "wait"
  /\ queue # Empty
  /\ queue' = Empty
  /\ IF queue \notin {Refresh, mode}
       THEN mode' = queue /\ phase' = 0 /\ cached' = Nothing /\ pc' = "render"
       ELSE UNCHANGED <<mode, phase, cached, pc>>
  /\ UNCHANGED <<client, frame, failed, shown>>

\* take_mode_change with an item in the queue: a refresh, or the mode already
\* shown, wakes the task without restarting the animation.
TakeItem ==
  /\ pc = "wait"
  /\ queue # Empty
  /\ queue' = Empty
  /\ pc' = "render"
  /\ IF queue \notin {Refresh, mode}
       THEN mode' = queue /\ phase' = 0 /\ cached' = Nothing
       ELSE UNCHANGED <<mode, phase, cached>>
  /\ UNCHANGED <<client, frame, failed, shown>>

\* next_wait_ticks: after a failure and in an animated mode the wait is finite.
WaitExpired ==
  /\ pc = "wait"
  /\ queue = Empty
  /\ failed \/ Animated(mode)
  /\ pc' = "render"
  /\ UNCHANGED <<queue, client, mode, phase, frame, cached, failed, shown>>

\* Time moves the animation on.
Blink ==
  /\ phase' = 1 - phase
  /\ UNCHANGED <<queue, client, pc, mode, frame, cached, failed, shown>>

-----------------------------------------------------------------------------
Worker == Render \/ SendOk \/ SendFailed \/ TakeItem \/ WaitExpired

Next ==
  \/ \E m \in Modes: SetMode(m)
  \/ \E l \in Levels: SetBrightness(l)
  \/ LedsRefresh \/ Worker \/ Blink

\* The LED task and the web task keep running, and LED output that is tried
\* over and over works some day.
Fairness == WF_vars(Worker) /\ SF_vars(SendOk) /\ WF_vars(LedsRefresh)

Spec == Init /\ [][Next]_vars /\ Fairness

-----------------------------------------------------------------------------
\* Types; in particular the LED task never takes the refresh for a mode.
TypeOK ==
  /\ queue \in Modes \cup {Refresh, Empty}
  /\ previous \in Modes \cup {Unset}
  /\ brightness \in Levels
  /\ notify \in BOOLEAN
  /\ pc \in {"render", "send", "wait"}
  /\ mode \in Modes
  /\ phase \in {0, 1}
  /\ frame \in Frames \cup {Nothing}
  /\ cached \in Frames \cup {Nothing}
  /\ failed \in BOOLEAN
  /\ shown \in Frames \cup {Garbage}

\* No mode the main loop asked for is lost, in particular not to a refresh: it
\* is on display or still in the queue.
ModeNotLost == previous # Unset => previous \in {mode, queue}

\* A task that sleeps until the next queue item shows the mode at the brightness
\* of this moment, unless a refresh is already on its way: no wake-up is lost
\* between the mutex, the queue and the frame cache.
NoStaleSleep ==
  pc = "wait" /\ queue = Empty /\ ~failed /\ ~Animated(mode) =>
    shown = Frame(mode, 0, brightness) \/ notify

\* When the requested mode and the brightness stay, the LEDs come to show them.
Settles ==
  \A m \in Modes, l \in Levels:
    <>[](previous = m /\ brightness = l) =>
      []<>(shown \in {Frame(m, 0, l), Frame(m, 1, l)})

=============================================================================
