------------------------------ MODULE Presence ------------------------------
(***************************************************************************)
(* The presence worker composed with the main loop (main/main.c) that      *)
(* takes the newest status from the queue and turns it into a display mode *)
(* (main/app_state.c), and with the LED test of the web server             *)
(* (main/web_server.c) that overrides the mode for a while.                *)
(***************************************************************************)
EXTENDS PresenceWorker

CONSTANT TestTime   \* how long an LED test lasts

ASSUME TestAssumption == TestTime \in Nat \ {0}

NoTest == [mode |-> "none", left |-> 0]
TestModes == Activities \cup {Unknown}

VARIABLES
  received,   \* the main loop's status
  display,    \* the display mode
  looped,     \* the main loop ran since time last passed
  test,       \* NoTest, or the mode of the LED test and its time left
  reported,   \* history: time since Graph last reported each activity
  tested      \* history: time since each activity was last chosen for a test; one
              \* unit before TestTime at least once another choice replaced it

main == <<received, display, looped>>
history == <<reported, tested>>
vars == <<workerVars, main, test, history>>

Init ==
  /\ WorkerInit
  /\ received = status
  /\ display = "none"
  /\ looped = FALSE
  /\ test = NoTest
  /\ reported = [a \in Activities |-> StaleTime + 1]
  /\ tested = [a \in Activities |-> TestTime + 1]

\* A step of the worker; a request answered with a presence is a report.
WorkerStep ==
  /\ Worker
  /\ reported' = [a \in Activities |->
                    IF pc = "fetch" /\ pc' = "slot" /\ status'.presence = a
                    THEN 0 ELSE reported[a]]
  /\ UNCHANGED <<main, test, tested>>

Fresh(s) == s.presence # NoPresence /\ s.age < StaleTime

\* app_display_mode
DisplayMode(s, connected) ==
  CASE s.service = "config_error" -> "config_error"
    [] s.service # "config_error" /\ ~connected -> "connecting"
    [] s.service # "config_error" /\ connected /\ Fresh(s) -> s.presence
    [] s.service = "authenticating" /\ connected /\ s.presence = NoPresence ->
         "authenticating"
    [] OTHER -> Unknown

\* Mutant: a test that is over keeps the display.
ShownForever(normal) == IF test.mode # "none" THEN test.mode ELSE normal

\* web_server_display
Shown(normal) == IF test.left > 0 THEN test.mode ELSE normal

\* The receive, the mode, and setting it when it changed.
MainLoop ==
  /\ ~looped \/ queue # Empty \/ display # Shown(DisplayMode(received, online))
  /\ received' = IF queue = Empty THEN received ELSE queue
  /\ queue' = Empty
  /\ display' = Shown(DisplayMode(received', online))
  /\ looped' = TRUE
  /\ UNCHANGED <<valid, online, account, login, status, test, history>>

\* led_test_post with a mode, or with "auto"; a new choice replaces the last one.
LedTest(chosen) ==
  /\ test' = chosen
  /\ tested' = [a \in Activities |->
                  IF chosen.mode = a THEN 0
                  ELSE IF tested[a] < TestTime - 1 THEN TestTime - 1 ELSE tested[a]]
  /\ UNCHANGED <<workerVars, main, reported>>

\* The main loop, which waits 100 ms, runs at least once in every unit of time.
Time ==
  /\ looped
  /\ looped' = FALSE
  /\ Tick
  /\ received' = Older(received)
  /\ test' = IF test.left > 0 THEN [test EXCEPT !.left = @ - 1] ELSE test
  /\ reported' = [a \in Activities |->
                    IF reported[a] <= StaleTime THEN reported[a] + 1 ELSE reported[a]]
  /\ tested' = [a \in Activities |->
                  IF tested[a] <= TestTime THEN tested[a] + 1 ELSE tested[a]]
  /\ UNCHANGED display

Outside == (Link \/ Revoke) /\ UNCHANGED <<main, test, history>>

Next == \/ WorkerStep \/ MainLoop \/ Time \/ Outside
        \/ \E m \in TestModes: LedTest([mode |-> m, left |-> TestTime])
        \/ LedTest(NoTest)

Spec == Init /\ [][Next]_vars

-----------------------------------------------------------------------------
\* Types, the worker's included.
TypeOK ==
  /\ WorkerTypeOK
  /\ received \in Statuses
  /\ display \in Activities \cup {Unknown, "none", "connecting", "authenticating",
                                  "config_error"}
  /\ looped \in BOOLEAN
  /\ test \in {NoTest} \cup [mode: TestModes, left: 0..TestTime]
  /\ reported \in [Activities -> 0..StaleTime + 1]
  /\ tested \in [Activities -> 0..TestTime + 1]

\* The LEDs never show an activity that neither Graph has reported within the
\* stale time nor somebody chose for a test within the test time, through any
\* number of failed requests, lost connections and sign-ins; a test cancelled or
\* replaced is gone within one unit, which is what the main loop needs to notice.
NoStaleActivity ==
  display \in Activities => reported[display] <= StaleTime \/ tested[display] <= TestTime

=============================================================================
