------------------------------- MODULE Improv -------------------------------
(***************************************************************************)
(* Wi-Fi provisioning over the serial port (main/improv.c,                 *)
(* main/improv_serial.c) on top of the settings service: a client in the   *)
(* browser submits a network, the device restarts into a trial of it, and  *)
(* the client waits, across that restart, to hear how it went.             *)
(*                                                                         *)
(* Commands are complete frames with a correct checksum; everything else   *)
(* is answered with an error and changes nothing.                          *)
(***************************************************************************)
EXTENDS Settings

VARIABLES
  state,           \* service.state
  pending_result,  \* service.pending_result: the command whose answer is due
  restarting,
  loop,            \* the main loop is before "settings" or before "improv"
  asked,           \* client: the network it submitted last, or NoWifi
  answer,          \* client: what it heard of that since
  web,             \* history: the networks saved over the web since
  cut              \* history: something else restarted the device since

service  == <<state, pending_result, restarting>>
client   == <<asked, answer, web, cut>>
allVars  == <<vars, service, loop, client>>

Provisioning == 1   \* the commands with an answer that names the address
CurrentState == 2

\* The statics of a program that starts.
Cleared == state' = "authorized" /\ pending_result' = 0 /\ restarting' = FALSE

ImprovStart ==
  /\ Init
  /\ state = "authorized" /\ pending_result = 0 /\ restarting = FALSE
  /\ loop = "settings"
  /\ asked = NoWifi /\ answer = "none" /\ web = {} /\ cut = FALSE

-----------------------------------------------------------------------------
\* Mutant: the restart into the trial is the end of the request.
ImprovInitForgetsTrial == Cleared

\* improv_init, called after settings_init: a trial resumes the request that
\* led to it.  The service does not remember who asked for the trial: one of a
\* network saved over the web is answered, too.
ImprovInit ==
  /\ state' = IF trial' THEN "provisioning" ELSE "authorized"
  /\ pending_result' = IF trial' THEN Provisioning ELSE 0
  /\ restarting' = FALSE

ImprovBoot ==
  /\ Boot
  /\ IF phase' = "run" THEN ImprovInit ELSE UNCHANGED service
  /\ UNCHANGED <<loop, client>>

\* A restart nobody asked for.
Interruption ==
  /\ BootFailure \/ Crash \/ UpdateRestart
  /\ Cleared
  /\ loop' = "settings"
  /\ cut' = TRUE
  /\ UNCHANGED <<asked, answer, web>>

-----------------------------------------------------------------------------
(* improv_serial_tick, after settings_tick in the main loop.               *)

TickDone ==
  /\ TickIdle \/ Promote \/ PromoteFailed
  /\ loop' = "improv"
  /\ UNCHANGED <<service, client>>

Serving == Running /\ loop = "improv"

\* wifi_settings with acceptable credentials
SubmitWifi(w) ==
  /\ Serving
  /\ SaveWifi(w)
  /\ state' = "provisioning"
  /\ pending_result' = Provisioning
  /\ restarting' = TRUE
  /\ asked' = w /\ answer' = "none" /\ web' = {} /\ cut' = FALSE
  /\ UNCHANGED loop

\* The client is told that its submission failed.
SubmitWifiFailed(w) ==
  /\ Serving
  /\ SaveWifiFailed(w)
  /\ asked' = NoWifi
  /\ UNCHANGED <<service, loop, answer, web, cut>>

\* empty_command: the current state, with the address when there is one
AskState ==
  /\ Serving
  /\ state = "provisioned"
  /\ pending_result' = CurrentState
  /\ UNCHANGED <<vars, state, restarting, loop, client>>

\* Mutant: the address of the old network answers, too.
MayReportOldAddress == online /\ ~trial

\* station_url has an address and no trial is under way; a restart into one is
\* not waited for either.
MayReport == ~restarting /\ online /\ ~trial

Heard == IF MayReport /\ pending_result = Provisioning THEN "provisioned" ELSE answer

\* improv_poll
Poll ==
  /\ Serving
  /\ loop' = "settings"
  /\ \/ /\ MayReport
        /\ state' = "provisioned" /\ pending_result' = 0
     \/ /\ ~MayReport
        /\ state' = IF ~restarting /\ ~online /\ state = "provisioned"
                    THEN "authorized" ELSE state
        /\ UNCHANGED pending_result
  /\ answer' = Heard
  /\ UNCHANGED <<vars, restarting, asked, web, cut>>

\* The trial failed; the client hears of it before the restart.
ExpireAndRestart ==
  /\ TrialExpired
  /\ answer' = IF state = "provisioning" THEN "failed" ELSE answer
  /\ Cleared
  /\ UNCHANGED <<loop, asked, web, cut>>

\* A restart that is due: the one into the trial of this request, or another.
Restart ==
  /\ RebootDue
  /\ answer' = Heard
  /\ cut' = (cut \/ ~restarting)
  /\ Cleared
  /\ UNCHANGED <<loop, asked, web>>

-----------------------------------------------------------------------------
\* Settings saved over the web, perhaps with another network, while the client waits.
SaveOverWeb ==
  /\ Save
  /\ web' = IF Loaded'.pending THEN web \cup {Loaded'.candidate.wifi} ELSE web
  /\ UNCHANGED <<service, loop, asked, answer, cut>>

Elsewhere ==
  /\ \/ ResetAuth \/ ResetAuthFailed \/ UpdateBegin \/ UpdateEnd
     \/ Time \/ LinkUp \/ LinkDown \/ TokenStore \/ TokenDrop
  /\ UNCHANGED <<service, loop, client>>

ReadLink ==
  /\ loop = "settings"
  /\ MainRead
  /\ UNCHANGED <<service, loop, client>>

ImprovNext ==
  \/ ImprovBoot \/ Interruption \/ ReadLink
  \/ TickDone \/ ExpireAndRestart \/ Restart
  \/ \E w \in Wifi: SubmitWifi(w) \/ SubmitWifiFailed(w)
  \/ AskState \/ Poll \/ SaveOverWeb \/ Elsewhere

ImprovSpec == /\ ImprovStart /\ [][ImprovNext]_allVars
              /\ Fairness /\ WF_allVars(Poll)

-----------------------------------------------------------------------------
\* Types of the provisioning service and of its client.
ImprovTypeOK ==
  /\ TypeOK
  /\ state \in {"authorized", "provisioning", "provisioned"}
  /\ pending_result \in {0, Provisioning, CurrentState}
  /\ restarting \in BOOLEAN
  /\ loop \in {"settings", "improv"}
  /\ asked \in Wifi \cup {NoWifi}
  /\ answer \in {"none", "provisioned", "failed"}
  /\ web \subseteq Wifi \cup {NoWifi}
  /\ cut \in BOOLEAN

\* A success is reported only for a network that is in use, has an address and is
\* what the device falls back to: neither the address of the old network nor a trial
\* that may still be rolled back.  It is the very network the client submitted,
\* unless another was saved over the web before the client had its answer: the trial
\* of that one is reported to it, and then that one is in use.
SuccessIsCommitted ==
  [][answer = "none" /\ answer' = "provisioned" =>
       /\ online /\ Loaded.active.wifi = current.wifi
       /\ asked # NoWifi => current.wifi \in {asked} \cup web]_allVars

Answered == answer # "none" \/ asked = NoWifi \/ cut

\* The client submits a network before it heard of the one before.
Resubmitted == /\ asked # NoWifi /\ ~Answered
               /\ ~restarting /\ restarting'

\* A client that submitted a network and waits hears how it went, across the
\* restart into the trial and whether the trial succeeds or fails (improv_init
\* resumes the request, improv_poll answers it).  Only if the connection is gone
\* again once the network was accepted for good may it have to wait.
RequestsAnswered ==
  <>[][~Resubmitted]_allVars =>
    (asked # NoWifi /\ answer = "none" ~>
       Answered \/ (Running /\ ~trial /\ ~online /\ Loaded.active.wifi = asked))

=============================================================================
