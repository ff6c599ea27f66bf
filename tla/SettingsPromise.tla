--------------------------- MODULE SettingsPromise ---------------------------
(***************************************************************************)
(* What the settings service promises its users, without records, flags,   *)
(* timers or flash errors: one committed value, at most one offered        *)
(* candidate that is run at most once, and a sign-in that never outlives   *)
(* its identity.  Settings.tla implements it.                              *)
(***************************************************************************)
CONSTANTS
  SettingsSet,    \* settings: records with the fields wifi, id and brightness
  First,          \* the settings of a new device
  Off,            \* the value of `running' while the device is down
  NoOffer,        \* no candidate
  SignedOut       \* no sign-in is stored

VARIABLES
  committed,      \* what the device falls back to
  offer,          \* the candidate, or NoOffer
  tried,          \* the candidate has used up its one run
  running,        \* what the device runs with, or Off
  signin          \* the identity of the stored sign-in, or SignedOut

vars == <<committed, offer, tried, running, signin>>

Init ==
  /\ committed = First
  /\ offer = NoOffer
  /\ tried = FALSE
  /\ running = Off
  /\ signin = SignedOut

Trying == running # Off /\ tried

\* A change that needs no trial: it keeps the network.  The new brightness may
\* show at once; the rest waits for the next start.
Apply(s) ==
  /\ running # Off /\ ~Trying
  /\ s.wifi = running.wifi
  /\ committed' = s
  /\ offer' = NoOffer
  /\ running' \in {running, [running EXCEPT !.brightness = s.brightness]}
  /\ UNCHANGED <<tried, signin>>

\* A candidate is offered; what runs now stays the fallback.
Offer(s) ==
  /\ running # Off /\ ~Trying
  /\ committed' = running
  /\ offer' = s
  /\ running' \in {running, [running EXCEPT !.brightness = s.brightness]}
  /\ UNCHANGED <<tried, signin>>

\* An earlier change whose write reported an error is superseded.
Withdraw ==
  /\ running # Off /\ ~Trying
  /\ committed' = running
  /\ offer' = NoOffer
  /\ UNCHANGED <<tried, running, signin>>

\* The candidate that runs becomes the committed value.
Promote ==
  /\ Trying
  /\ committed' = running
  /\ offer' = NoOffer
  /\ tried' = FALSE
  /\ UNCHANGED <<running, signin>>

\* While the device is down: a candidate that was not run yet may be marked,
\* a marked one may be dropped, and the sign-in may be erased.
Mark ==
  /\ running = Off
  /\ offer # NoOffer /\ ~tried
  /\ tried' = TRUE
  /\ UNCHANGED <<committed, offer, running, signin>>

Drop ==
  /\ running = Off
  /\ tried
  /\ offer' = NoOffer
  /\ tried' = FALSE
  /\ UNCHANGED <<committed, running, signin>>

SignOut ==
  /\ signin' = SignedOut
  /\ UNCHANGED <<committed, offer, tried, running>>

\* A start runs the candidate only if it was never marked, and keeps the
\* sign-in only for the identity it was given to.
Start ==
  /\ running = Off
  /\ IF offer # NoOffer /\ ~tried
       THEN running' = offer /\ tried' = TRUE /\ offer' = offer
       ELSE running' = committed /\ tried' = FALSE /\ offer' = NoOffer
  /\ signin' \in {signin, SignedOut}
  /\ signin' \in {running'.id, SignedOut}
  /\ UNCHANGED committed

SignIn ==
  /\ running # Off
  /\ signin' = running.id
  /\ UNCHANGED <<committed, offer, tried, running>>

Stop ==
  /\ running' = Off
  /\ UNCHANGED <<committed, offer, tried, signin>>

Next ==
  \/ \E s \in SettingsSet: Apply(s) \/ Offer(s)
  \/ Withdraw \/ Promote \/ Mark \/ Drop \/ SignOut \/ Start \/ SignIn \/ Stop

Spec == Init /\ [][Next]_vars
=============================================================================
