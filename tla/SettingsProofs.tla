--------------------------- MODULE SettingsProofs ---------------------------
(***************************************************************************)
(* Theorems about the settings service and about provisioning over the     *)
(* serial port on top of it, for every set of networks, identities,        *)
(* timings and levels and for every length of the timers.                  *)
(***************************************************************************)
EXTENDS Improv, TLAPS

\* What the token erased or kept by the next boot has to be, given the record
\* r that boot finds.
TokenFits(r) ==
  \/ token = NoToken
  \/ r.reset_auth
  \/ Interrupted(r) /\ (IdentityChanged(r.active, r.candidate) \/ token = r.active.id)
  \/ Untried(r) /\ token = r.candidate.id
  \/ ~r.pending /\ token = r.active.id

\* The record a boot will have settled on once the token is dealt with.
BootedWith(r) == [Resolved(r) EXCEPT !.reset_auth = FALSE]

InvFlash == TokenFits(Loaded) /\ (Loaded.tried => Loaded.pending)

InvErase == phase = "erase" =>
  /\ record = Loaded /\ draft = Resolved(Loaded) /\ trial = Untried(Loaded)
  /\ Resolved(Loaded).reset_auth

InvPersist == phase = "persist" =>
  /\ record = Loaded /\ draft = BootedWith(Loaded) /\ trial = Untried(Loaded)
  /\ Resolved(Loaded).reset_auth => token = NoToken

InvTrial == Running /\ trial =>
  /\ record.pending /\ record.tried /\ ~record.reset_auth
  /\ record.candidate = current
  /\ Loaded \in {record, PromotedRecord}
  /\ brightness = current.brightness
  /\ reboot_in = NoReboot /\ ~firmware_update

\* A record that may be in flash while the snapshot `current' runs untried.
Settled(r) ==
  /\ r.active.wifi = current.wifi
  /\ ~r.tried
  /\ \/ r.reset_auth
     \/ ~r.pending /\ r.active.id = current.id
     \/ r.pending /\ r.candidate.id = current.id

InvSettled == Running /\ ~trial => Settled(Loaded)

InvSnapshot == Running /\ ~trial /\ reboot_in = NoReboot =>
  /\ record.active = [current EXCEPT !.brightness = brightness]
  /\ ~record.pending /\ ~record.tried /\ ~record.reset_auth

InvReboot == /\ reboot_in # NoReboot => Running /\ ~firmware_update
             /\ firmware_update => Running

InvLink == online \/ seen = "online" => been_online

\* The inductive invariant.
IInv == /\ TypeOK
        /\ InvFlash /\ InvErase /\ InvPersist
        /\ TokenIdentity
        /\ InvTrial /\ InvSettled /\ InvSnapshot
        /\ InvReboot /\ InvLink

-----------------------------------------------------------------------------
(* The record found in flash.                                              *)

\* load_saved_record always ends with a well-formed record.
LEMMA LoadedType == ASSUME TypeOK PROVE Loaded \in Records
  BY SettingsAssumption DEF TypeOK, Loaded, DefaultRecord, Records

LEMMA LoadedUnchanged == ASSUME nvs' = nvs PROVE Loaded' = Loaded
  BY DEF Loaded

LEMMA LoadedWritten ==
  ASSUME NEW r \in Records, nvs' = r PROVE Loaded' = r
  BY SettingsAssumption DEF Loaded

\* Settling a record keeps it a record.
LEMMA ResolvedType ==
  ASSUME NEW r \in Records
  PROVE  Resolved(r) \in Records /\ BootedWith(r) \in Records
  BY DEF Resolved, BootedWith, Records, Untried, Interrupted, IdentityChanged

\* The compiled defaults are a record without a pending change.
LEMMA DefaultType == DefaultRecord \in Records /\ Defaults.brightness \in Levels
<1>1. DefaultRecord \in Records
  BY SettingsAssumption DEF DefaultRecord, Records
<1>2. Defaults.brightness \in Levels
  BY SettingsAssumption DEF SettingsSet
<1> QED BY <1>1, <1>2

\* The records the save operations and the promotion write.
LEMMA SavedType ==
  ASSUME TypeOK, NEW s \in SettingsSet
  PROVE  SavedRecord(s) \in Records
<1>1. record \in Records
  BY DEF TypeOK
<1>2. WifiChanged(s, current) \in BOOLEAN /\ IdentityChanged(s, current) \in BOOLEAN
  BY DEF WifiChanged, IdentityChanged
<1>3. CASE WifiChanged(s, current)
  BY <1>1, <1>2, <1>3 DEF SavedRecord, Records
<1>4. CASE ~WifiChanged(s, current)
  BY <1>1, <1>2, <1>4 DEF SavedRecord, Records
<1> QED BY <1>3, <1>4

LEMMA WifiRecordType ==
  ASSUME TypeOK, NEW w \in Wifi
  PROVE  WifiRecord(w) \in Records
<1>1. [current EXCEPT !.wifi = w, !.brightness = brightness] \in SettingsSet
  BY DEF TypeOK, SettingsSet
<1> QED BY <1>1 DEF WifiRecord, TypeOK, Records

LEMMA OtherTypes ==
  ASSUME TypeOK
  PROVE  PromotedRecord \in Records /\ ResetRecord \in Records
  BY DEF TypeOK, PromotedRecord, ResetRecord, Records

-----------------------------------------------------------------------------
(* Type correctness.                                                       *)

\* The values the timers are set to.
LEMMA TimerInit == /\ {NoReboot, RebootDelay} \subseteq 0..RebootDelay \cup {NoReboot}
                   /\ TrialLimit \in 0..TrialLimit
                   /\ {0, CommitRetry} \subseteq 0..CommitRetry
  BY SettingsAssumption

LEMMA InitType == Init => TypeOK
<1> SUFFICES ASSUME Init PROVE TypeOK
  OBVIOUS
<1>1. current \in SettingsSet
  BY SettingsAssumption DEF Init
<1> QED BY <1>1, DefaultType, TimerInit DEF Init, TypeOK

LEMMA ResetType ==
  ASSUME TypeOK, Reset, nvs' \in Records \cup {NoRecord}, token' \in Ids \cup {NoToken}
  PROVE  TypeOK'
<1>1. current' \in SettingsSet
  BY SettingsAssumption DEF Reset
<1> QED BY <1>1, DefaultType, TimerInit DEF Reset, TypeOK

LEMMA TimerType ==
  ASSUME NEW n \in Nat, NEW t \in 0..n \cup {NoReboot}
  PROVE  /\ Minus1(t) \in 0..n \cup {NoReboot}
         /\ t # NoReboot => Minus1(t) \in 0..n
         /\ (Minus1(t) # NoReboot) <=> (t # NoReboot)
  BY DEF Minus1, NoReboot

\* What FinishBoot leaves behind is well typed when the record it takes is.
LEMMA FinishType ==
  ASSUME TypeOK, NEW r \in Records, NEW b \in BOOLEAN, FinishBoot(r, b)
  PROVE  /\ phase' \in {"down", "erase", "persist", "run"}
         /\ record' \in Records /\ draft' \in Records
         /\ current' \in SettingsSet /\ brightness' \in Levels
  BY SettingsAssumption
  DEF FinishBoot, TypeOK, DefaultRecord, Records, SettingsSet

LEMMA BootStepType ==
  ASSUME TypeOK, NEW r \in Records, trial' \in BOOLEAN, BootStep(r)
  PROVE  /\ phase' \in {"down", "erase", "persist", "run"}
         /\ record' \in Records /\ draft' \in Records
         /\ current' \in SettingsSet /\ brightness' \in Levels
  BY FinishType, LoadedType DEF BootStep, TypeOK

\* Types depend on the values only: what is left alone keeps its type.
LEMMA TypesKept ==
  ASSUME TypeOK, UNCHANGED <<phase, draft, current, brightness>>,
         nvs' \in Records \cup {NoRecord}, token' \in Ids \cup {NoToken}, record' \in Records,
         trial' \in BOOLEAN, firmware_update' \in BOOLEAN,
         reboot_in' \in 0..RebootDelay \cup {NoReboot}, trial_left' \in 0..TrialLimit,
         commit_in' \in 0..CommitRetry, online' \in BOOLEAN,
         seen' \in {"unread", "online", "offline"}, been_online' \in BOOLEAN
  PROVE  TypeOK'
  BY Zenon DEF TypeOK

LEMMA TypeStep == TypeOK /\ [Next]_vars => TypeOK'
<1> SUFFICES ASSUME TypeOK, [Next]_vars PROVE TypeOK'
  OBVIOUS
<1> USE DEF flash, ram, timers, link
<1>1. CASE BootLoad
  <2>1. Loaded \in Records /\ Resolved(Loaded) \in Records
    BY LoadedType, ResolvedType
  <2>2. trial' \in BOOLEAN
    BY <1>1 DEF BootLoad, Untried
  <2>3. CASE Resolved(Loaded).reset_auth
    BY <1>1, <2>1, <2>2, <2>3 DEF BootLoad, TypeOK
  <2>4. CASE ~Resolved(Loaded).reset_auth
    <3>1. BootStep(Resolved(Loaded))
      BY <1>1, <2>4 DEF BootLoad
    <3> QED BY <1>1, <2>1, <2>2, <3>1, BootStepType DEF BootLoad, TypeOK
  <2> QED BY <2>3, <2>4
<1>2. CASE BootErase
  <2>1. [draft EXCEPT !.reset_auth = FALSE] \in Records
    BY DEF TypeOK, Records
  <2> QED BY <1>2, <2>1, BootStepType DEF BootErase, TypeOK
<1>3. CASE BootPersist
  <2>1. FinishBoot(draft, trial) /\ draft \in Records /\ trial \in BOOLEAN
    BY <1>3 DEF BootPersist, TypeOK
  <2> QED BY <1>3, <2>1, FinishType DEF BootPersist, TypeOK
<1>4. CASE BootEraseFailed \/ BootPersistFailed \/ Crash \/ UpdateRestart
           \/ TrialExpired \/ RebootDue
  BY <1>4, ResetType
  DEF BootEraseFailed, BootPersistFailed, Crash, UpdateRestart, TrialExpired,
      RebootDue, TypeOK
<1>5. ASSUME NEW s \in SettingsSet, SettingsSave(s) \/ SettingsSaveFailed(s)
      PROVE  TypeOK'
  <2>1. SavedRecord(s) \in Records /\ s.brightness \in Levels
    BY SavedType DEF SettingsSet
  <2> QED BY <1>5, <2>1, SettingsAssumption
          DEF SettingsSave, SettingsSaveFailed, PersistOk, PersistFailed, TypeOK
<1>6. ASSUME NEW w \in Wifi, SaveWifi(w) \/ SaveWifiFailed(w)
      PROVE  TypeOK'
  <2>1. WifiRecord(w) \in Records
    BY WifiRecordType
  <2> QED BY <1>6, <2>1, SettingsAssumption
          DEF SaveWifi, SaveWifiFailed, PersistOk, PersistFailed, TypeOK
<1>7. CASE ResetAuth \/ ResetAuthFailed
  <2>1. CASE ResetAuth
    BY <2>1, OtherTypes, TimerInit DEF ResetAuth, PersistOk, TypeOK
  <2>2. CASE ResetAuthFailed
    BY <2>2, OtherTypes DEF ResetAuthFailed, PersistFailed, TypeOK
  <2> QED BY <1>7, <2>1, <2>2
<1>8. CASE UpdateBegin \/ UpdateEnd \/ MainRead \/ TickIdle \/ LinkUp \/ LinkDown
  <2>1. CASE UpdateBegin
    BY <2>1, TypesKept DEF UpdateBegin, TypeOK
  <2>4. CASE UpdateEnd
    BY <2>4, TypesKept DEF UpdateEnd, TypeOK
  <2>2. CASE MainRead \/ TickIdle
    BY <2>2, TypesKept DEF MainRead, TickIdle, TypeOK
  <2>3. CASE LinkUp
    BY <2>3, TypesKept DEF LinkUp, TypeOK
  <2>5. CASE LinkDown
    BY <2>5, TypesKept DEF LinkDown, TypeOK
  <2> QED BY <1>8, <2>1, <2>2, <2>3, <2>4, <2>5
<1>9. CASE Promote \/ PromoteFailed
  <2>1. CASE Promote
    BY <2>1, OtherTypes, TimerInit, TypesKept DEF Promote, PersistOk, TypeOK
  <2>2. CASE PromoteFailed
    BY <2>2, OtherTypes, TimerInit, TypesKept DEF PromoteFailed, PersistFailed, TypeOK
  <2> QED BY <1>9, <2>1, <2>2
<1>10. CASE Time
  BY <1>10, SettingsAssumption DEF Time, Minus1, TypeOK, NoReboot
<1>11. CASE TokenStore \/ TokenDrop
  <2>1. current.id \in Ids \cup {NoId}
    BY DEF TypeOK, SettingsSet
  <2> QED BY <1>11, <2>1 DEF TokenStore, TokenDrop, Complete, TypeOK
<1>12. CASE UNCHANGED vars
  BY <1>12 DEF vars, TypeOK
<1> QED
  BY <1>1, <1>2, <1>3, <1>4, <1>5, <1>6, <1>7, <1>8, <1>9, <1>10, <1>11, <1>12
  DEF Next, Boot, BootFailure, Save, Provision, SettingsTick

\* Every variable keeps its type, whatever the sizes of the constants.
THEOREM TypeCorrect == Spec => []TypeOK
<1>1. Init => TypeOK
  BY InitType
<1>2. TypeOK /\ [Next]_vars => TypeOK'
  BY TypeStep
<1> QED BY <1>1, <1>2, PTL DEF Spec

-----------------------------------------------------------------------------
(* The inductive invariant: boots.                                         *)

LEMMA InitInv == Init => IInv
<1> SUFFICES ASSUME Init PROVE IInv
  OBVIOUS
<1>1. TypeOK
  BY InitType
<1>2. Loaded = DefaultRecord
  BY DEF Init, Loaded
<1>3. InvFlash
  BY <1>2 DEF Init, InvFlash, TokenFits, DefaultRecord
<1> QED
  BY <1>1, <1>3
  DEF Init, IInv, InvErase, InvPersist, InvTrial, InvSettled, InvSnapshot, InvReboot,
      InvLink, TokenIdentity, Running

\* A reset only has to leave a sound flash behind.
LEMMA ResetInv ==
  ASSUME Reset, TypeOK', InvFlash'
  PROVE  IInv'
  BY DEF Reset, IInv, InvErase, InvPersist, InvTrial, InvSettled, InvSnapshot, InvReboot,
         InvLink, TokenIdentity, Running

\* What a boot makes of the record it finds.
LEMMA ResolvedFacts ==
  ASSUME NEW r \in Records, r.tried => r.pending
  PROVE  /\ BootedWith(r).active = r.active /\ BootedWith(r).candidate = r.candidate
         /\ BootedWith(r).pending = Untried(r)
         /\ BootedWith(r).tried = Untried(r)
         /\ BootedWith(r).reset_auth = FALSE
         /\ Resolved(r).reset_auth <=> \/ r.reset_auth
                                       \/ /\ Interrupted(r)
                                          /\ IdentityChanged(r.active, r.candidate)
         /\ ~Resolved(r).reset_auth => BootedWith(r) = Resolved(r)
         /\ [Resolved(r) EXCEPT !.reset_auth = FALSE] = BootedWith(r)
<1>1. r.pending \in BOOLEAN /\ r.tried \in BOOLEAN /\ r.reset_auth \in BOOLEAN
  BY DEF Records
<1>2. Resolved(r) \in Records
  BY ResolvedType
<1>3. Resolved(r).active = r.active /\ Resolved(r).candidate = r.candidate
  BY DEF Resolved, Records
<1>4. Resolved(r).pending = Untried(r)
  <2>1. Resolved(r).pending = (r.pending /\ ~Interrupted(r))
    BY DEF Resolved, Records
  <2> QED BY <1>1, <2>1 DEF Untried, Interrupted
<1>5. Resolved(r).tried = Untried(r)
  <2>1. Resolved(r).tried = (Untried(r) \/ (r.tried /\ ~Interrupted(r)))
    BY DEF Resolved, Records
  <2> QED BY <1>1, <2>1 DEF Untried, Interrupted
<1>6. Resolved(r).reset_auth = (r.reset_auth \/ (/\ Interrupted(r)
                                                 /\ IdentityChanged(r.active, r.candidate)))
  BY DEF Resolved, Records
<1>7. /\ BootedWith(r).active = Resolved(r).active
      /\ BootedWith(r).candidate = Resolved(r).candidate
      /\ BootedWith(r).pending = Resolved(r).pending
      /\ BootedWith(r).tried = Resolved(r).tried
      /\ BootedWith(r).reset_auth = FALSE
  BY <1>2 DEF BootedWith, Records
<1>8. ~Resolved(r).reset_auth => BootedWith(r) = Resolved(r)
  BY <1>2 DEF BootedWith, Records
<1> QED BY <1>3, <1>4, <1>5, <1>6, <1>7, <1>8 DEF BootedWith

\* A token that fits the record and needs no erasure is one of the identity
\* this boot will run with.
LEMMA TokenChosen ==
  ASSUME NEW r \in Records, r.tried => r.pending, TokenFits(r),
         Resolved(r).reset_auth => token = NoToken
  PROVE  \/ token = NoToken
         \/ token = IF Untried(r) THEN r.candidate.id ELSE r.active.id
  BY ResolvedFacts DEF TokenFits, Untried, Interrupted

\* Reaching the end of settings_init with the settled record r in flash.
LEMMA FinishInv ==
  ASSUME TypeOK', NEW r \in Records, FinishBoot(r, trial'), Loaded' = r,
         trial' = r.pending, r.tried = r.pending, ~r.reset_auth,
         token' \in {NoToken, IF r.pending THEN r.candidate.id ELSE r.active.id},
         reboot_in' = NoReboot, firmware_update' = FALSE, InvLink'
  PROVE  IInv'
<1>1. /\ phase' = "run" /\ record' = r
      /\ current' = IF r.pending THEN r.candidate ELSE r.active
      /\ brightness' = current'.brightness
  BY DEF FinishBoot
<1>2. r.pending \in BOOLEAN /\ r.tried \in BOOLEAN
  BY DEF Records
<1>3. TokenIdentity'
  BY <1>1 DEF TokenIdentity
<1>4. InvFlash'
  BY <1>1, <1>2 DEF InvFlash, TokenFits, Interrupted, Untried, IdentityChanged
<1>5. InvTrial'
  BY <1>1, <1>2 DEF InvTrial
<1>6. InvSettled'
  BY <1>1, <1>2 DEF InvSettled, Settled
<1>7. InvSnapshot'
  <2>1. current' \in SettingsSet
    BY DEF TypeOK
  <2>2. current' = [current' EXCEPT !.brightness = brightness']
    BY <1>1, <2>1 DEF SettingsSet
  <2> QED BY <1>1, <1>2, <2>2 DEF InvSnapshot
<1> QED
  BY <1>1, <1>3, <1>4, <1>5, <1>6, <1>7
  DEF IInv, InvErase, InvPersist, InvReboot, Running

LEMMA BootStepInv ==
  ASSUME IInv, TypeOK', ~Running,
         BootStep(BootedWith(Loaded)), nvs' = nvs, trial' = Untried(Loaded),
         token' \in {token, NoToken}, Resolved(Loaded).reset_auth => token' = NoToken,
         UNCHANGED <<firmware_update, timers, link>>
  PROVE  IInv'
<1> USE DEF timers, link
<1>1. Loaded \in Records /\ BootedWith(Loaded) \in Records /\ Loaded' = Loaded
  BY LoadedType, ResolvedType, LoadedUnchanged DEF IInv
<1>2. Loaded.tried => Loaded.pending
  BY DEF IInv, InvFlash
<1>3. TokenFits(Loaded)'
  BY <1>1 DEF IInv, InvFlash, TokenFits
<1>4. reboot_in' = NoReboot /\ firmware_update' = FALSE /\ InvLink'
  BY DEF IInv, InvReboot, InvLink, TypeOK
<1>5. CASE BootedWith(Loaded) # Loaded
  <2>1. phase' = "persist" /\ record' = Loaded /\ draft' = BootedWith(Loaded)
    BY <1>5 DEF BootStep
  <2>2. InvPersist'
    BY <1>1, <2>1 DEF InvPersist, BootedWith, Resolved, Untried, Interrupted, IdentityChanged
  <2>3. InvFlash'
    BY <1>1, <1>2, <1>3 DEF InvFlash
  <2> QED
    BY <1>4, <2>1, <2>2, <2>3
    DEF IInv, InvErase, TokenIdentity, InvTrial, InvSettled, InvSnapshot, InvReboot, Running
<1>6. CASE BootedWith(Loaded) = Loaded
  <2>1. FinishBoot(Loaded, trial')
    BY <1>6 DEF BootStep
  <2>2. /\ Loaded.pending = Untried(Loaded) /\ Loaded.tried = Untried(Loaded)
        /\ Loaded.reset_auth = FALSE
    BY <1>1, <1>2, <1>6, ResolvedFacts
  <2>3. ~Loaded.pending
    BY <1>1, <2>2 DEF Untried, Records
  <2>4. token' \in {NoToken, Loaded.active.id}
    BY <1>3, <1>1, <2>2, <2>3 DEF TokenFits, Interrupted, Untried
  <2>5. trial' = Loaded.pending /\ Loaded.tried = Loaded.pending /\ ~Loaded.reset_auth
    BY <2>2
  <2>6. token' \in {NoToken, IF Loaded.pending THEN Loaded.candidate.id
                                               ELSE Loaded.active.id}
    BY <2>3, <2>4
  <2> QED BY <1>1, <1>4, <2>1, <2>5, <2>6, FinishInv
<1> QED BY <1>5, <1>6

LEMMA BootInv == ASSUME IInv, TypeOK', Boot PROVE IInv'
<1>1. Loaded \in Records /\ Resolved(Loaded) \in Records /\ BootedWith(Loaded) \in Records
  BY LoadedType, ResolvedType DEF IInv
<1>2. Loaded.tried => Loaded.pending
  BY DEF IInv, InvFlash
<1>3. CASE BootLoad
  <2>1. /\ nvs' = nvs /\ token' = token /\ trial' = Untried(Loaded)
        /\ UNCHANGED <<firmware_update, timers, link>>
    BY <1>3 DEF BootLoad, flash
  <2>2. CASE Resolved(Loaded).reset_auth
    <3>1. phase' = "erase" /\ record' = Loaded /\ draft' = Resolved(Loaded)
      BY <1>3, <2>2 DEF BootLoad
    <3>2. Loaded' = Loaded
      BY <2>1, LoadedUnchanged
    <3>3. InvErase'
      BY <2>1, <2>2, <3>1, <3>2
      DEF InvErase, Resolved, Untried, Interrupted, IdentityChanged
    <3>4. InvFlash'
      BY <2>1, <3>2 DEF IInv, InvFlash, TokenFits
    <3>5. InvReboot' /\ InvLink'
      BY <1>3, <2>1 DEF IInv, InvReboot, InvLink, BootLoad, timers, link, TypeOK, Running
    <3> QED
      BY <3>1, <3>3, <3>4, <3>5
      DEF IInv, InvPersist, TokenIdentity, InvTrial, InvSettled, InvSnapshot, Running
  <2>3. CASE ~Resolved(Loaded).reset_auth
    <3>1. BootStep(BootedWith(Loaded))
      BY <1>1, <1>2, <1>3, <2>3, ResolvedFacts DEF BootLoad
    <3>2. ~Running
      BY <1>3 DEF BootLoad, Running
    <3> QED BY <2>1, <2>3, <3>1, <3>2, BootStepInv
  <2> QED BY <2>2, <2>3
<1>4. CASE BootErase
  <2>1. ~Running /\ draft = Resolved(Loaded) /\ trial = Untried(Loaded)
    BY <1>4 DEF BootErase, IInv, InvErase, Running
  <2>2. BootStep(BootedWith(Loaded))
    BY <1>4, <2>1 DEF BootErase, BootedWith
  <2> QED BY <1>4, <2>1, <2>2, BootStepInv DEF BootErase
<1>5. CASE BootPersist
  <2>1. /\ draft = BootedWith(Loaded) /\ trial = Untried(Loaded)
        /\ Resolved(Loaded).reset_auth => token = NoToken
    BY <1>5 DEF BootPersist, IInv, InvPersist
  <2>2. Loaded' = draft
    BY <1>1, <1>5, <2>1, LoadedWritten DEF BootPersist
  <2>3. /\ draft.active = Loaded.active /\ draft.candidate = Loaded.candidate
        /\ draft.pending = trial /\ draft.tried = trial /\ ~draft.reset_auth
    BY <1>1, <1>2, <2>1, ResolvedFacts
  <2>4. FinishBoot(draft, trial') /\ trial' = draft.pending
    BY <1>5, <2>3 DEF BootPersist
  <2>5. reboot_in' = NoReboot /\ firmware_update' = FALSE /\ InvLink'
    BY <1>5 DEF BootPersist, IInv, InvReboot, InvLink, timers, link, TypeOK, Running
  <2>6. token' \in {NoToken, IF draft.pending THEN draft.candidate.id
                                              ELSE draft.active.id}
    BY <1>1, <1>2, <1>5, <2>1, <2>3, TokenChosen DEF BootPersist, IInv, InvFlash
  <2> QED BY <1>1, <2>1, <2>2, <2>3, <2>4, <2>5, <2>6, FinishInv
<1> QED BY <1>3, <1>4, <1>5 DEF Boot

\* A boot that fails, a crash and every restart leave a sound flash behind.
LEMMA DownInv ==
  ASSUME IInv, TypeOK',
         BootFailure \/ Crash \/ UpdateRestart \/ TrialExpired \/ RebootDue
  PROVE  IInv'
<1>1. Reset
  BY DEF BootFailure, BootEraseFailed, BootPersistFailed, Crash, UpdateRestart,
         TrialExpired, RebootDue
<1>2. Loaded \in Records /\ BootedWith(Loaded) \in Records
  BY LoadedType, ResolvedType DEF IInv
<1>3. TokenFits(Loaded) /\ (Loaded.tried => Loaded.pending)
  BY DEF IInv, InvFlash
<1>4. CASE nvs' = nvs /\ token' \in {token, NoToken}
  BY <1>1, <1>3, <1>4, LoadedUnchanged, ResetInv DEF InvFlash, TokenFits
<1>5. CASE BootPersistFailed /\ nvs' = draft
  <2>1. /\ draft = BootedWith(Loaded) /\ token' = token
        /\ Resolved(Loaded).reset_auth => token = NoToken
    BY <1>5 DEF BootPersistFailed, IInv, InvPersist
  <2>2. Loaded' = draft
    BY <1>2, <1>5, <2>1, LoadedWritten
  <2>3. /\ draft.active = Loaded.active /\ draft.candidate = Loaded.candidate
        /\ draft.pending = Untried(Loaded) /\ draft.tried = Untried(Loaded)
    BY <1>2, <1>3, <2>1, ResolvedFacts
  <2>4. token' \in {NoToken, IF Untried(Loaded) THEN Loaded.candidate.id
                                               ELSE Loaded.active.id}
    BY <1>2, <1>3, <2>1, TokenChosen
  <2>5. InvFlash'
    BY <2>2, <2>3, <2>4 DEF InvFlash, TokenFits, Interrupted, Untried, IdentityChanged
  <2> QED BY <1>1, <2>5, ResetInv
<1> QED
  BY <1>4, <1>5
  DEF BootFailure, BootEraseFailed, BootPersistFailed, Crash, UpdateRestart,
      TrialExpired, RebootDue, flash

-----------------------------------------------------------------------------
(* The inductive invariant: a running device.                              *)

\* A write that may or may not reach the flash, of a record that suits the
\* running snapshot.
LEMMA WriteInv ==
  ASSUME IInv, Running, NEW r \in Records, Settled(r), nvs' \in {nvs, r},
         Settled(Loaded) \/ nvs' = r,
         UNCHANGED <<token, phase, current>>, ~trial'
  PROVE  /\ InvFlash' /\ InvErase' /\ InvPersist' /\ TokenIdentity'
         /\ InvTrial' /\ InvSettled'
<1>1. Loaded' \in {Loaded, r} /\ Settled(Loaded') /\ Loaded' \in Records
  BY LoadedUnchanged, LoadedWritten, LoadedType DEF IInv
<1>2. token \in {NoToken, current.id}
  BY DEF IInv, TokenIdentity
<1>3. InvFlash'
  BY <1>1, <1>2
  DEF InvFlash, TokenFits, Settled, Interrupted, Untried, IdentityChanged, Records
<1>4. InvSettled'
  BY <1>1 DEF InvSettled, Settled
<1> QED
  BY <1>2, <1>3, <1>4 DEF Running, InvErase, InvPersist, TokenIdentity, InvTrial

\* A device that accepts a change runs with what its record says.
LEMMA IdleFacts ==
  ASSUME IInv, Running, ~Busy
  PROVE  /\ ~trial /\ reboot_in = NoReboot /\ firmware_update = FALSE
         /\ record.active = [current EXCEPT !.brightness = brightness]
         /\ record.active.wifi = current.wifi /\ record.active.id = current.id
         /\ ~record.pending /\ ~record.tried /\ ~record.reset_auth
         /\ Settled(Loaded) /\ Settled(record)
         /\ record \in Records /\ current \in SettingsSet
<1>1. ~trial /\ reboot_in = NoReboot /\ firmware_update = FALSE
  BY DEF Busy, IInv, TypeOK
<1>2. /\ record.active = [current EXCEPT !.brightness = brightness]
      /\ ~record.pending /\ ~record.tried /\ ~record.reset_auth
  BY <1>1 DEF IInv, InvSnapshot
<1>3. current \in SettingsSet /\ record \in Records
  BY DEF IInv, TypeOK
<1>4. record.active.wifi = current.wifi /\ record.active.id = current.id
  BY <1>2, <1>3 DEF SettingsSet
<1> QED BY <1>1, <1>2, <1>3, <1>4 DEF IInv, InvSettled, Settled

LEMMA SaveInv ==
  ASSUME IInv, TypeOK', NEW s \in SettingsSet,
         SettingsSave(s) \/ SettingsSaveFailed(s)
  PROVE  IInv'
<1> DEFINE new == SavedRecord(s)
<1>1. Running /\ ~Busy
  BY DEF SettingsSave, SettingsSaveFailed, SaveAccepted
<1>2. new \in Records
  BY SavedType DEF IInv
<1>3. /\ new.pending = WifiChanged(s, current) /\ new.tried = FALSE
      /\ new.reset_auth = IdentityChanged(s, current)
      /\ WifiChanged(s, current) => new.active = record.active /\ new.candidate = s
      /\ ~WifiChanged(s, current) => new.active = s
  BY <1>1, IdleFacts DEF SavedRecord, Records
<1>4. Settled(new)
  BY <1>1, <1>3, IdleFacts DEF Settled, WifiChanged, IdentityChanged
<1>5. /\ nvs' \in {nvs, new} /\ UNCHANGED <<token, phase, current, trial>>
      /\ UNCHANGED <<firmware_update, link>>
  BY DEF SettingsSave, SettingsSaveFailed, PersistOk, PersistFailed
<1>6. /\ InvFlash' /\ InvErase' /\ InvPersist' /\ TokenIdentity'
      /\ InvTrial' /\ InvSettled'
  BY <1>1, <1>2, <1>4, <1>5, IdleFacts, WriteInv
<1>7. InvReboot' /\ InvLink'
  BY <1>1, <1>5, IdleFacts DEF InvReboot, InvLink, IInv, Running, link
<1>8. InvSnapshot'
  <2>1. CASE SettingsSave(s) /\ RestartRequired(s)
    <3>1. reboot_in' # NoReboot
      BY <2>1, SettingsAssumption DEF SettingsSave, NoReboot
    <3> QED BY <3>1 DEF InvSnapshot
  <2>2. CASE SettingsSave(s) /\ ~RestartRequired(s)
    <3>1. /\ record' = new /\ brightness' = s.brightness
          /\ ~WifiChanged(s, current) /\ ~IdentityChanged(s, current)
          /\ s.wifi = current.wifi /\ s.id = current.id /\ s.timing = current.timing
      BY <2>2 DEF SettingsSave, PersistOk, RestartRequired, WifiChanged, IdentityChanged
    <3>2. s = [current EXCEPT !.brightness = s.brightness]
      BY <1>1, <3>1, IdleFacts DEF SettingsSet
    <3> QED BY <1>3, <1>5, <3>1, <3>2 DEF InvSnapshot
  <2>3. CASE SettingsSaveFailed(s)
    BY <1>5, <2>3
    DEF SettingsSaveFailed, PersistFailed, IInv, InvSnapshot, Running, timers
  <2> QED BY <2>1, <2>2, <2>3
<1> QED BY <1>6, <1>7, <1>8 DEF IInv

LEMMA ProvisionInv ==
  ASSUME IInv, TypeOK', NEW w \in Wifi, SaveWifi(w) \/ SaveWifiFailed(w)
  PROVE  IInv'
<1> DEFINE new == WifiRecord(w)
<1>1. Running /\ ~Busy
  BY DEF SaveWifi, SaveWifiFailed
<1>2. new \in Records
  BY WifiRecordType DEF IInv
<1>3. new.pending = TRUE /\ new.tried = FALSE /\ new.active = record.active
      /\ new.candidate.id = current.id
  BY <1>1, IdleFacts DEF WifiRecord, Records, SettingsSet
<1>4. Settled(new)
  BY <1>1, <1>3, IdleFacts DEF Settled
<1>5. /\ nvs' \in {nvs, new} /\ UNCHANGED <<token, phase, current, trial>>
      /\ UNCHANGED <<firmware_update, link, brightness>>
  BY DEF SaveWifi, SaveWifiFailed, PersistOk, PersistFailed
<1>6. /\ InvFlash' /\ InvErase' /\ InvPersist' /\ TokenIdentity'
      /\ InvTrial' /\ InvSettled'
  BY <1>1, <1>2, <1>4, <1>5, IdleFacts, WriteInv
<1>7. InvReboot' /\ InvLink'
  BY <1>1, <1>5, IdleFacts DEF InvReboot, InvLink, IInv, Running, link
<1>8. InvSnapshot'
  <2>1. CASE SaveWifi(w)
    BY <2>1, SettingsAssumption DEF SaveWifi, NoReboot, InvSnapshot
  <2>2. CASE SaveWifiFailed(w)
    BY <1>5, <2>2 DEF SaveWifiFailed, PersistFailed, IInv, InvSnapshot, Running, timers
  <2> QED BY <2>1, <2>2
<1> QED BY <1>6, <1>7, <1>8 DEF IInv

LEMMA ResetAuthInv ==
  ASSUME IInv, TypeOK', ResetAuth \/ ResetAuthFailed
  PROVE  IInv'
<1>1. Running /\ ~Busy
  BY DEF ResetAuth, ResetAuthFailed
<1>2. ResetRecord \in Records
  BY OtherTypes DEF IInv
<1>3. ResetRecord.tried = record.tried /\ ResetRecord.active = record.active
      /\ ResetRecord.reset_auth
  BY <1>1, IdleFacts DEF ResetRecord, Records
<1>4. Settled(ResetRecord)
  BY <1>1, <1>3, IdleFacts DEF Settled
<1>5. /\ nvs' \in {nvs, ResetRecord} /\ UNCHANGED <<token, phase, current, trial>>
      /\ UNCHANGED <<firmware_update, link, brightness>>
  BY DEF ResetAuth, ResetAuthFailed, PersistOk, PersistFailed
<1>6. /\ InvFlash' /\ InvErase' /\ InvPersist' /\ TokenIdentity'
      /\ InvTrial' /\ InvSettled'
  BY <1>1, <1>2, <1>4, <1>5, IdleFacts, WriteInv
<1>7. InvReboot' /\ InvLink'
  BY <1>1, <1>5, IdleFacts DEF InvReboot, InvLink, IInv, Running, link
<1>8. InvSnapshot'
  <2>1. CASE ResetAuth
    BY <2>1, SettingsAssumption DEF ResetAuth, NoReboot, InvSnapshot
  <2>2. CASE ResetAuthFailed
    BY <1>5, <2>2 DEF ResetAuthFailed, PersistFailed, IInv, InvSnapshot, Running, timers
  <2> QED BY <2>1, <2>2
<1> QED BY <1>6, <1>7, <1>8 DEF IInv

LEMMA PromoteInv ==
  ASSUME IInv, TypeOK', Promote \/ PromoteFailed
  PROVE  IInv'
<1>1. Running /\ trial /\ reboot_in = NoReboot /\ seen = "online"
  BY DEF Promote, PromoteFailed, MayPromote, Ticking
<1>2. PromotedRecord \in Records /\ record \in Records /\ current \in SettingsSet
  BY OtherTypes DEF IInv, TypeOK
<1>3. /\ record.pending /\ record.tried /\ ~record.reset_auth
      /\ record.candidate = current /\ Loaded \in {record, PromotedRecord}
      /\ brightness = current.brightness /\ ~firmware_update
  BY <1>1 DEF IInv, InvTrial
<1>4. /\ PromotedRecord.active = current /\ ~PromotedRecord.pending
      /\ ~PromotedRecord.tried /\ ~PromotedRecord.reset_auth
  BY <1>2, <1>3 DEF PromotedRecord, Records
<1>5. Settled(PromotedRecord)
  BY <1>4 DEF Settled
<1>6. /\ nvs' \in {nvs, PromotedRecord} /\ UNCHANGED <<token, phase, current>>
      /\ UNCHANGED <<firmware_update, reboot_in, brightness, online, been_online>>
      /\ seen' = "unread"
  BY DEF Promote, PromoteFailed, PersistOk, PersistFailed
<1>7. InvReboot' /\ InvLink'
  BY <1>1, <1>6 DEF InvReboot, InvLink, IInv, Running
<1>8. CASE Promote
  <2>1. nvs' = PromotedRecord /\ record' = PromotedRecord /\ trial' = FALSE
    BY <1>8 DEF Promote, PersistOk
  <2>2. /\ InvFlash' /\ InvErase' /\ InvPersist' /\ TokenIdentity'
        /\ InvTrial' /\ InvSettled'
    BY <1>1, <1>2, <1>5, <1>6, <2>1, WriteInv
  <2>3. current = [current EXCEPT !.brightness = brightness]
    BY <1>2, <1>3 DEF SettingsSet
  <2>4. InvSnapshot'
    BY <1>4, <1>6, <2>1, <2>3 DEF InvSnapshot
  <2> QED BY <1>7, <2>2, <2>4 DEF IInv
<1>9. CASE PromoteFailed
  <2>1. record' = record /\ trial' = trial
    BY <1>9 DEF PromoteFailed, PersistFailed
  <2>2. Loaded' \in {record, PromotedRecord}
    BY <1>2, <1>3, <1>6, LoadedUnchanged, LoadedWritten
  <2>3. PromotedRecord' = PromotedRecord
    BY <1>6, <2>1 DEF PromotedRecord
  <2>4. InvTrial'
    BY <1>1, <1>3, <1>6, <2>1, <2>2, <2>3 DEF InvTrial
  <2>5. InvFlash'
    <3>1. token' \in {NoToken, current.id}
      BY <1>1, <1>6 DEF IInv, TokenIdentity
    <3> QED
      BY <1>3, <1>4, <2>2, <3>1
      DEF InvFlash, TokenFits, Interrupted, Untried, IdentityChanged
  <2> QED
    BY <1>1, <1>6, <1>7, <2>1, <2>4, <2>5
    DEF IInv, InvErase, InvPersist, TokenIdentity, InvSettled, InvSnapshot, Running
<1> QED BY <1>8, <1>9

\* Steps that leave the flash record, the snapshot and the phase alone.
LEMMA QuietInv ==
  ASSUME IInv, TypeOK', UNCHANGED <<nvs, phase, record, draft, current, trial, brightness>>
  PROVE  /\ token' = token => InvFlash' /\ InvPersist' /\ TokenIdentity'
         /\ InvErase' /\ InvSettled'
         /\ reboot_in' = reboot_in /\ firmware_update' = firmware_update =>
              InvTrial' /\ InvSnapshot' /\ InvReboot'
<1>1. Loaded' = Loaded
  BY LoadedUnchanged
<1>2. Resolved(Loaded)' = Resolved(Loaded) /\ BootedWith(Loaded)' = BootedWith(Loaded)
      /\ Untried(Loaded)' = Untried(Loaded)
  BY <1>1 DEF Resolved, BootedWith, Untried, Interrupted, IdentityChanged
<1>3. token' = token => InvFlash' /\ InvPersist' /\ TokenIdentity'
  BY <1>1, <1>2 DEF IInv, InvFlash, TokenFits, InvPersist, TokenIdentity, Running
<1>4. InvErase'
  BY <1>1, <1>2 DEF IInv, InvErase
<1>5. InvSettled'
  BY <1>1 DEF IInv, InvSettled, Settled, Running
<1>6. PromotedRecord' = PromotedRecord
  BY DEF PromotedRecord
<1>7. reboot_in' = reboot_in /\ firmware_update' = firmware_update =>
        InvTrial' /\ InvSnapshot' /\ InvReboot'
  BY <1>1, <1>6 DEF IInv, InvTrial, InvSnapshot, InvReboot, Running
<1> QED BY <1>3, <1>4, <1>5, <1>7

LEMMA UpdateInv ==
  ASSUME IInv, TypeOK', UpdateBegin \/ UpdateEnd
  PROVE  IInv'
<1>1. /\ UNCHANGED <<nvs, phase, record, draft, current, trial, brightness>>
      /\ UNCHANGED <<token, reboot_in, online, seen, been_online>> /\ Running
  BY DEF UpdateBegin, UpdateEnd, flash, timers, link
<1>2. UpdateBegin => ~trial /\ reboot_in = NoReboot
  BY DEF UpdateBegin, Busy
<1>3. UpdateEnd => ~trial /\ reboot_in = NoReboot
  BY DEF UpdateEnd, IInv, InvTrial, InvReboot
<1>4. InvSnapshot' /\ InvTrial' /\ InvReboot' /\ InvLink'
  BY <1>1, <1>2, <1>3
  DEF IInv, InvSnapshot, InvTrial, InvReboot, InvLink, Running
<1> QED BY <1>1, <1>4, QuietInv DEF IInv

LEMMA ClockInv == ASSUME IInv, TypeOK', Time PROVE IInv'
<1>1. /\ UNCHANGED <<nvs, phase, record, draft, current, trial, brightness>>
      /\ UNCHANGED <<token, firmware_update, online, seen, been_online>> /\ Running
  BY DEF Time, flash, ram, link
<1>2. reboot_in' = NoReboot <=> reboot_in = NoReboot
  BY SettingsAssumption DEF Time, Minus1, NoReboot, IInv, TypeOK
<1>3. Loaded' = Loaded /\ PromotedRecord' = PromotedRecord
  BY <1>1, LoadedUnchanged DEF PromotedRecord
<1>4. InvSnapshot' /\ InvTrial' /\ InvReboot' /\ InvLink'
  BY <1>1, <1>2, <1>3
  DEF IInv, InvSnapshot, InvTrial, InvReboot, InvLink, Running
<1> QED BY <1>1, <1>4, QuietInv DEF IInv

LEMMA LinkInv ==
  ASSUME IInv, TypeOK', MainRead \/ TickIdle \/ LinkUp \/ LinkDown
  PROVE  IInv'
<1>1. /\ UNCHANGED <<nvs, phase, record, draft, current, trial, brightness>>
      /\ UNCHANGED <<token, reboot_in, firmware_update>>
  BY DEF MainRead, TickIdle, LinkUp, LinkDown, flash, ram, timers
<1>2. InvLink'
  BY DEF MainRead, TickIdle, LinkUp, LinkDown, IInv, InvLink, TypeOK
<1> QED BY <1>1, <1>2, QuietInv DEF IInv

LEMMA TokenInv ==
  ASSUME IInv, TypeOK', TokenStore \/ TokenDrop
  PROVE  IInv'
<1>1. /\ UNCHANGED <<nvs, phase, record, draft, current, trial, brightness>>
      /\ UNCHANGED <<reboot_in, firmware_update, online, seen, been_online>>
      /\ Running /\ token' \in {NoToken, current.id}
  BY DEF TokenStore, TokenDrop, ram, timers, link
<1>2. Loaded' = Loaded /\ Loaded \in Records
  BY <1>1, LoadedUnchanged, LoadedType DEF IInv
<1>3. InvFlash'
  <2>1. CASE trial
    <3>1. /\ record.pending /\ record.tried
          /\ record.candidate = current /\ Loaded \in {record, PromotedRecord}
          /\ record \in Records
      BY <1>1, <2>1 DEF IInv, InvTrial, TypeOK
    <3>2. PromotedRecord.active = current /\ ~PromotedRecord.pending
          /\ ~PromotedRecord.tried
      BY <3>1 DEF PromotedRecord, Records
    <3> QED
      BY <1>1, <1>2, <3>1, <3>2
      DEF InvFlash, TokenFits, Interrupted, Untried, IdentityChanged
  <2>2. CASE ~trial
    <3>1. Settled(Loaded)
      BY <1>1, <2>2 DEF IInv, InvSettled
    <3> QED
      BY <1>1, <1>2, <3>1
      DEF Settled, InvFlash, TokenFits, Interrupted, Untried, Records
  <2> QED BY <2>1, <2>2
<1>4. TokenIdentity' /\ InvPersist'
  BY <1>1 DEF TokenIdentity, InvPersist, Running
<1>5. InvLink'
  BY <1>1 DEF IInv, InvLink
<1> QED BY <1>1, <1>3, <1>4, <1>5, QuietInv DEF IInv

LEMMA StepInv == IInv /\ [Next]_vars => IInv'
<1> SUFFICES ASSUME IInv, [Next]_vars PROVE IInv'
  OBVIOUS
<1>1. TypeOK'
  BY TypeStep DEF IInv
<1>2. CASE Boot
  BY <1>1, <1>2, BootInv
<1>3. CASE BootFailure \/ Crash \/ UpdateRestart \/ TrialExpired \/ RebootDue
  BY <1>1, <1>3, DownInv
<1>4. CASE Save
  BY <1>1, <1>4, SaveInv DEF Save
<1>5. CASE Provision
  BY <1>1, <1>5, ProvisionInv DEF Provision
<1>6. CASE ResetAuth \/ ResetAuthFailed
  BY <1>1, <1>6, ResetAuthInv
<1>7. CASE UpdateBegin \/ UpdateEnd
  BY <1>1, <1>7, UpdateInv
<1>8. CASE Promote \/ PromoteFailed
  BY <1>1, <1>8, PromoteInv
<1>9. CASE Time
  BY <1>1, <1>9, ClockInv
<1>10. CASE MainRead \/ TickIdle \/ LinkUp \/ LinkDown
  BY <1>1, <1>10, LinkInv
<1>11. CASE TokenStore \/ TokenDrop
  BY <1>1, <1>11, TokenInv
<1>12. CASE UNCHANGED vars
  <2>1. /\ UNCHANGED <<nvs, phase, record, draft, current, trial, brightness>>
        /\ UNCHANGED <<token, reboot_in, firmware_update, online, seen, been_online>>
    BY <1>12 DEF vars, flash, ram, timers, link
  <2>2. InvLink'
    BY <2>1 DEF IInv, InvLink
  <2> QED BY <1>1, <2>1, <2>2, QuietInv DEF IInv
<1> QED
  BY <1>2, <1>3, <1>4, <1>5, <1>6, <1>7, <1>8, <1>9, <1>10, <1>11, <1>12
  DEF Next, SettingsTick

\* The inductive invariant holds in every reachable state.
THEOREM Inductive == Spec => []IInv
<1>1. Init => IInv
  BY InitInv
<1>2. IInv /\ [Next]_vars => IInv'
  BY StepInv
<1> QED BY <1>1, <1>2, PTL DEF Spec

-----------------------------------------------------------------------------
(* What follows from it.                                                   *)

\* No running firmware holds a refresh token of another identity.
THEOREM TokensKeepTheirIdentity == Spec => []TokenIdentity
<1>1. IInv => TokenIdentity
  BY DEF IInv
<1> QED BY <1>1, Inductive, PTL

\* The flash says that a candidate was tried before anything runs with it.
THEOREM CandidatesAreMarked == Spec => []CandidateMarked
<1>1. IInv => CandidateMarked
  <2> SUFFICES ASSUME IInv, Running, trial PROVE Loaded.pending => Loaded.tried
    BY DEF CandidateMarked
  <2>1. record.tried /\ Loaded \in {record, PromotedRecord} /\ record \in Records
    BY DEF IInv, InvTrial, TypeOK
  <2>2. PromotedRecord.pending = FALSE
    BY <2>1 DEF PromotedRecord, Records
  <2> QED BY <2>1, <2>2
<1> QED BY <1>1, Inductive, PTL

\* Whenever a save is possible, the record it is built from describes what runs.
THEOREM SnapshotsMatch == Spec => []SnapshotMatchesRecord
<1>1. IInv => SnapshotMatchesRecord
  BY DEF IInv, InvSnapshot, SnapshotMatchesRecord, Busy
<1> QED BY <1>1, Inductive, PTL

\* The fallback network only changes to one that was reached in this boot.
THEOREM FallbackIsProven == Spec => FallbackWifiProven
<1> DEFINE A == Loaded'.active.wifi # Loaded.active.wifi =>
                  been_online /\ Loaded'.active.wifi = current.wifi
<1>1. IInv /\ [Next]_vars => [A]_vars
  <2> SUFFICES ASSUME IInv, [Next]_vars, nvs' # nvs PROVE A
    BY LoadedUnchanged
  <2>1. Loaded \in Records /\ (Loaded.tried => Loaded.pending)
    BY LoadedType DEF IInv, InvFlash
  <2>2. ASSUME NEW r \in Records, nvs' = r, r.active.wifi = Loaded.active.wifi
        PROVE  A
    BY <2>2, LoadedWritten
  <2>3. ASSUME NEW r \in Records, nvs' \in {nvs, r}, Running, ~Busy,
               r.active.wifi = current.wifi
        PROVE  A
    BY <2>2, <2>3, IdleFacts DEF Settled
  <2>4. CASE BootPersist \/ BootPersistFailed
    <3>1. nvs' = BootedWith(Loaded)
      BY <2>4 DEF BootPersist, BootPersistFailed, IInv, InvPersist
    <3>2. BootedWith(Loaded) \in Records /\ BootedWith(Loaded).active = Loaded.active
      BY <2>1, ResolvedType, ResolvedFacts
    <3> QED BY <2>2, <3>1, <3>2
  <2>5. ASSUME NEW s \in SettingsSet, SettingsSave(s) \/ SettingsSaveFailed(s)
        PROVE  A
    <3>1. Running /\ ~Busy /\ nvs' \in {nvs, SavedRecord(s)}
      BY <2>5 DEF SettingsSave, SettingsSaveFailed, SaveAccepted, PersistOk, PersistFailed
    <3>2. SavedRecord(s) \in Records
      BY SavedType DEF IInv
    <3>3. SavedRecord(s).active.wifi = current.wifi
      BY <3>1, IdleFacts DEF SavedRecord, Records, WifiChanged
    <3> QED BY <2>3, <3>1, <3>2, <3>3
  <2>6. ASSUME NEW w \in Wifi, SaveWifi(w) \/ SaveWifiFailed(w)
        PROVE  A
    <3>1. Running /\ ~Busy /\ nvs' \in {nvs, WifiRecord(w)}
      BY <2>6 DEF SaveWifi, SaveWifiFailed, PersistOk, PersistFailed
    <3>2. WifiRecord(w) \in Records
      BY WifiRecordType DEF IInv
    <3>3. WifiRecord(w).active.wifi = current.wifi
      BY <3>1, IdleFacts DEF WifiRecord, Records
    <3> QED BY <2>3, <3>1, <3>2, <3>3
  <2>7. CASE ResetAuth \/ ResetAuthFailed
    <3>1. Running /\ ~Busy /\ nvs' \in {nvs, ResetRecord}
      BY <2>7 DEF ResetAuth, ResetAuthFailed, PersistOk, PersistFailed
    <3>2. ResetRecord \in Records
      BY OtherTypes DEF IInv
    <3>3. ResetRecord.active.wifi = current.wifi
      BY <3>1, IdleFacts DEF ResetRecord, Records
    <3> QED BY <2>3, <3>1, <3>2, <3>3
  <2>8. CASE Promote \/ PromoteFailed
    <3>1. been_online /\ nvs' \in {nvs, PromotedRecord} /\ PromotedRecord \in Records
      BY <2>8, OtherTypes
      DEF Promote, PromoteFailed, MayPromote, PersistOk, PersistFailed, IInv, InvLink
    <3>2. PromotedRecord.active = current
      BY DEF PromotedRecord, IInv, TypeOK, Records
    <3> QED BY <3>1, <3>2, LoadedWritten
  <2> QED
    BY <2>4, <2>5, <2>6, <2>7, <2>8
    DEF Next, Boot, BootFailure, Save, Provision, SettingsTick, BootLoad, BootErase,
        BootEraseFailed, Crash, UpdateBegin, UpdateEnd, UpdateRestart, MainRead,
        TrialExpired, RebootDue, TickIdle, Time, LinkUp, LinkDown, TokenStore, TokenDrop,
        flash, vars
<1> QED BY <1>1, Inductive, PTL DEF Spec, FallbackWifiProven

\* A firmware transfer runs undisturbed to its end.
THEOREM UpdatesAreUndisturbed == Spec => UpdateUndisturbed
<1> DEFINE A == firmware_update /\ Running' =>
                  nvs' = nvs /\ ~trial' /\ reboot_in' = NoReboot
<1>1. IInv /\ [Next]_vars => [A]_vars
  <2> SUFFICES ASSUME IInv, Next, firmware_update, Running'
               PROVE  nvs' = nvs /\ ~trial' /\ reboot_in' = NoReboot
    OBVIOUS
  <2>1. Running /\ Busy /\ ~trial /\ reboot_in = NoReboot
    BY DEF IInv, InvReboot, InvTrial, Busy
  <2>2. ~Reset
    BY DEF Reset, Running
  <2>3. ~Boot /\ ~BootFailure /\ ~Crash /\ ~UpdateRestart
    BY <2>1, <2>2
    DEF Boot, BootLoad, BootErase, BootPersist, BootFailure, BootEraseFailed,
        BootPersistFailed, Crash, UpdateRestart, Running
  <2>4. ~Save /\ ~Provision /\ ~ResetAuth /\ ~ResetAuthFailed
    BY <2>1
    DEF Save, SettingsSave, SettingsSaveFailed, SaveAccepted, Provision, SaveWifi,
        SaveWifiFailed, ResetAuth, ResetAuthFailed
  <2>5. ~TrialExpired /\ ~Promote /\ ~PromoteFailed /\ ~RebootDue
    BY <2>1, <2>2 DEF TrialExpired, Promote, PromoteFailed, MayPromote, RebootDue
  <2>6. UpdateBegin \/ UpdateEnd \/ MainRead \/ TickIdle \/ LinkUp \/ LinkDown
          \/ TokenStore \/ TokenDrop => UNCHANGED <<nvs, trial, reboot_in>>
    BY DEF UpdateBegin, UpdateEnd, MainRead, TickIdle, LinkUp, LinkDown, TokenStore,
           TokenDrop, flash, ram, timers
  <2>7. Time => UNCHANGED <<nvs, trial>> /\ reboot_in' = Minus1(reboot_in)
    BY DEF Time, flash, ram
  <2>8. Minus1(reboot_in) = NoReboot
    BY <2>1 DEF Minus1, NoReboot
  <2> QED
    BY <2>1, <2>3, <2>4, <2>5, <2>6, <2>7, <2>8 DEF Next, SettingsTick
<1> QED BY <1>1, Inductive, PTL DEF Spec, UpdateUndisturbed

-----------------------------------------------------------------------------
(* The service keeps the promise of SettingsPromise.                       *)

\* What runs, as the promise sees it.
InUse == IF Running THEN [current EXCEPT !.brightness = brightness] ELSE NoRecord

LEMMA NoRecordIsNone == NoRecord \notin Records /\ NoRecord \notin SettingsSet
  BY SettingsAssumption

LEMMA InUseKept ==
  ASSUME UNCHANGED <<phase, current, brightness>>
  PROVE  InUse' = InUse
  BY DEF InUse, Running

\* Nothing the promise speaks of changes.
LEMMA PromiseKept ==
  ASSUME Loaded' = Loaded, InUse' = InUse, token' = token
  PROVE  UNCHANGED Promise!vars
  BY DEF Promise!vars, InUse

\* The device goes down, or stays down, and the flash is as it was.
LEMMA PromiseDown ==
  ASSUME Reset, nvs' = nvs, token' \in {token, NoToken}, ~Running \/ token' = token
  PROVE  [Promise!Next]_Promise!vars
<1>1. Loaded' = Loaded
  BY LoadedUnchanged
<1>2. InUse' = NoRecord
  BY DEF Reset, InUse, Running
<1>3. CASE token' = token
  BY <1>1, <1>2, <1>3 DEF InUse, Promise!Next, Promise!Stop
<1>4. CASE token' = NoToken /\ ~Running
  BY <1>1, <1>2, <1>4 DEF InUse, Promise!Next, Promise!SignOut
<1> QED BY <1>3, <1>4

\* settings_init reaches its end: the promise's start.
LEMMA PromiseStart ==
  ASSUME IInv, ~Running, FinishBoot(BootedWith(Loaded), Untried(Loaded)),
         Loaded' = BootedWith(Loaded), token' \in {token, NoToken},
         Resolved(Loaded).reset_auth => token' = NoToken
  PROVE  Promise!Next
<1> DEFINE r == Loaded
<1>1. r \in Records /\ (r.tried => r.pending) /\ TokenFits(r)
  BY LoadedType DEF IInv, InvFlash
<1>2. /\ BootedWith(r).active = r.active /\ BootedWith(r).candidate = r.candidate
      /\ BootedWith(r).pending = Untried(r) /\ BootedWith(r).tried = Untried(r)
  BY <1>1, ResolvedFacts
<1>3. /\ r.active \in SettingsSet /\ r.candidate \in SettingsSet
      /\ r.pending \in BOOLEAN /\ r.tried \in BOOLEAN
  BY <1>1 DEF Records
<1>4. /\ Running' /\ current' = IF Untried(r) THEN r.candidate ELSE r.active
      /\ brightness' = current'.brightness
  BY <1>2 DEF FinishBoot, Running
<1>5. InUse' = current'
  BY <1>3, <1>4 DEF InUse, SettingsSet
<1>6. token' \in {NoToken, current'.id}
  <2>1. CASE token' = NoToken
    BY <2>1
  <2>2. CASE token' = token /\ token' # NoToken
    BY <1>1, <1>4, <2>2, TokenChosen
  <2> QED BY <2>1, <2>2
<1>7. InUse = NoRecord
  BY DEF InUse
<1>8. Promise!Start
  BY <1>1, <1>2, <1>3, <1>4, <1>5, <1>6, <1>7, NoRecordIsNone
  DEF Promise!Start, InUse, Untried
<1> QED BY <1>8 DEF Promise!Next

LEMMA PromiseBoot ==
  ASSUME IInv, Boot
  PROVE  [Promise!Next]_Promise!vars
<1>1. Loaded \in Records /\ (Loaded.tried => Loaded.pending)
  BY LoadedType DEF IInv, InvFlash
<1>2. /\ ~Resolved(Loaded).reset_auth => BootedWith(Loaded) = Resolved(Loaded)
      /\ [Resolved(Loaded) EXCEPT !.reset_auth = FALSE] = BootedWith(Loaded)
      /\ BootedWith(Loaded) \in Records
  BY <1>1, ResolvedFacts, ResolvedType
<1>3. ASSUME BootStep(BootedWith(Loaded)), nvs' = nvs, trial' = Untried(Loaded), ~Running,
             token' \in {token, NoToken}, Resolved(Loaded).reset_auth => token' = NoToken
      PROVE  [Promise!Next]_Promise!vars
  <2>1. Loaded' = Loaded
    BY <1>3, LoadedUnchanged
  <2>2. CASE BootedWith(Loaded) = Loaded
    BY <1>3, <2>1, <2>2, PromiseStart DEF BootStep
  <2>3. CASE BootedWith(Loaded) # Loaded
    <3>1. InUse = NoRecord /\ InUse' = NoRecord
      BY <1>3, <2>3 DEF BootStep, InUse, Running
    <3> QED
      BY <1>3, <2>1, <3>1, PromiseKept DEF InUse, Promise!Next, Promise!SignOut
  <2> QED BY <2>2, <2>3
<1>4. CASE BootLoad
  <2>1. nvs' = nvs /\ token' = token /\ ~Running /\ trial' = Untried(Loaded)
    BY <1>4 DEF BootLoad, flash, Running
  <2>2. CASE Resolved(Loaded).reset_auth
    <3>1. InUse = NoRecord /\ InUse' = NoRecord
      BY <1>4, <2>1, <2>2 DEF BootLoad, InUse, Running
    <3> QED BY <2>1, <3>1, LoadedUnchanged, PromiseKept
  <2>3. CASE ~Resolved(Loaded).reset_auth
    BY <1>2, <1>3, <1>4, <2>1, <2>3 DEF BootLoad
  <2> QED BY <2>2, <2>3
<1>5. CASE BootErase
  <2>1. /\ nvs' = nvs /\ token' = NoToken /\ ~Running /\ trial' = Untried(Loaded)
        /\ BootStep([draft EXCEPT !.reset_auth = FALSE]) /\ draft = Resolved(Loaded)
    BY <1>5 DEF BootErase, IInv, InvErase, Running
  <2> QED BY <1>2, <1>3, <2>1
<1>6. CASE BootPersist
  <2>1. /\ nvs' = BootedWith(Loaded) /\ token' = token /\ ~Running
        /\ FinishBoot(BootedWith(Loaded), Untried(Loaded))
        /\ Resolved(Loaded).reset_auth => token' = NoToken
    BY <1>6 DEF BootPersist, IInv, InvPersist, Running
  <2>2. Loaded' = BootedWith(Loaded)
    BY <1>2, <2>1, LoadedWritten
  <2> QED BY <2>1, <2>2, PromiseStart
<1> QED BY <1>4, <1>5, <1>6 DEF Boot

LEMMA PromiseFailure ==
  ASSUME IInv, BootFailure \/ Crash \/ UpdateRestart \/ TrialExpired \/ RebootDue
  PROVE  [Promise!Next]_Promise!vars
<1>1. CASE Crash \/ UpdateRestart \/ TrialExpired \/ RebootDue
  BY <1>1, PromiseDown DEF Crash, UpdateRestart, TrialExpired, RebootDue, flash
<1>2. CASE BootEraseFailed
  BY <1>2, PromiseDown DEF BootEraseFailed, Running
<1>3. CASE BootPersistFailed
  <2>1. Reset /\ token' = token /\ nvs' \in {nvs, BootedWith(Loaded)} /\ ~Running
    BY <1>3 DEF BootPersistFailed, IInv, InvPersist, Running
  <2>2. CASE nvs' = nvs
    BY <2>1, <2>2, PromiseDown
  <2>3. CASE nvs' = BootedWith(Loaded)
    <3>1. Loaded \in Records /\ (Loaded.tried => Loaded.pending)
          /\ BootedWith(Loaded) \in Records
      BY LoadedType, ResolvedType DEF IInv, InvFlash
    <3>2. Loaded' = BootedWith(Loaded)
      BY <2>3, <3>1, LoadedWritten
    <3>3. /\ Loaded'.active = Loaded.active /\ Loaded'.candidate = Loaded.candidate
          /\ Loaded'.pending = Untried(Loaded) /\ Loaded'.tried = Untried(Loaded)
      BY <3>1, <3>2, ResolvedFacts
    <3>4. InUse = NoRecord /\ InUse' = NoRecord
      BY <2>1 DEF Reset, InUse, Running
    <3>5. Loaded.candidate \in SettingsSet /\ Loaded.pending \in BOOLEAN /\ Loaded.tried \in BOOLEAN
      BY <3>1 DEF Records
    <3>6. CASE Untried(Loaded)
      <4>1. Promise!Mark
        BY <2>1, <3>3, <3>4, <3>5, <3>6, NoRecordIsNone DEF Promise!Mark, InUse, Untried
      <4> QED BY <4>1 DEF Promise!Next
    <3>7. CASE Interrupted(Loaded)
      <4>1. Promise!Drop
        BY <2>1, <3>3, <3>4, <3>5, <3>7 DEF Promise!Drop, InUse, Untried, Interrupted
      <4> QED BY <4>1 DEF Promise!Next
    <3>8. CASE ~Untried(Loaded) /\ ~Interrupted(Loaded)
      BY <2>1, <3>3, <3>4, <3>5, <3>8 DEF Promise!vars, InUse, Untried, Interrupted
    <3> QED BY <3>6, <3>7, <3>8
  <2> QED BY <2>1, <2>2, <2>3
<1> QED BY <1>1, <1>2, <1>3 DEF BootFailure

\* A device that accepts a change is not trying a candidate.
LEMMA PromiseIdle ==
  ASSUME IInv, Running, ~Busy
  PROVE  /\ InUse = record.active /\ InUse \in SettingsSet /\ InUse # NoRecord
         /\ ~Loaded.tried /\ InUse.wifi = current.wifi
<1>1. InUse = record.active /\ ~Loaded.tried
  BY IdleFacts DEF InUse, Settled
<1> QED BY <1>1, IdleFacts, NoRecordIsNone DEF Records

\* The record of a write, if it reached the flash.
LEMMA PromiseWrite ==
  ASSUME IInv, Running, ~Busy, NEW r \in Records, nvs' = r, token' = token, ~r.tried,
         InUse' \in {InUse, [InUse EXCEPT !.brightness = r.candidate.brightness]},
         r.pending => r.active = InUse,
         ~r.pending => InUse' = InUse /\ r.active = InUse
  PROVE  Promise!Next
<1>1. Loaded' = r
  BY LoadedWritten
<1>2. /\ InUse \in SettingsSet /\ InUse # NoRecord /\ ~Loaded.tried
  BY PromiseIdle
<1>3. r.candidate \in SettingsSet /\ r.pending \in BOOLEAN
  BY DEF Records
<1>4. CASE r.pending
  <2>1. Promise!Offer(r.candidate)
    BY <1>1, <1>2, <1>3, <1>4 DEF Promise!Offer, Promise!Trying, InUse
  <2> QED BY <1>3, <2>1 DEF Promise!Next
<1>5. CASE ~r.pending
  <2>1. Promise!Withdraw
    BY <1>1, <1>2, <1>3, <1>5 DEF Promise!Withdraw, Promise!Trying, InUse
  <2> QED BY <2>1 DEF Promise!Next
<1> QED BY <1>4, <1>5

LEMMA PromiseSave ==
  ASSUME IInv, NEW s \in SettingsSet, SettingsSave(s) \/ SettingsSaveFailed(s)
  PROVE  [Promise!Next]_Promise!vars
<1> DEFINE new == SavedRecord(s)
<1>1. /\ Running /\ ~Busy /\ nvs' \in {nvs, new} /\ token' = token
      /\ UNCHANGED <<phase, current>> /\ brightness' \in {brightness, s.brightness}
      /\ nvs' # new => brightness' = brightness
  BY DEF SettingsSave, SettingsSaveFailed, SaveAccepted, PersistOk, PersistFailed
<1>2. new \in Records
  BY SavedType DEF IInv
<1>3. /\ new.pending = WifiChanged(s, current) /\ new.tried = FALSE
      /\ WifiChanged(s, current) => new.active = record.active /\ new.candidate = s
      /\ ~WifiChanged(s, current) => new.active = s
  BY <1>1, IdleFacts DEF SavedRecord, Records
<1>4. /\ InUse = record.active /\ InUse \in SettingsSet /\ InUse # NoRecord
      /\ ~Loaded.tried /\ InUse.wifi = current.wifi
  BY <1>1, PromiseIdle
<1>5. InUse' \in {InUse, [InUse EXCEPT !.brightness = s.brightness]}
  BY <1>1, IdleFacts DEF InUse, Running, SettingsSet
<1>6. CASE nvs' # new
  BY <1>1, <1>6, LoadedUnchanged, InUseKept, PromiseKept
<1>7. CASE nvs' = new /\ WifiChanged(s, current)
  BY <1>1, <1>2, <1>3, <1>4, <1>5, <1>7, PromiseWrite
<1>8. CASE nvs' = new /\ ~WifiChanged(s, current)
  <2>1. Loaded' = new
    BY <1>2, <1>8, LoadedWritten
  <2>2. s.wifi = InUse.wifi
    BY <1>4, <1>8 DEF WifiChanged
  <2>3. Promise!Apply(s)
    BY <1>1, <1>3, <1>4, <1>5, <1>8, <2>1, <2>2 DEF Promise!Apply, Promise!Trying, InUse
  <2> QED BY <2>3 DEF Promise!Next
<1> QED BY <1>6, <1>7, <1>8

LEMMA PromiseProvision ==
  ASSUME IInv, NEW w \in Wifi, SaveWifi(w) \/ SaveWifiFailed(w)
  PROVE  [Promise!Next]_Promise!vars
<1> DEFINE new == WifiRecord(w)
<1>1. /\ Running /\ ~Busy /\ nvs' \in {nvs, new} /\ token' = token
      /\ UNCHANGED <<phase, current, brightness>>
  BY DEF SaveWifi, SaveWifiFailed, PersistOk, PersistFailed
<1>2. new \in Records
  BY WifiRecordType DEF IInv
<1>3. new.pending = TRUE /\ new.tried = FALSE /\ new.active = record.active
  BY <1>1, IdleFacts DEF WifiRecord, Records
<1>4. InUse' = InUse /\ InUse = record.active
  BY <1>1, InUseKept, PromiseIdle
<1>5. CASE nvs' = nvs
  BY <1>1, <1>4, <1>5, LoadedUnchanged, PromiseKept
<1>6. CASE nvs' = new
  BY <1>1, <1>2, <1>3, <1>4, <1>6, PromiseWrite
<1> QED BY <1>1, <1>5, <1>6

LEMMA PromiseResetAuth ==
  ASSUME IInv, ResetAuth \/ ResetAuthFailed
  PROVE  [Promise!Next]_Promise!vars
<1>1. /\ Running /\ ~Busy /\ nvs' \in {nvs, ResetRecord} /\ token' = token
      /\ UNCHANGED <<phase, current, brightness>>
  BY DEF ResetAuth, ResetAuthFailed, PersistOk, PersistFailed
<1>2. ResetRecord \in Records
  BY OtherTypes DEF IInv
<1>3. ~ResetRecord.pending /\ ~ResetRecord.tried /\ ResetRecord.active = record.active
  BY <1>1, IdleFacts DEF ResetRecord, Records
<1>4. InUse' = InUse /\ InUse = record.active
  BY <1>1, InUseKept, PromiseIdle
<1>5. CASE nvs' = nvs
  BY <1>1, <1>4, <1>5, LoadedUnchanged, PromiseKept
<1>6. CASE nvs' = ResetRecord
  BY <1>1, <1>2, <1>3, <1>4, <1>6, PromiseWrite
<1> QED BY <1>1, <1>5, <1>6

LEMMA PromisePromote ==
  ASSUME IInv, Promote \/ PromoteFailed
  PROVE  [Promise!Next]_Promise!vars
<1>1. /\ Running /\ trial /\ nvs' \in {nvs, PromotedRecord} /\ token' = token
      /\ UNCHANGED <<phase, current, brightness>>
  BY DEF Promote, PromoteFailed, MayPromote, Ticking, PersistOk, PersistFailed
<1>2. PromotedRecord \in Records /\ record \in Records /\ current \in SettingsSet
  BY OtherTypes DEF IInv, TypeOK
<1>3. /\ record.pending /\ record.tried /\ record.candidate = current
      /\ Loaded \in {record, PromotedRecord} /\ brightness = current.brightness
  BY <1>1 DEF IInv, InvTrial
<1>4. PromotedRecord.active = current /\ ~PromotedRecord.pending /\ ~PromotedRecord.tried
  BY <1>2 DEF PromotedRecord, Records
<1>5. InUse' = InUse /\ InUse = current /\ InUse # NoRecord
  <2>1. current = [current EXCEPT !.brightness = brightness]
    BY <1>2, <1>3 DEF SettingsSet
  <2> QED BY <1>1, <1>2, <2>1, InUseKept, NoRecordIsNone DEF InUse
<1>6. CASE Loaded' = Loaded
  BY <1>1, <1>5, <1>6, PromiseKept
<1>7. CASE Loaded' # Loaded
  <2>1. Loaded = record /\ Loaded' = PromotedRecord
    BY <1>1, <1>2, <1>3, <1>7, LoadedUnchanged, LoadedWritten
  <2>2. Promise!Promote
    BY <1>1, <1>3, <1>4, <1>5, <2>1 DEF Promise!Promote, Promise!Trying, InUse
  <2> QED BY <2>2 DEF Promise!Next
<1> QED BY <1>6, <1>7

LEMMA PromiseQuiet ==
  ASSUME UpdateBegin \/ UpdateEnd \/ MainRead \/ TickIdle \/ Time \/ LinkUp \/ LinkDown
           \/ UNCHANGED vars
  PROVE  UNCHANGED Promise!vars
<1>1. UNCHANGED <<nvs, token, phase, current, brightness>>
  BY DEF UpdateBegin, UpdateEnd, MainRead, TickIdle, Time, LinkUp, LinkDown, vars, flash, ram
<1> QED BY <1>1, LoadedUnchanged, InUseKept, PromiseKept

LEMMA PromiseToken ==
  ASSUME IInv, TokenStore \/ TokenDrop
  PROVE  Promise!Next
<1>1. /\ Running /\ UNCHANGED <<nvs, phase, current, brightness>>
      /\ token' \in {NoToken, current.id}
  BY DEF TokenStore, TokenDrop, ram
<1>2. Loaded' = Loaded /\ InUse' = InUse
  BY <1>1, LoadedUnchanged, InUseKept
<1>3. InUse.id = current.id /\ InUse # NoRecord
  <2>1. current \in SettingsSet /\ brightness \in Levels
    BY DEF IInv, TypeOK
  <2>2. InUse \in SettingsSet
    BY <1>1, <2>1 DEF InUse, SettingsSet
  <2>3. InUse.id = current.id
    BY <1>1, <2>1 DEF InUse, SettingsSet
  <2> QED BY <2>2, <2>3, NoRecordIsNone
<1>4. CASE token' = NoToken
  BY <1>2, <1>4 DEF Promise!Next, Promise!SignOut, InUse
<1>5. CASE token' = current.id
  <2>1. Promise!SignIn
    BY <1>2, <1>3, <1>5 DEF Promise!SignIn, InUse
  <2> QED BY <2>1 DEF Promise!Next
<1> QED BY <1>1, <1>4, <1>5

\* Whatever happens to records, markers and timers, users see one of the promised
\* changes or none.
THEOREM PromiseIsKept == Spec => ImplementsPromise
<1>1. Init => Promise!Init
  <2> SUFFICES ASSUME Init PROVE Promise!Init
    OBVIOUS
  <2>1. Loaded = DefaultRecord /\ ~Running /\ token = NoToken
    BY DEF Init, Loaded, Running
  <2> QED BY <2>1 DEF Promise!Init, DefaultRecord
<1>2. IInv /\ [Next]_vars => [Promise!Next]_Promise!vars
  <2> SUFFICES ASSUME IInv, [Next]_vars PROVE [Promise!Next]_Promise!vars
    OBVIOUS
  <2>1. CASE Boot
    BY <2>1, PromiseBoot
  <2>2. CASE BootFailure \/ Crash \/ UpdateRestart \/ TrialExpired \/ RebootDue
    BY <2>2, PromiseFailure
  <2>3. CASE Save
    BY <2>3, PromiseSave DEF Save
  <2>4. CASE Provision
    BY <2>4, PromiseProvision DEF Provision
  <2>5. CASE ResetAuth \/ ResetAuthFailed
    BY <2>5, PromiseResetAuth
  <2>6. CASE Promote \/ PromoteFailed
    BY <2>6, PromisePromote
  <2>7. CASE UpdateBegin \/ UpdateEnd \/ MainRead \/ TickIdle \/ Time \/ LinkUp \/ LinkDown
             \/ UNCHANGED vars
    BY <2>7, PromiseQuiet
  <2>8. CASE TokenStore \/ TokenDrop
    BY <2>8, PromiseToken
  <2> QED
    BY <2>1, <2>2, <2>3, <2>4, <2>5, <2>6, <2>7, <2>8 DEF Next, SettingsTick
<1> QED BY <1>1, <1>2, Inductive, PTL DEF Spec, ImplementsPromise, Promise!Spec

-----------------------------------------------------------------------------
(* Provisioning (module Improv).  It reports a success only for a network  *)
(* that was asked for.  It only uses the settings service, whose invariant *)
(* it builds on.                                                           *)

\* The networks the client may hear of: its own, and those saved over the web since.
Wanted == {asked} \cup web

\* A candidate that still has to be tried is one of them.
CandidateAsked == asked # NoWifi /\ Untried(Loaded) => Loaded.candidate.wifi \in Wanted

\* So is the network of a trial, ...
TrialAsked == asked # NoWifi /\ Running /\ trial => current.wifi \in Wanted

\* ... and the network in use while an answer is due and no restart is.
AnswerDue ==
  asked # NoWifi /\ Running /\ ~trial /\ ~restarting /\ pending_result = Provisioning =>
    current.wifi \in Wanted

ImprovInv == IInv /\ CandidateAsked /\ TrialAsked /\ AnswerDue

-----------------------------------------------------------------------------
\* Every step of the provisioning service is one of the settings service, or none.
LEMMA UsesSettings == [ImprovNext]_allVars => [Next]_vars
<1> SUFFICES ASSUME [ImprovNext]_allVars PROVE [Next]_vars
  OBVIOUS
<1>1. CASE ImprovBoot \/ Interruption \/ ReadLink
  BY <1>1 DEF ImprovBoot, Interruption, ReadLink, Next
<1>2. CASE TickDone \/ ExpireAndRestart \/ Restart
  BY <1>2 DEF TickDone, ExpireAndRestart, Restart, Next, SettingsTick
<1>3. CASE \E w \in Wifi: SubmitWifi(w) \/ SubmitWifiFailed(w)
  BY <1>3 DEF SubmitWifi, SubmitWifiFailed, Next, Provision
<1>4. CASE AskState \/ Poll
  BY <1>4 DEF AskState, Poll
<1>5. CASE SaveOverWeb \/ Elsewhere
  BY <1>5 DEF SaveOverWeb, Elsewhere, Next
<1>6. CASE UNCHANGED allVars
  BY <1>6 DEF allVars
<1> QED
  BY <1>1, <1>2, <1>3, <1>4, <1>5, <1>6 DEF ImprovNext

LEMMA InitImprov == ImprovStart => ImprovInv
<1> SUFFICES ASSUME ImprovStart PROVE ImprovInv
  OBVIOUS
<1>1. IInv
  BY InitInv DEF ImprovStart
<1> QED
  BY <1>1 DEF ImprovStart, ImprovInv, CandidateAsked, TrialAsked, AnswerDue

\* A step that keeps the network in flash, the one in use and the request.
LEMMA Undisturbed ==
  ASSUME ImprovInv, IInv', UNCHANGED <<nvs, phase, current, trial, service, asked, web>>
  PROVE  ImprovInv'
  BY LoadedUnchanged
  DEF ImprovInv, CandidateAsked, TrialAsked, AnswerDue, Running, service, Untried, Wanted

\* A restart leaves a candidate in flash that was asked for, or none to be tried.
LEMMA Down ==
  ASSUME IInv', phase' = "down", Untried(Loaded)' /\ asked' # NoWifi =>
                                   Loaded'.candidate.wifi \in Wanted'
  PROVE  ImprovInv'
  BY DEF ImprovInv, CandidateAsked, TrialAsked, AnswerDue, Running

\* settings_init and improv_init
LEMMA BootAsked ==
  ASSUME ImprovInv, IInv', ImprovBoot PROVE ImprovInv'
<1>1. Wanted' = Wanted /\ asked' = asked /\ Loaded \in Records /\ (Loaded.tried => Loaded.pending)
  BY LoadedType DEF ImprovBoot, client, ImprovInv, IInv, InvFlash, Wanted
<1>2. /\ BootedWith(Loaded).candidate = Loaded.candidate
      /\ BootedWith(Loaded).tried = Untried(Loaded)
      /\ Resolved(Loaded).candidate = Loaded.candidate
  BY Zenon, <1>1, ResolvedFacts DEF Resolved, Records
<1>3. CandidateAsked'
  <2>1. CASE nvs' = nvs
    BY <1>1, <2>1, LoadedUnchanged DEF ImprovInv, CandidateAsked, Untried
  <2>2. CASE BootPersist
    <3>1. Loaded' = BootedWith(Loaded)
      BY <1>1, <2>2, ResolvedType, LoadedWritten DEF BootPersist, ImprovInv, IInv, InvPersist
    <3>2. Untried(Loaded)' => Untried(Loaded)
      BY <1>1, <1>2, <3>1, ResolvedFacts DEF Untried
    <3> QED
      BY <1>1, <1>2, <3>1, <3>2 DEF ImprovInv, CandidateAsked
  <2> QED
    BY <2>1, <2>2 DEF ImprovBoot, Boot, BootLoad, BootErase, flash
<1>4. CASE phase' # "run"
  BY <1>3, <1>4 DEF ImprovInv, TrialAsked, AnswerDue, Running
<1>5. CASE phase' = "run"
  <2>1. trial' = Untried(Loaded) /\ (trial' => current' = Loaded.candidate)
    <3>1. CASE BootLoad
      BY <1>2, <1>5, <3>1 DEF BootLoad, BootStep, FinishBoot
    <3>2. CASE BootErase
      <4>1. [draft EXCEPT !.reset_auth = FALSE] = BootedWith(Loaded) /\ trial = Untried(Loaded)
        BY <3>2 DEF BootErase, ImprovInv, IInv, InvErase, BootedWith
      <4> QED
        BY <1>2, <1>5, <3>2, <4>1 DEF BootErase, BootStep, FinishBoot
    <3>3. CASE BootPersist
      BY <1>2, <1>5, <3>3 DEF BootPersist, FinishBoot, ImprovInv, IInv, InvPersist
    <3> QED
      BY <3>1, <3>2, <3>3 DEF ImprovBoot, Boot
  <2>2. TrialAsked'
    BY <1>1, <2>1 DEF ImprovInv, CandidateAsked, TrialAsked
  <2>3. AnswerDue'
    BY <1>5 DEF ImprovBoot, ImprovInit, AnswerDue, Provisioning
  <2> QED
    BY <1>3, <2>2, <2>3 DEF ImprovInv
<1> QED
  BY <1>4, <1>5

\* A write, failed or not, of a record without a candidate to be tried.
LEMMA Written ==
  ASSUME ImprovInv, IInv', NEW new \in Records, nvs' \in {nvs, new}, ~Untried(new),
         UNCHANGED <<phase, current, trial, pending_result, restarting, asked, web>>
  PROVE  ImprovInv'
<1>1. nvs' = nvs \/ Loaded' = new
  BY LoadedWritten
<1>2. CandidateAsked'
  BY <1>1, LoadedUnchanged DEF ImprovInv, CandidateAsked, Untried, Wanted
<1> QED
  BY <1>2 DEF ImprovInv, TrialAsked, AnswerDue, Running, Wanted

LEMMA StepImprov == ImprovInv /\ [ImprovNext]_allVars => ImprovInv'
<1> SUFFICES ASSUME ImprovInv, [ImprovNext]_allVars PROVE ImprovInv'
  OBVIOUS
<1>0. IInv' /\ TypeOK /\ TypeOK'
  BY UsesSettings, StepInv DEF ImprovInv, IInv
<1>1. CASE ImprovBoot
  BY <1>0, <1>1, BootAsked
<1>2. CASE Interruption
  <2>1. phase' = "down" /\ asked' = asked /\ Wanted' = Wanted
    BY <1>2
    DEF Wanted, Interruption, BootFailure, BootEraseFailed, BootPersistFailed, Crash,
        UpdateRestart, Reset
  <2>2. CASE nvs' = nvs
    BY <1>0, <2>1, <2>2, LoadedUnchanged, Down DEF ImprovInv, CandidateAsked, Untried
  <2>3. CASE BootPersistFailed /\ nvs' = draft
    <3>1. draft = BootedWith(Loaded) /\ Loaded \in Records /\ (Loaded.tried => Loaded.pending)
      BY <2>3, LoadedType DEF BootPersistFailed, ImprovInv, IInv, InvPersist, InvFlash
    <3>2. Loaded' = BootedWith(Loaded)
      BY <2>3, <3>1, ResolvedType, LoadedWritten
    <3>3. /\ BootedWith(Loaded).candidate = Loaded.candidate
          /\ BootedWith(Loaded).pending = BootedWith(Loaded).tried
      BY <3>1, ResolvedFacts
    <3>4. ~Untried(Loaded)'
      BY <3>2, <3>3, <3>1, ResolvedType DEF Untried, Records
    <3> QED
      BY <1>0, <2>1, <3>4, Down
  <2> QED
    BY <1>2, <2>2, <2>3
    DEF Interruption, BootFailure, BootEraseFailed, BootPersistFailed, Crash, UpdateRestart, flash
<1>3. CASE ExpireAndRestart \/ Restart
  <2>1. phase' = "down" /\ asked' = asked /\ nvs' = nvs /\ Wanted' = Wanted
    BY <1>3 DEF Wanted, ExpireAndRestart, Restart, TrialExpired, RebootDue, Reset, flash
  <2> QED
    BY <1>0, <2>1, LoadedUnchanged, Down DEF ImprovInv, CandidateAsked, Untried
<1>4. CASE ReadLink \/ AskState \/ Poll
  <2>1. UNCHANGED <<nvs, phase, current, trial, restarting, asked, web>>
    BY <1>4 DEF ReadLink, MainRead, AskState, Poll, vars, flash, ram, service, client
  <2>2. pending_result' = Provisioning => pending_result = Provisioning
    BY <1>4 DEF ReadLink, AskState, Poll, service, CurrentState, Provisioning
  <2> QED
    BY <1>0, <2>1, <2>2, LoadedUnchanged
    DEF ImprovInv, CandidateAsked, TrialAsked, AnswerDue, Running, Untried, Wanted
<1>5. CASE TickDone
  <2>1. UNCHANGED <<service, asked, web, phase, current>> /\ Wanted' = Wanted
    BY <1>5 DEF TickDone, TickIdle, Promote, PromoteFailed, client, ram, Wanted
  <2>2. CASE TickIdle
    BY <1>0, <2>1, <2>2, Undisturbed DEF TickIdle, flash, ram
  <2>3. CASE Promote \/ PromoteFailed
    <3>1. PromotedRecord \in Records /\ ~Untried(PromotedRecord)
      BY <1>0, OtherTypes DEF PromotedRecord, Untried, TypeOK, Records
    <3>2. nvs' \in {nvs, PromotedRecord} /\ Running /\ trial
      BY <2>3 DEF Promote, PromoteFailed, PersistOk, PersistFailed, MayPromote, Ticking
    <3>3. CandidateAsked'
      BY <2>1, <3>1, <3>2, LoadedUnchanged, LoadedWritten DEF ImprovInv, CandidateAsked, Untried
    <3> QED
      BY <1>0, <2>1, <3>2, <3>3 DEF ImprovInv, TrialAsked, AnswerDue, Running
  <2> QED
    BY <1>5, <2>2, <2>3 DEF TickDone
<1>6. ASSUME NEW w \in Wifi, SubmitWifi(w) PROVE ImprovInv'
  <2>1. WifiRecord(w) \in Records /\ WifiRecord(w).candidate.wifi = w
    <3>1. WifiRecord(w) \in Records
      BY <1>0, WifiRecordType
    <3>2. WifiRecord(w).candidate = [current EXCEPT !.wifi = w, !.brightness = brightness]
      BY <1>0, Zenon DEF WifiRecord, TypeOK, Records
    <3> QED
      BY <1>0, <3>1, <3>2 DEF TypeOK, SettingsSet
  <2>2. /\ Loaded' = WifiRecord(w) /\ w \in Wanted' /\ restarting' = TRUE
        /\ ~trial /\ trial' = trial
    BY <1>6, <2>1, LoadedWritten DEF Wanted, SubmitWifi, SaveWifi, PersistOk, Busy
  <2> QED
    BY <1>0, <2>1, <2>2 DEF ImprovInv, CandidateAsked, TrialAsked, AnswerDue
<1>7. ASSUME NEW w \in Wifi, SubmitWifiFailed(w) PROVE ImprovInv'
  BY <1>0, <1>7 DEF SubmitWifiFailed, ImprovInv, CandidateAsked, TrialAsked, AnswerDue
<1>8. CASE SaveOverWeb
  <2>1. /\ UNCHANGED <<pending_result, restarting, phase, current, trial, asked>> /\ Running
        /\ Wanted \subseteq Wanted'
    BY <1>8 DEF Wanted, SaveOverWeb, Save, SettingsSave, SettingsSaveFailed, SaveAccepted, service
  <2>2. CandidateAsked'
    BY <1>8 DEF SaveOverWeb, CandidateAsked, Untried, Wanted
  <2> QED
    BY <1>0, <2>1, <2>2 DEF ImprovInv, TrialAsked, AnswerDue, Running
<1>9. CASE Elsewhere
  <2>1. service' = service /\ asked' = asked /\ web' = web
    BY <1>9 DEF Elsewhere, client
  <2>2. CASE ResetAuth \/ ResetAuthFailed
    <3>1. ResetRecord \in Records /\ ~Untried(ResetRecord)
      BY <1>0, <2>2, IdleFacts, OtherTypes
      DEF ResetAuth, ResetAuthFailed, ResetRecord, Untried, ImprovInv, TypeOK, Records
    <3>2. nvs' \in {nvs, ResetRecord} /\ UNCHANGED <<phase, current, trial>>
      BY <2>2 DEF ResetAuth, ResetAuthFailed, PersistOk, PersistFailed
    <3> QED
      BY <1>0, <2>1, <3>1, <3>2, Written DEF service
  <2>3. CASE ~(ResetAuth \/ ResetAuthFailed)
    <3>1. UNCHANGED <<nvs, phase, current, trial>>
      BY <1>9, <2>3
      DEF Elsewhere, UpdateBegin, UpdateEnd, Time, LinkUp, LinkDown, TokenStore, TokenDrop,
          flash, ram
    <3> QED
      BY <1>0, <2>1, <3>1, Undisturbed
  <2> QED
    BY <2>2, <2>3
<1>10. CASE UNCHANGED allVars
  BY <1>0, <1>10, Undisturbed DEF allVars, vars, flash, ram, client
<1> QED
  BY <1>1, <1>2, <1>3, <1>4, <1>5, <1>6, <1>7, <1>8, <1>9, <1>10 DEF ImprovNext

\* Improv changes settings only as the settings service allows, so what is proved
\* of the service holds while it is provisioned, too.
THEOREM ProvisioningUsesSettings == ImprovSpec => Spec
<1>1. ImprovStart => Init
  BY DEF ImprovStart
<1> QED
  BY <1>1, UsesSettings, PTL DEF ImprovSpec, Spec

\* So the promise of SettingsPromise is kept with provisioning as well.
THEOREM ProvisioningKeepsPromise == ImprovSpec => ImplementsPromise
<1> QED BY ProvisioningUsesSettings, PromiseIsKept, PTL

\* The client hears of a success only when a network is in use, has an address and
\* is what the device falls back to, and it is the one it submitted, or one saved
\* over the web since (improv_init, improv_poll, settings_tick).
THEOREM SuccessesAreCommitted == ImprovSpec => SuccessIsCommitted
<1> DEFINE Committed == answer = "none" /\ answer' = "provisioned" =>
                          /\ online /\ Loaded.active.wifi = current.wifi
                          /\ asked # NoWifi => current.wifi \in {asked} \cup web
<1>1. ImprovInv /\ [ImprovNext]_allVars => [Committed]_allVars
  <2> SUFFICES ASSUME ImprovInv, ImprovNext, answer = "none", answer' = "provisioned"
               PROVE  /\ online /\ Loaded.active.wifi = current.wifi
                      /\ asked # NoWifi => current.wifi \in {asked} \cup web
    OBVIOUS
  <2>1. Running /\ MayReport /\ pending_result = Provisioning
    BY DEF ImprovNext, ImprovBoot, Interruption, ReadLink, TickDone, ExpireAndRestart, Restart,
           SubmitWifi, SubmitWifiFailed, AskState, Poll, SaveOverWeb, Elsewhere, client,
           Heard, Serving, RebootDue, Ticking
  <2>2. asked # NoWifi => current.wifi \in {asked} \cup web
    BY <2>1 DEF MayReport, ImprovInv, AnswerDue, Wanted
  <2>3. Loaded.active.wifi = current.wifi
    BY <2>1 DEF MayReport, ImprovInv, IInv, InvSettled, Settled
  <2> QED
    BY <2>1, <2>2, <2>3 DEF MayReport
<1> QED
  BY <1>1, InitImprov, StepImprov, PTL DEF ImprovSpec, SuccessIsCommitted

-----------------------------------------------------------------------------
(* Types.                                                                  *)

Names ==
  /\ state \in {"authorized", "provisioning", "provisioned"}
  /\ pending_result \in {0, Provisioning, CurrentState}
  /\ loop \in {"settings", "improv"}
  /\ asked \in Wifi \cup {NoWifi}
  /\ answer \in {"none", "provisioned", "failed"}

Saved == web \subseteq Wifi \cup {NoWifi}

Flags == restarting \in BOOLEAN /\ cut \in BOOLEAN

LEMMA NamesStep == Names /\ [ImprovNext]_allVars => Names'
<1> SUFFICES ASSUME Names, [ImprovNext]_allVars PROVE Names'
  OBVIOUS
<1> USE DEF Names, service, client
<1>1. CASE ImprovBoot \/ Interruption \/ ReadLink
  BY <1>1 DEF ImprovBoot, ImprovInit, Interruption, ReadLink, Cleared
<1>2. CASE TickDone \/ ExpireAndRestart \/ Restart
  BY <1>2 DEF TickDone, ExpireAndRestart, Restart, Cleared, Heard
<1>3. CASE \E w \in Wifi: SubmitWifi(w) \/ SubmitWifiFailed(w)
  BY <1>3 DEF SubmitWifi, SubmitWifiFailed
<1>4. CASE AskState \/ Poll
  BY <1>4 DEF AskState, Poll, Heard
<1>5. CASE SaveOverWeb \/ Elsewhere
  BY <1>5 DEF SaveOverWeb, Elsewhere
<1>6. CASE UNCHANGED allVars
  BY <1>6 DEF allVars
<1> QED
  BY <1>1, <1>2, <1>3, <1>4, <1>5, <1>6 DEF ImprovNext

\* What is saved over the web is a network, or none.
LEMMA SavedStep == Saved /\ TypeOK' /\ [ImprovNext]_allVars => Saved'
<1> SUFFICES ASSUME Saved, TypeOK', [ImprovNext]_allVars PROVE Saved'
  OBVIOUS
<1>1. CASE SaveOverWeb
  <2>1. Loaded' \in Records
    BY SettingsAssumption DEF TypeOK, Loaded, DefaultRecord, Records
  <2>2. Loaded'.candidate.wifi \in Wifi \cup {NoWifi}
    BY <2>1 DEF Records, SettingsSet
  <2> QED
    BY <1>1, <2>2 DEF SaveOverWeb, Saved
<1>2. CASE ~SaveOverWeb
  <2>1. web' = web \/ web' = {}
    BY <1>2
    DEF ImprovNext, ImprovBoot, Interruption, ReadLink, TickDone, ExpireAndRestart, Restart,
        SubmitWifi, SubmitWifiFailed, AskState, Poll, Elsewhere, client, allVars
  <2> QED
    BY <2>1 DEF Saved
<1> QED
  BY <1>1, <1>2

LEMMA FlagsStep == Flags /\ [ImprovNext]_allVars => Flags'
<1> SUFFICES ASSUME Flags, [ImprovNext]_allVars PROVE Flags'
  OBVIOUS
<1>1. restarting' = restarting \/ restarting' = TRUE \/ restarting' = FALSE
  BY DEF ImprovNext, ImprovBoot, ImprovInit, Interruption, ReadLink, TickDone,
         ExpireAndRestart, Restart, SubmitWifi, SubmitWifiFailed, AskState, Poll,
         SaveOverWeb, Elsewhere, Cleared, service, allVars
<1>2. \/ cut' = cut \/ cut' = TRUE \/ cut' = FALSE
      \/ cut' = (cut \/ ~restarting)
  BY DEF ImprovNext, ImprovBoot, Interruption, ReadLink, TickDone,
         ExpireAndRestart, Restart, SubmitWifi, SubmitWifiFailed, AskState, Poll,
         SaveOverWeb, Elsewhere, client, allVars
<1> QED
  BY Zenon, <1>1, <1>2 DEF Flags

\* Types of the provisioning service and of its client.
THEOREM ImprovTypes == ImprovSpec => []ImprovTypeOK
<1>1. ImprovStart => Names
  BY DEF ImprovStart, Names
<1>2. ImprovStart => Flags
  BY Zenon DEF ImprovStart, Flags
<1>3. ImprovStart => Saved
  BY DEF ImprovStart, Saved
<1>4. TypeOK /\ Names /\ Flags /\ Saved => ImprovTypeOK
  BY Zenon DEF Names, Flags, Saved, ImprovTypeOK
<1> QED
  BY <1>1, <1>2, <1>3, <1>4, NamesStep, FlagsStep, SavedStep, ProvisioningUsesSettings,
     TypeCorrect, PTL
  DEF ImprovSpec

=============================================================================
