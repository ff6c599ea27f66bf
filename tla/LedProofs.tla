------------------------------ MODULE LedProofs ------------------------------
(***************************************************************************)
(* No display mode and no brightness is lost on its way to the LED task,   *)
(* for every choice of modes and levels.                                   *)
(***************************************************************************)
EXTENDS LedControl, TLAPS

\* The cached frame is what the LEDs show.
CacheIsShown == cached # Nothing => shown = cached

\* A queued mode is the one asked for last: the queue is overwritten.
QueueIsLatest == queue \in Modes => queue = previous

\* A frame that is out of date has a wake-up behind it.
Fresh(f) == f = Frame(mode, 0, brightness) \/ notify \/ queue # Empty

SendFresh  == pc = "send" /\ ~Animated(mode) => Fresh(frame)
SleepFresh == pc = "wait" /\ ~failed /\ ~Animated(mode) => Fresh(cached)

LedInv == /\ TypeOK /\ ModeNotLost /\ QueueIsLatest
          /\ CacheIsShown /\ SendFresh /\ SleepFresh
          /\ pc = "send" => frame # Nothing

-----------------------------------------------------------------------------
\* Frames are never mistaken for the missing frame, and the animation phase
\* plays no part in a static one.
LEMMA FrameFacts ==
  ASSUME NEW m \in Modes, NEW p \in {0, 1}, NEW l \in Levels
  PROVE  /\ Frame(m, p, l) \in Frames
         /\ Frame(m, p, l) # Nothing
         /\ ~Animated(m) => Frame(m, p, l) = Frame(m, 0, l)
<1>1. Frame(m, p, l) \in Frames
  BY DEF Frames
<1>2. Colour(m) # "nothing"
  BY DEF Colour
<1>3. Frame(m, p, l).colour \in {"dark", Colour(m)} /\ Nothing.colour = "nothing"
  BY DEF Frame, Nothing
<1>4. ~Animated(m) => Frame(m, p, l) = Frame(m, 0, l)
  BY DEF Frame, Animated
<1> QED BY <1>1, <1>2, <1>3, <1>4

LEMMA ModeFacts == Refresh \notin Modes /\ Empty \notin Modes /\ Unset \notin Modes
  BY LedAssumption DEF AllModes, Refresh, Empty, Unset

LEMMA InitLed == Init => LedInv
  BY LedAssumption, ModeFacts
  DEF Init, LedInv, TypeOK, ModeNotLost, QueueIsLatest, CacheIsShown,
      SendFresh, SleepFresh

LEMMA StepLed == LedInv /\ [Next]_vars => LedInv'
<1> SUFFICES ASSUME LedInv, [Next]_vars PROVE LedInv'
  OBVIOUS
<1> USE DEF LedInv
<1>1. ASSUME NEW m \in Modes, SetMode(m) PROVE LedInv'
  BY <1>1, ModeFacts
  DEF SetMode, worker, TypeOK, ModeNotLost, QueueIsLatest, CacheIsShown,
      SendFresh, SleepFresh, Fresh
<1>2. ASSUME NEW l \in Levels, SetBrightness(l) PROVE LedInv'
  BY <1>2
  DEF SetBrightness, worker, TypeOK, ModeNotLost, QueueIsLatest, CacheIsShown,
      SendFresh, SleepFresh, Fresh
<1>3. CASE LedsRefresh
  <2>1. queue' = IF queue = Empty THEN Refresh ELSE queue
    BY <1>3 DEF LedsRefresh
  <2>2. queue' # Empty
    BY <2>1 DEF Refresh, Empty
  <2>3. TypeOK'
    BY <1>3, <2>1 DEF LedsRefresh, worker, TypeOK
  <2>4. ModeNotLost' /\ QueueIsLatest'
    <3>1. /\ previous' = previous /\ mode' = mode
          /\ queue' \in Modes => queue' = queue
          /\ queue = Empty \/ queue' = queue
      BY <1>3, <2>1, ModeFacts DEF LedsRefresh, worker
    <3>2. previous \in Modes \cup {Unset} /\ previous # Empty
      BY ModeFacts DEF TypeOK, Unset, Empty
    <3>3. ModeNotLost'
      BY <3>1, <3>2 DEF ModeNotLost
    <3> QED
      BY <3>1, <3>3 DEF QueueIsLatest
  <2>5. CacheIsShown' /\ SendFresh' /\ SleepFresh' /\ (pc' = "send" => frame' # Nothing)
    BY <1>3, <2>2 DEF LedsRefresh, worker, CacheIsShown, SendFresh, SleepFresh, Fresh
  <2> QED BY <2>3, <2>4, <2>5
<1>4. CASE Render
  <2>1. /\ Frame(mode, phase, brightness) \in Frames
        /\ Frame(mode, phase, brightness) # Nothing
        /\ ~Animated(mode) => Frame(mode, phase, brightness) = Frame(mode, 0, brightness)
    BY FrameFacts DEF TypeOK
  <2> QED BY <1>4, <2>1
          DEF Render, client, TypeOK, ModeNotLost, QueueIsLatest, CacheIsShown,
      SendFresh, SleepFresh, Fresh
<1>5. CASE SendOk
  BY <1>5
  DEF SendOk, client, TypeOK, ModeNotLost, QueueIsLatest, CacheIsShown,
      SendFresh, SleepFresh, Fresh
<1>6. CASE SendFailed
  BY <1>6
  DEF SendFailed, client, TypeOK, ModeNotLost, QueueIsLatest, CacheIsShown,
      SendFresh, SleepFresh
<1>7. CASE TakeItem
  <2>1. TypeOK'
    BY <1>7 DEF TakeItem, client, TypeOK
  <2>2. ModeNotLost'
    BY <1>7, ModeFacts DEF TakeItem, client, TypeOK, ModeNotLost, QueueIsLatest
  <2>3. QueueIsLatest'
    BY <1>7, ModeFacts DEF TakeItem, QueueIsLatest
  <2>4. CacheIsShown' /\ SendFresh' /\ SleepFresh' /\ pc' = "render"
    BY <1>7 DEF TakeItem, client, CacheIsShown, SendFresh, SleepFresh
  <2> QED BY <2>1, <2>2, <2>3, <2>4
<1>8. CASE WaitExpired
  BY <1>8
  DEF WaitExpired, client, TypeOK, ModeNotLost, QueueIsLatest, CacheIsShown,
      SendFresh, SleepFresh
<1>9. CASE Blink
  BY <1>9
  DEF Blink, client, TypeOK, ModeNotLost, QueueIsLatest, CacheIsShown,
      SendFresh, SleepFresh, Fresh
<1>10. CASE UNCHANGED vars
  BY <1>10
  DEF vars, client, worker, TypeOK, ModeNotLost, QueueIsLatest, CacheIsShown,
      SendFresh, SleepFresh, Fresh
<1> QED BY <1>1, <1>2, <1>3, <1>4, <1>5, <1>6, <1>7, <1>8, <1>9, <1>10 DEF Next, Worker

\* The invariant holds in every reachable state.
THEOREM LedInvariant == Spec => []LedInv
<1>1. Init => LedInv
  BY InitLed
<1>2. LedInv /\ [Next]_vars => LedInv'
  BY StepLed
<1> QED BY <1>1, <1>2, PTL DEF Spec

\* Every mode the main loop asked for last is on display or queued.
THEOREM ModesAreNotLost == Spec => []ModeNotLost
<1>1. LedInv => ModeNotLost
  BY DEF LedInv
<1> QED BY <1>1, LedInvariant, PTL

\* A sleeping LED task shows the mode at the current brightness, or is about to
\* be woken.
THEOREM NoWakeUpIsLost == Spec => []NoStaleSleep
<1>1. LedInv => NoStaleSleep
  <2> SUFFICES ASSUME LedInv, pc = "wait", queue = Empty, ~failed, ~Animated(mode), ~notify
               PROVE  shown = Frame(mode, 0, brightness)
    BY DEF NoStaleSleep
  <2>1. cached = Frame(mode, 0, brightness)
    BY DEF LedInv, SleepFresh, Fresh
  <2>2. Frame(mode, 0, brightness) # Nothing
    BY FrameFacts DEF LedInv, TypeOK
  <2> QED BY <2>1, <2>2 DEF LedInv, CacheIsShown
<1> QED BY <1>1, LedInvariant, PTL

=============================================================================
