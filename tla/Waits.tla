-------------------------------- MODULE Waits --------------------------------
(***************************************************************************)
(* When the presence worker asks Graph again (main/graph_client.c): on a   *)
(* cadence after a success, after the longest of its own backoff and the   *)
(* server's Retry-After (main/protocol.c) otherwise, with waits measured   *)
(* in the ticks of the scheduler (main/include/task_time.h).               *)
(*                                                                         *)
(* Time is in the units of esp_timer_get_time.  Unsigned integers keep     *)
(* their width.  The clock is set back to its phase within a tick at the   *)
(* start of each round.                                                    *)
(***************************************************************************)
EXTENDS Integers, Sequences, FiniteSetsExt

CONSTANTS
  Modulus,       \* 2^w of an unsigned int and of TickType_t
  UnitsPerMs, MsPerSec,
  Hz,            \* configTICK_RATE_HZ
  Chunk,         \* longest single wait, in seconds
  MaxRetry,      \* MAX_RETRY_AFTER_SECONDS
  FirstBackoff, MaxBackoff,
  Leasts,        \* lower bounds of Retry-After: none, 403, the application's registration
  Period,        \* settings_get()->poll_seconds
  Durations,     \* how long the requests of a round may take (a bound)
  Headers,       \* values of Retry-After (a bound): digits, and 10 for any other character
  Late           \* by how much a task may start late

Sec  == UnitsPerMs * MsPerSec
Tick == Sec \div Hz

ASSUME WaitsAssumption ==
  /\ {Modulus, UnitsPerMs, MsPerSec, Hz, Chunk, Period, FirstBackoff} \subseteq Nat \ {0}
  /\ Tick * Hz = Sec /\ Tick % UnitsPerMs = 0
  /\ MaxRetry \in 0..Modulus - 1
  /\ Chunk * MsPerSec * Hz < Modulus
  /\ MaxBackoff \in FirstBackoff..Modulus - 1
  /\ Leasts \subseteq 0..Modulus - 1 /\ Headers \subseteq Seq(Nat)
  /\ Durations \subseteq Nat
  /\ Late \in 0..Tick - 1

VARIABLES
  pc,        \* the request, the wait for the slot, the wait after a failure, its end
  now,
  started,   \* poll_started
  backoff,
  left,      \* seconds left of task_wait_seconds
  ended,     \* history: when the request ended
  due,       \* history: the seconds the next request is to be held off
  hold       \* history: a backoff that doubles with every failure, no further than
             \* matters

vars == <<pc, now, started, backoff, left, ended, due, hold>>

Init ==
  /\ pc = "request"
  /\ now \in 0..Tick - 1
  /\ started = now
  /\ backoff = FirstBackoff
  /\ left = 0
  /\ ended = now
  /\ due = 0
  /\ hold = FirstBackoff

Max2(a, b) == IF a > b THEN a ELSE b
Min2(a, b) == IF a < b THEN a ELSE b

-----------------------------------------------------------------------------
(* Retry-After                                                             *)

UIntMax == Modulus - 1
Digits  == 0..9

\* retry_after_seconds: anything but digits is no delay, too many are the longest.
RetryAfterSeconds(value) ==
  LET seconds[i \in 0..Len(value)] ==
        IF i = 0 THEN 0
        ELSE LET so_far == seconds[i - 1]
                 digit == value[i]
             IN IF so_far > (UIntMax - digit) \div 10 THEN UIntMax
                ELSE (so_far * 10 + digit) % Modulus
  IN IF \E i \in 1..Len(value): value[i] \notin Digits THEN 0
     ELSE Min2(seconds[Len(value)], MaxRetry)

\* What the header says, in integers without a width.
Asked(value) ==
  LET number[i \in 0..Len(value)] == IF i = 0 THEN 0 ELSE number[i - 1] * 10 + value[i]
  IN IF \E i \in 1..Len(value): value[i] \notin Digits THEN 0
     ELSE Min2(number[Len(value)], MaxRetry)

-----------------------------------------------------------------------------
(* Ticks                                                                   *)

\* pdMS_TO_TICKS and task_ticks_ms
Ticks(ms) == (((ms % Modulus) * Hz) % Modulus) \div MsPerSec
TaskTicks(ms) == Max2(Ticks(ms), 1)

\* vTaskDelay(n): n ticks from now, the one under way included.
Delay(n) == \E late \in 0..Late: now' = (now \div Tick + n) * Tick + late

-----------------------------------------------------------------------------
\* One round's requests, to their end.
Succeed ==
  /\ pc = "request"
  /\ \E d \in Durations: now' = now + d
  /\ ended' = now'
  /\ backoff' = FirstBackoff
  /\ hold' = FirstBackoff
  /\ pc' = "slot"
  /\ UNCHANGED <<started, left, due>>

Fail ==
  /\ pc = "request"
  /\ \E d \in Durations: now' = now + d
  /\ ended' = now'
  /\ \E value \in Headers, least \in Leasts:
       /\ left' = Max2(Max2(RetryAfterSeconds(value), least), backoff)
       /\ due' = Max2(Max2(Asked(value), least), Min2(hold, MaxBackoff))
  /\ pc' = "retry"
  /\ UNCHANGED <<started, backoff, hold>>

\* Mutant: the slot after this one, whether it is past or not.
NextSlotOnly == started + Period * Sec

\* task_wait_poll_slot: the first slot after the request ended.
NextSlot ==
  LET period == Period * Sec
      elapsed == Max2(ended - started, 0)
  IN started + (elapsed \div period + 1) * period

WaitSlot ==
  /\ pc = "slot" /\ now < NextSlot
  /\ LET ms == (NextSlot - now + UnitsPerMs - 1) \div UnitsPerMs
     IN Delay(TaskTicks(Min2(ms, Chunk * MsPerSec)))
  /\ UNCHANGED <<pc, started, backoff, left, ended, due, hold>>

\* Mutant: the whole wait at once.
PartAtOnce == left

Part == Min2(left, Chunk)

\* task_wait_seconds
WaitRetry ==
  /\ pc = "retry" /\ left > 0
  /\ Delay(TaskTicks(Part * MsPerSec))
  /\ left' = left - Part
  /\ UNCHANGED <<pc, started, backoff, ended, due, hold>>

\* The next round, which counts from its own start.
Round(t) ==
  /\ pc' = "request"
  /\ now' = t % Tick /\ started' = now' /\ ended' = now'
  /\ due' = 0

SlotDue ==
  /\ pc = "slot" /\ now >= NextSlot
  /\ Round(now)
  /\ UNCHANGED <<backoff, left, hold>>

\* wait_after_failure adds a random delay below a second: whole ticks, or none.
Jitter ==
  /\ pc = "retry" /\ left = 0
  /\ \E ms \in 0..MsPerSec - 1:
       IF Ticks(ms) = 0 THEN now' = now ELSE Delay(Ticks(ms))
  /\ pc' = "due"
  /\ UNCHANGED <<started, backoff, left, ended, due, hold>>

\* The next round may have to wait for the network first, and starts anywhere in a
\* tick.
RetryDue ==
  /\ pc = "due"
  /\ \E t \in 0..Tick - 1: Round(t)
  /\ backoff' = IF backoff >= MaxBackoff THEN backoff
                ELSE IF backoff > MaxBackoff \div 2 THEN MaxBackoff ELSE backoff * 2
  /\ hold' = IF hold < MaxBackoff THEN 2 * hold ELSE hold
  /\ UNCHANGED left

Next == Succeed \/ Fail \/ WaitSlot \/ WaitRetry \/ SlotDue \/ Jitter \/ RetryDue

Spec == Init /\ [][Next]_vars

-----------------------------------------------------------------------------
FirstSlot == Min({s \in {started + k * Period * Sec: k \in 1..ended + 1}: s > ended})

\* After a success the next request starts in the first slot, counted from the
\* start of the last one, that lies after its end, and no later than the next
\* tick allows: however slow the request, however coarse the ticks.
OnCadence ==
  [][SlotDue => now >= FirstSlot /\ now < FirstSlot + Tick + Late]_vars

\* After a failure the worker is silent for as long as the server asked (to the
\* tick under way, and within the limit), and at least for a backoff that doubles
\* with each failure in a row; and it is ready to ask again less than the second of
\* the random delay later, and a task's lateness.
RetriesOnTime ==
  [][RetryDue => /\ now - ended > due * Sec - Tick
                 /\ now - ended < (due + 1) * Sec + Late]_vars

=============================================================================
