----------------------------- MODULE WaitsProofs -----------------------------
(***************************************************************************)
(* The presence worker asks again when it should: the Retry-After header   *)
(* is read exactly, waits measured in ticks keep the cadence after a       *)
(* success, and after a failure the worker is silent for as long as it was *)
(* asked.  For every width of the integers, every tick rate and every      *)
(* header.                                                                 *)
(*                                                                         *)
(* The header is read digit by digit.  Induction over the digits uses a    *)
(* set of naturals, the ones for which the claim holds, and rests on the   *)
(* least element of its complement.                                        *)
(***************************************************************************)
EXTENDS Waits, WellFoundedInduction, TLAPS

-----------------------------------------------------------------------------
(* Induction and recursion over the naturals.                              *)

\* Every nonempty set of naturals has a least element.
LEMMA LeastNat ==
  ASSUME NEW T, T \subseteq Nat, T # {}
  PROVE  \E x \in T : \A y \in T : x <= y
<1> DEFINE R == {ss \in Nat \X Nat : ss[1] < ss[2]}
<1>0. R = OpToRel(<, Nat)
  BY Zenon DEF OpToRel
<1>1. \E x \in T : \A y \in T : ~ (<<y, x>> \in R)
  <2>1. IsWellFoundedOn(R, Nat)
    BY <1>0, NatLessThanWellFounded, Zenon
  <2> HIDE DEF R
  <2> QED BY <2>1, WFMin, Zenon
<1>2. PICK x \in T : \A y \in T : ~ (<<y, x>> \in R)
  BY <1>1
<1>3. \A y \in T: ~(y < x)
  BY <1>2
<1> QED BY <1>3

\* Induction over the naturals, for a set of them.
LEMMA SetInduction ==
  ASSUME NEW T, 0 \in T, \A n \in Nat: n \in T => n + 1 \in T
  PROVE  Nat \subseteq T
<1> SUFFICES ASSUME ~(Nat \subseteq T) PROVE FALSE
  OBVIOUS
<1> DEFINE C == Nat \ T
<1>1. PICK x \in C: \A y \in C: x <= y
  <2>1. C \subseteq Nat /\ C # {}
    OBVIOUS
  <2> HIDE DEF C
  <2> QED BY <2>1, LeastNat, Zenon
<1>2. x \in Nat /\ x # 0 /\ x - 1 \in Nat
  OBVIOUS
<1>3. x - 1 \notin C
  BY <1>1, <1>2
<1> QED
  BY <1>2, <1>3

\* A function can be defined from the value at 0, value by value.
LEMMA RecursionOverNat ==
  ASSUME NEW step \in [Nat \X Nat -> Nat], NEW n \in Nat
  PROVE  \E f \in [0..n -> Nat]: f[0] = 0 /\ \A i \in 1..n: f[i] = step[<<i, f[i - 1]>>]
<1> DEFINE Good(m) == \E f \in [0..m -> Nat]:
                        f[0] = 0 /\ \A i \in 1..m: f[i] = step[<<i, f[i - 1]>>]
           T == {m \in Nat: Good(m)}
<1>1. Good(0)
  <2> DEFINE z == [i \in 0..0 |-> 0]
  <2>1. z \in [0..0 -> Nat] /\ z[0] = 0 /\ 1..0 = {}
    OBVIOUS
  <2> HIDE DEF z
  <2> QED
    BY <2>1, Zenon
<1>2. ASSUME NEW m \in Nat, Good(m) PROVE Good(m + 1)
  <2>1. PICK f \in [0..m -> Nat]: f[0] = 0 /\ \A i \in 1..m: f[i] = step[<<i, f[i - 1]>>]
    BY <1>2
  <2> DEFINE g == [i \in 0..m + 1 |-> IF i = m + 1 THEN step[<<m + 1, f[m]>>] ELSE f[i]]
  <2>2. step[<<m + 1, f[m]>>] \in Nat
    OBVIOUS
  <2>3. g \in [0..m + 1 -> Nat]
    BY <2>2
  <2>4. g[0] = 0 /\ \A i \in 1..m + 1: g[i] = step[<<i, g[i - 1]>>]
    <3>1. g[0] = 0
      BY <2>1
    <3>2. ASSUME NEW i \in 1..m + 1 PROVE g[i] = step[<<i, g[i - 1]>>]
      <4>1. CASE i = m + 1
        <5>1. i - 1 = m /\ m \in 0..m + 1 /\ m # m + 1
          BY <4>1
        <5>2. g[i - 1] = f[m] /\ g[i] = step[<<m + 1, f[m]>>]
          BY <4>1, <5>1
        <5> QED BY <4>1, <5>1, <5>2, Zenon
      <4>2. CASE i # m + 1
        <5>1. i \in 1..m /\ i - 1 \in 0..m /\ i - 1 # m + 1 /\ i - 1 \in 0..m + 1
          BY <4>2
        <5>2. g[i - 1] = f[i - 1] /\ g[i] = f[i]
          BY <4>2, <5>1
        <5> QED BY <2>1, <5>1, <5>2, Zenon
      <4> QED BY <4>1, <4>2
    <3> QED BY <3>1, <3>2
  <2> HIDE DEF g
  <2> QED BY <2>3, <2>4
<1>3. Nat \subseteq T
  <2>1. 0 \in T
    BY <1>1
  <2>2. ASSUME NEW m \in Nat, m \in T PROVE m + 1 \in T
    <3> HIDE DEF Good
    <3>1. Good(m) /\ m + 1 \in Nat
      BY <2>2
    <3>2. Good(m + 1)
      BY <3>1, <1>2, Zenon
    <3> QED BY <3>1, <3>2
  <2> HIDE DEF T
  <2> QED BY <2>1, <2>2, SetInduction, Zenon
<1> HIDE DEF Good
<1>4. Good(n)
  BY <1>3
<1> QED BY <1>4 DEF Good

-----------------------------------------------------------------------------
(* Retry-After.                                                            *)

LEMMA WidthPositive == Modulus \in Nat \ {0} /\ Modulus >= 1 /\ MaxRetry \in 0..UIntMax
<1>1. Modulus \in Nat \ {0} /\ MaxRetry \in 0..Modulus - 1
  BY WaitsAssumption, Zenon
<1> QED BY <1>1 DEF UIntMax

\* One digit more: the check before the multiplication is exact.
LEMMA OneDigit ==
  ASSUME NEW number \in Nat, NEW digit \in Digits
  PROVE  LET so_far == Min2(number, UIntMax)
         IN  (IF so_far > (UIntMax - digit) \div 10 THEN UIntMax
              ELSE (so_far * 10 + digit) % Modulus) = Min2(number * 10 + digit, UIntMax)
<1> DEFINE m == Modulus
           so_far == Min2(number, m - 1)
           q == (m - 1 - digit) \div 10
<1>1. m \in Nat /\ m >= 1 /\ digit \in 0..9 /\ so_far \in 0..m - 1
  <2>1. m \in Nat /\ m >= 1
    BY WidthPositive
  <2> QED BY <2>1 DEF Digits, Min2
<1>2. q \in Int /\ 10 * q <= m - 1 - digit /\ m - 1 - digit < 10 * q + 10
  BY <1>1
<1>3. (IF so_far > q THEN m - 1 ELSE (so_far * 10 + digit) % m)
        = Min2(number * 10 + digit, m - 1)
  <2> HIDE DEF q, m
  <2>1. CASE so_far > q
    <3>1. so_far * 10 + digit > m - 1
      BY <1>1, <1>2, <2>1
    <3>2. number * 10 + digit > m - 1
      BY <1>1, <3>1 DEF Min2
    <3> QED BY <1>1, <2>1, <3>2 DEF Min2
  <2>2. CASE ~(so_far > q)
    <3>1. so_far * 10 + digit \in 0..m - 1
      BY <1>1, <1>2, <2>2
    <3>2. (so_far * 10 + digit) % m = so_far * 10 + digit
      BY <1>1, <3>1
    <3>3. so_far = number \/ (so_far = m - 1 /\ number >= m)
      BY <1>1 DEF Min2
    <3>4. so_far * 10 + digit = Min2(number * 10 + digit, m - 1)
      BY <1>1, <3>1, <3>3 DEF Min2
    <3> QED BY <1>1, <2>2, <3>2, <3>4
  <2> QED BY <2>1, <2>2
<1> QED BY <1>3 DEF UIntMax

\* The delay a Retry-After header asks for is read exactly, within the limit: no
\* number of digits overflows the unsigned integer it is computed in.
THEOREM RetryAfterExact ==
  ASSUME NEW value \in Seq(Nat)
  PROVE  RetryAfterSeconds(value) = Asked(value) /\ Asked(value) \in 0..MaxRetry
<1> DEFINE n == Len(value)
<1>1. n \in Nat /\ \A i \in 1..n: value[i] \in Nat
  OBVIOUS
<1>2. CASE \E i \in 1..Len(value): value[i] \notin Digits
  <2>1. RetryAfterSeconds(value) = 0 /\ Asked(value) = 0
    BY <1>2, Zenon DEF RetryAfterSeconds, Asked
  <2> QED BY <2>1, WidthPositive
<1>3. CASE ~ \E i \in 1..Len(value): value[i] \notin Digits
  <2> DEFINE
        seconds[i \in 0..Len(value)] ==
          IF i = 0 THEN 0
          ELSE LET so_far == seconds[i - 1]
                   digit == value[i]
               IN IF so_far > (UIntMax - digit) \div 10 THEN UIntMax
                  ELSE (so_far * 10 + digit) % Modulus
        number[i \in 0..Len(value)] == IF i = 0 THEN 0 ELSE number[i - 1] * 10 + value[i]
        at(i) == IF i \in 1..n THEN value[i] ELSE 0
        number_step == [p \in Nat \X Nat |-> p[2] * 10 + at(p[1])]
        seconds_step == [p \in Nat \X Nat |->
                           IF p[2] > (UIntMax - at(p[1])) \div 10 THEN UIntMax
                           ELSE (p[2] * 10 + at(p[1])) % Modulus]
  <2>1. \A i \in Nat: at(i) \in 0..9
    BY <1>3 DEF Digits
  <2>2. UIntMax \in Nat /\ Modulus \in Nat \ {0} /\ Modulus = UIntMax + 1
    BY WidthPositive DEF UIntMax
  <2>3. \E f: f = [i \in 0..Len(value) |-> IF i = 0 THEN 0 ELSE f[i - 1] * 10 + value[i]]
    <3>1. number_step \in [Nat \X Nat -> Nat]
      <4> HIDE DEF at
      <4>1. ASSUME NEW p \in Nat \X Nat PROVE p[2] * 10 + at(p[1]) \in Nat
        <5>1. p[2] \in Nat /\ at(p[1]) \in 0..9
          BY <2>1
        <5> QED BY <5>1
      <4> QED BY <4>1, Zenon
    <3>2. PICK f \in [0..n -> Nat]:
            f[0] = 0 /\ \A i \in 1..n: f[i] = number_step[<<i, f[i - 1]>>]
      <4> HIDE DEF n, number_step
      <4> QED BY <1>1, <3>1, RecursionOverNat, Zenon
    <3>3. ASSUME NEW i \in 0..n PROVE f[i] = IF i = 0 THEN 0 ELSE f[i - 1] * 10 + value[i]
      <4>1. CASE i = 0
        BY <3>2, <4>1
      <4>2. CASE i # 0
        <5>1. i \in 1..n /\ i \in Nat /\ f[i - 1] \in Nat
          BY <4>2
        <5>2. number_step[<<i, f[i - 1]>>] = f[i - 1] * 10 + value[i]
          BY <5>1
        <5> QED BY <3>2, <4>2, <5>1, <5>2, Zenon
      <4> QED BY <4>1, <4>2
    <3> QED BY <3>3
  <2>4. number = [i \in 0..Len(value) |-> IF i = 0 THEN 0 ELSE number[i - 1] * 10 + value[i]]
    BY <2>3, Zenon
  <2>5. \E f: f = [i \in 0..Len(value) |->
                     IF i = 0 THEN 0
                     ELSE LET so_far == f[i - 1]
                              digit == value[i]
                          IN IF so_far > (UIntMax - digit) \div 10 THEN UIntMax
                             ELSE (so_far * 10 + digit) % Modulus]
    <3>1. seconds_step \in [Nat \X Nat -> Nat]
      <4> HIDE DEF at
      <4>1. ASSUME NEW p \in Nat \X Nat
            PROVE  (IF p[2] > (UIntMax - at(p[1])) \div 10 THEN UIntMax
                    ELSE (p[2] * 10 + at(p[1])) % Modulus) \in Nat
        <5>1. p[2] \in Nat /\ at(p[1]) \in 0..9
          BY <2>1
        <5> DEFINE k == p[2] * 10 + at(p[1])
        <5>2. k % Modulus \in Nat
          <6>1. k \in Nat
            BY <5>1
          <6> HIDE DEF k
          <6> QED BY <2>2, <6>1
        <5> QED BY <2>2, <5>2, Zenon
      <4> QED BY <4>1, Zenon
    <3>2. PICK f \in [0..n -> Nat]:
            f[0] = 0 /\ \A i \in 1..n: f[i] = seconds_step[<<i, f[i - 1]>>]
      <4> HIDE DEF n, seconds_step
      <4> QED BY <1>1, <3>1, RecursionOverNat, Zenon
    <3>3. ASSUME NEW i \in 0..n
          PROVE  f[i] = IF i = 0 THEN 0
                        ELSE LET so_far == f[i - 1]
                                 digit == value[i]
                             IN IF so_far > (UIntMax - digit) \div 10 THEN UIntMax
                                ELSE (so_far * 10 + digit) % Modulus
      <4>1. CASE i = 0
        BY <3>2, <4>1
      <4>2. CASE i # 0
        <5>1. i \in 1..n /\ i \in Nat /\ f[i - 1] \in Nat /\ at(i) = value[i]
          BY <4>2
        <5>2. seconds_step[<<i, f[i - 1]>>] =
                IF f[i - 1] > (UIntMax - value[i]) \div 10 THEN UIntMax
                ELSE (f[i - 1] * 10 + value[i]) % Modulus
          <6> HIDE DEF at
          <6> QED BY <5>1
        <5> QED BY <3>2, <4>2, <5>1, <5>2, Zenon
      <4> QED BY <4>1, <4>2
    <3> QED BY <3>3
  <2>6. seconds = [i \in 0..Len(value) |->
                     IF i = 0 THEN 0
                     ELSE LET so_far == seconds[i - 1]
                              digit == value[i]
                          IN IF so_far > (UIntMax - digit) \div 10 THEN UIntMax
                             ELSE (so_far * 10 + digit) % Modulus]
    BY <2>5, Zenon
  <2>7. /\ RetryAfterSeconds(value) = Min2(seconds[Len(value)], MaxRetry)
        /\ Asked(value) = Min2(number[Len(value)], MaxRetry)
    BY <1>3, Zenon DEF RetryAfterSeconds, Asked
  <2> HIDE DEF seconds, number
  <2> DEFINE Agree(i) == number[i] \in Nat /\ seconds[i] = Min2(number[i], UIntMax)
             T == {i \in Nat: i <= n => Agree(i)}
  <2>8. Nat \subseteq T
    <3>1. 0 \in T
      <4>1. number[0] = 0 /\ seconds[0] = 0
        BY <1>1, <2>4, <2>6
      <4> QED BY <2>2, <4>1 DEF Min2
    <3>2. ASSUME NEW i \in Nat, i \in T PROVE i + 1 \in T
      <4> SUFFICES ASSUME i + 1 <= n PROVE Agree(i + 1)
        OBVIOUS
      <4>1. /\ i \in 0..n /\ i + 1 \in 0..n /\ i + 1 # 0 /\ i + 1 - 1 = i
            /\ value[i + 1] \in Digits /\ i <= n
        BY <1>1, <1>3
      <4>2. Agree(i)
        BY <3>2, <4>1
      <4>3. number[i + 1] = number[i] * 10 + value[i + 1]
        BY <2>4, <4>1
      <4>4. seconds[i + 1] =
              IF seconds[i] > (UIntMax - value[i + 1]) \div 10 THEN UIntMax
              ELSE (seconds[i] * 10 + value[i + 1]) % Modulus
        BY <2>6, <4>1
      <4>5. seconds[i + 1] = Min2(number[i + 1], UIntMax)
        BY <4>1, <4>2, <4>3, <4>4, OneDigit, Zenon
      <4>6. number[i + 1] \in Nat
        BY <4>1, <4>2, <4>3 DEF Digits
      <4> QED BY <4>5, <4>6
    <3> HIDE DEF T
    <3> QED BY <3>1, <3>2, SetInduction, Zenon
  <2> HIDE DEF Agree
  <2>9. Agree(n)
    BY <1>1, <2>8
  <2>10. /\ Min2(seconds[n], MaxRetry) = Min2(number[n], MaxRetry)
         /\ Min2(number[n], MaxRetry) \in 0..MaxRetry
    BY <2>2, <2>9, WidthPositive DEF Agree, Min2
  <2> QED BY <2>7, <2>10
<1> QED BY <1>2, <1>3

-----------------------------------------------------------------------------
(* Ticks.                                                                  *)

LEMMA Division ==
  ASSUME NEW a \in Nat, NEW b \in Nat \ {0}
  PROVE  /\ a \div b \in Nat
         /\ (a \div b) * b <= a /\ a < (a \div b) * b + b
  OBVIOUS

LEMMA TimesMono ==
  ASSUME NEW a \in Nat, NEW b \in Nat, NEW c \in Nat, a <= b
  PROVE  a * c <= b * c /\ a * c \in Nat
  OBVIOUS

LEMMA TimesCancel ==
  ASSUME NEW a \in Nat, NEW b \in Nat, NEW c \in Nat \ {0}, a * c <= b * c
  PROVE  a <= b
  OBVIOUS

LEMMA Units ==
  /\ {Tick, Sec, Hz, MsPerSec, UnitsPerMs, Chunk, Modulus} \subseteq Nat \ {0}
  /\ Sec = Tick * Hz /\ Sec = UnitsPerMs * MsPerSec
  /\ UnitsPerMs <= Tick
  /\ Late \in 0..Tick - 1
  /\ Period * Sec \in Nat \ {0}
<1>1. {Modulus, UnitsPerMs, MsPerSec, Hz, Chunk, Period} \subseteq Nat \ {0}
  BY WaitsAssumption, Zenon
<1>2. Sec \in Nat \ {0} /\ Sec = UnitsPerMs * MsPerSec
  BY <1>1 DEF Sec
<1>3. Tick \in Nat /\ Tick * Hz = Sec
  <2> DEFINE s == Sec
  <2>1. s \div Hz \in Nat
    <3> HIDE DEF s
    <3> QED BY <1>1, <1>2 DEF s
  <2> QED BY <2>1, WaitsAssumption, Zenon DEF Tick
<1>4. Tick # 0
  BY <1>1, <1>2, <1>3
<1>5. UnitsPerMs <= Tick
  <2>1. Tick % UnitsPerMs = 0
    BY WaitsAssumption, Zenon
  <2> DEFINE t == Tick
  <2>2. t \in Nat \ {0} /\ t % UnitsPerMs = 0
    BY <1>3, <1>4, <2>1
  <2> HIDE DEF t
  <2>3. UnitsPerMs <= t
    BY <1>1, <2>2
  <2> QED BY <2>3 DEF t
<1>6. Late \in 0..Tick - 1
  BY WaitsAssumption, Zenon
<1>7. Period * Sec \in Nat \ {0}
  BY <1>1, <1>2
<1> QED BY <1>1, <1>2, <1>3, <1>4, <1>5, <1>6, <1>7

\* Within the longest single wait the conversion to ticks does not overflow.
LEMMA TicksExact ==
  ASSUME NEW ms \in Nat, ms <= Chunk * MsPerSec
  PROVE  Ticks(ms) = (ms * Hz) \div MsPerSec
<1>1. /\ Modulus \in Nat \ {0} /\ MsPerSec \in Nat \ {0} /\ Hz \in Nat \ {0}
      /\ Chunk \in Nat \ {0}
  BY Units
<1>2. Chunk * MsPerSec * Hz < Modulus
  BY WaitsAssumption, Zenon
<1> DEFINE c == Chunk * MsPerSec
<1>3. c \in Nat
  BY <1>1
<1>4. ms * Hz <= c * Hz /\ ms * Hz \in Nat
  <2> HIDE DEF c
  <2> QED BY <1>1, <1>3, TimesMono DEF c
<1>5. ms * Hz < Modulus
  <2> DEFINE k == ms * Hz
             l == c * Hz
  <2>1. k <= l /\ l < Modulus /\ k \in Nat /\ l \in Nat
    BY <1>1, <1>2, <1>3, <1>4
  <2> HIDE DEF k, l
  <2>2. k < Modulus
    BY <2>1, <1>1
  <2> QED BY <2>2 DEF k
<1>6. ms <= ms * Hz
  BY <1>1
<1>7. ms % Modulus = ms
  <2>1. ms < Modulus
    BY <1>1, <1>4, <1>5, <1>6
  <2> QED BY <1>1, <2>1
<1>8. (ms * Hz) % Modulus = ms * Hz
  <2> DEFINE k == ms * Hz
  <2>1. k \in Nat /\ k < Modulus
    BY <1>4, <1>5
  <2> HIDE DEF k
  <2>2. k % Modulus = k
    BY <1>1, <2>1
  <2> QED BY <2>2 DEF k
<1> QED BY <1>7, <1>8, Zenon DEF Ticks

\* A wait of whole seconds takes exactly their ticks.
LEMMA WholeSeconds ==
  ASSUME NEW s \in 1..Chunk
  PROVE  TaskTicks(s * MsPerSec) = s * Hz
<1>1. MsPerSec \in Nat \ {0} /\ Hz \in Nat \ {0} /\ Chunk \in Nat \ {0}
  BY Units
<1>2. s * MsPerSec \in Nat /\ s * MsPerSec <= Chunk * MsPerSec
  BY <1>1, TimesMono
<1>3. Ticks(s * MsPerSec) = ((s * MsPerSec) * Hz) \div MsPerSec
  BY <1>2, TicksExact
<1> DEFINE k == s * Hz
<1>4. k \in Nat /\ k >= 1
  BY <1>1
<1>5. (s * MsPerSec) * Hz = MsPerSec * k
  BY <1>1
<1>6. (MsPerSec * k) \div MsPerSec = k
  <2> HIDE DEF k
  <2> QED BY <1>1, <1>4
<1>7. Ticks(s * MsPerSec) = k
  BY <1>3, <1>5, <1>6
<1> HIDE DEF k
<1>8. TaskTicks(s * MsPerSec) = k
  BY <1>4, <1>7 DEF TaskTicks, Max2
<1> QED BY <1>8 DEF k

\* The ticks of a wait last no longer than the wait asked for.
LEMMA TicksBounded ==
  ASSUME NEW ms \in Nat, ms <= Chunk * MsPerSec
  PROVE  Ticks(ms) \in Nat /\ Ticks(ms) * Tick <= ms * UnitsPerMs
<1>1. /\ MsPerSec \in Nat \ {0} /\ Hz \in Nat \ {0} /\ Tick \in Nat \ {0}
      /\ UnitsPerMs \in Nat \ {0} /\ Tick * Hz = UnitsPerMs * MsPerSec
  BY Units
<1> DEFINE k == ms * Hz
           n == k \div MsPerSec
<1>2. k \in Nat
  BY <1>1
<1>3. Ticks(ms) = n
  BY TicksExact
<1>4. n \in Nat /\ n * MsPerSec <= k
  <2> HIDE DEF k
  <2> QED BY <1>1, <1>2, Division
<1>5. n * Tick <= ms * UnitsPerMs
  <2> HIDE DEF n
  <2>1. (n * MsPerSec) * Tick <= k * Tick
    <3> HIDE DEF k
    <3> QED BY <1>1, <1>2, <1>4, TimesMono
  <2>2. k * Tick = (ms * UnitsPerMs) * MsPerSec
    <3>1. k * Tick = ms * (Tick * Hz)
      BY <1>1
    <3>2. ms * (UnitsPerMs * MsPerSec) = (ms * UnitsPerMs) * MsPerSec
      BY <1>1
    <3> QED BY <1>1, <3>1, <3>2, Zenon
  <2>3. (n * MsPerSec) * Tick = (n * Tick) * MsPerSec
    BY <1>1, <1>4
  <2>4. (n * Tick) * MsPerSec <= (ms * UnitsPerMs) * MsPerSec
    BY <2>1, <2>2, <2>3, Zenon
  <2>5. n * Tick \in Nat /\ ms * UnitsPerMs \in Nat
    BY <1>1, <1>4
  <2> QED BY <1>1, <2>4, <2>5, TimesCancel
<1> HIDE DEF n
<1> QED BY <1>3, <1>4, <1>5

\* A wait takes at least a tick, and otherwise no longer than asked for.
LEMMA WaitBounded ==
  ASSUME NEW ms \in Nat, ms <= Chunk * MsPerSec
  PROVE  /\ TaskTicks(ms) \in Nat \ {0}
         /\ TaskTicks(ms) = 1 \/ TaskTicks(ms) * Tick <= ms * UnitsPerMs
<1>1. Ticks(ms) \in Nat /\ Ticks(ms) * Tick <= ms * UnitsPerMs
  BY TicksBounded
<1>2. (TaskTicks(ms) = Ticks(ms) /\ Ticks(ms) >= 1) \/ TaskTicks(ms) = 1
  BY <1>1 DEF TaskTicks, Max2
<1> QED BY <1>1, <1>2

\* The random delay is shorter than a second.
LEMMA JitterBounded ==
  ASSUME NEW ms \in 0..MsPerSec - 1
  PROVE  Ticks(ms) \in Nat /\ Ticks(ms) * Tick < Sec
<1>1. /\ MsPerSec \in Nat \ {0} /\ UnitsPerMs \in Nat \ {0} /\ Chunk \in Nat \ {0}
      /\ Sec = UnitsPerMs * MsPerSec /\ Tick \in Nat \ {0}
  BY Units
<1>2. ms \in Nat /\ ms <= Chunk * MsPerSec
  <2>1. MsPerSec <= Chunk * MsPerSec
    BY <1>1
  <2> QED BY <1>1, <2>1
<1>3. Ticks(ms) \in Nat /\ Ticks(ms) * Tick <= ms * UnitsPerMs
  BY <1>2, TicksBounded
<1>4. ms * UnitsPerMs < Sec
  <2>1. Sec = ms * UnitsPerMs + (MsPerSec - ms) * UnitsPerMs
    BY <1>1
  <2>2. (MsPerSec - ms) * UnitsPerMs >= 1 /\ ms * UnitsPerMs \in Nat
    BY <1>1
  <2>3. (MsPerSec - ms) * UnitsPerMs \in Nat
    BY <1>1
  <2> QED BY <2>1, <2>2, <2>3
<1>5. Ticks(ms) * Tick \in Nat /\ ms * UnitsPerMs \in Nat /\ Sec \in Nat
  BY <1>1, <1>3
<1> QED BY <1>3, <1>4, <1>5

\* A delay ends after n ticks, the one under way included, and possibly late.
LEMMA DelayEnds ==
  ASSUME now \in Nat, NEW n \in Nat \ {0}, Delay(n)
  PROVE  /\ now' \in Nat /\ now < now'
         /\ now' <= now + n * Tick + Late
<1>1. Tick \in Nat \ {0} /\ Late \in Nat
  BY Units
<1>2. PICK late \in 0..Late: now' = (now \div Tick + n) * Tick + late
  BY DEF Delay
<1> DEFINE q == now \div Tick
           k == q * Tick
           l == n * Tick
<1>3. q \in Nat /\ k <= now /\ now < k + Tick
  BY <1>1, Division
<1>4. now' = k + l + late /\ k \in Nat /\ l \in Nat /\ l >= Tick
  <2> HIDE DEF q
  <2> QED BY <1>1, <1>2, <1>3 DEF q
<1> HIDE DEF k, l
<1>5. now' \in Nat /\ now < now' /\ now' <= now + l + Late
  BY <1>1, <1>2, <1>3, <1>4
<1> QED BY <1>5 DEF l

-----------------------------------------------------------------------------
(* The invariant.                                                          *)

WaitsTypes ==
  /\ pc \in {"request", "slot", "retry", "due"}
  /\ started \in Nat /\ ended \in Nat /\ now \in Nat
  /\ started <= ended /\ ended <= now
  /\ hold \in Nat /\ hold >= FirstBackoff
  /\ left \in Nat /\ due \in Nat

\* The worker's backoff is the one that doubles with every failure, capped.
BackoffDoubles == backoff = Min2(hold, MaxBackoff)

\* The wait for the slot is over as soon as the ticks allow.
SlotOnTime == pc = "slot" /\ now >= NextSlot => now < NextSlot + Tick + Late

\* While it waits after a failure, what is left of the wait and the ticks since the
\* end of the round add up.
RetryOnTime ==
  pc = "retry" =>
    /\ due >= 1 /\ left <= due
    /\ left = due => now = ended
    /\ left < due => \E late \in 0..Late:
                       now = (ended \div Tick + (due - left) * Hz) * Tick + late

\* After it and the random delay, less than a second of that has passed.
RetryOver ==
  pc = "due" => now - ended > due * Sec - Tick /\ now - ended < (due + 1) * Sec + Late

WaitsInv == WaitsTypes /\ BackoffDoubles /\ SlotOnTime /\ RetryOnTime /\ RetryOver

LEMMA Backoffs ==
  /\ FirstBackoff \in Nat /\ FirstBackoff >= 1 /\ MaxBackoff \in Nat
  /\ FirstBackoff <= MaxBackoff
<1>1. FirstBackoff \in Nat \ {0} /\ MaxBackoff \in FirstBackoff..Modulus - 1
  BY WaitsAssumption, Zenon
<1>2. Modulus \in Nat
  BY Units
<1> QED BY <1>1, <1>2

\* The next slot is the first one, counted from the start of the round, that comes
\* after the round's end.
LEMMA NextIsFirst ==
  ASSUME started \in Nat, ended \in Nat, started <= ended
  PROVE  NextSlot = FirstSlot /\ NextSlot \in Nat /\ NextSlot > ended
<1> DEFINE p == Period * Sec
           e == ended - started
           q == e \div p
           S == {s \in {started + k * Period * Sec: k \in 1..ended + 1}: s > ended}
           next == started + (q + 1) * p
<1>1. p \in Nat \ {0} /\ Period * Sec = p
  BY Units
<1>2. e \in Nat /\ e <= ended
  OBVIOUS
<1>3. NextSlot = next
  <2>1. Max2(ended - started, 0) = e
    BY DEF Max2
  <2> QED BY <2>1, Zenon DEF NextSlot
<1>4. q \in Nat /\ q * p <= e /\ e < q * p + p
  <2> HIDE DEF e, p
  <2> QED BY <1>1, <1>2, Division
<1>5. (q + 1) * p = q * p + p /\ q * p \in Nat
  <2> HIDE DEF q, p
  <2> QED BY <1>1, <1>4
<1>6. next \in Nat /\ next > ended
  <2> DEFINE k == q * p
             l == (q + 1) * p
  <2>1. l = k + p /\ k \in Nat /\ p \in Nat /\ k <= e /\ e < k + p
    BY <1>1, <1>4, <1>5
  <2>2. next = started + l
    OBVIOUS
  <2> HIDE DEF k, l, p, next
  <2> QED BY <2>1, <2>2
<1>7. q <= e
  <2>1. q <= q * p
    <3> HIDE DEF q, p
    <3> QED BY <1>1, <1>4
  <2> HIDE DEF q, p, e
  <2> QED BY <1>2, <1>4, <1>5, <2>1
<1>8. \A k \in Nat: k * Period * Sec = k * p
  <2>1. Period \in Nat /\ Sec \in Nat
    <3>1. Period \in Nat
      BY WaitsAssumption, Zenon
    <3> QED BY <3>1, Units
  <2> QED BY <2>1
<1>9. next \in S
  <2>1. q + 1 \in 1..ended + 1 /\ q + 1 \in Nat
    <3> HIDE DEF q, e
    <3> QED BY <1>2, <1>4, <1>7
  <2>2. next = started + (q + 1) * Period * Sec
    <3> HIDE DEF p, q
    <3> QED BY <1>8, <2>1
  <2> HIDE DEF next, q
  <2> QED BY <1>6, <2>1, <2>2
<1>10. ASSUME NEW s \in S PROVE next <= s
  <2>1. PICK k \in 1..ended + 1: s = started + k * Period * Sec
    OBVIOUS
  <2>2. k \in Nat /\ s = started + k * p /\ s > ended
    <3> HIDE DEF p
    <3> QED BY <1>8, <2>1
  <2>3. k >= q + 1
    <3> SUFFICES ASSUME k <= q PROVE FALSE
      <4> HIDE DEF q
      <4> QED BY <1>4, <2>2
    <3>1. k * p <= q * p /\ k * p \in Nat
      <4> HIDE DEF p, q
      <4> QED BY <1>1, <1>4, <2>2, TimesMono
    <3> DEFINE a == k * p
               b == q * p
    <3>2. a <= b /\ b <= e /\ s = started + a /\ a \in Nat /\ b \in Nat /\ s > ended
      BY <1>4, <1>5, <2>2, <3>1
    <3> HIDE DEF a, b
    <3> QED BY <3>2
  <2>4. (q + 1) * p <= k * p /\ (q + 1) * p \in Nat
    <3> HIDE DEF p, q
    <3> QED BY <1>1, <1>4, <2>2, <2>3, TimesMono
  <2> DEFINE a == (q + 1) * p
             b == k * p
  <2>5. next = started + a /\ s = started + b /\ a <= b /\ a \in Nat /\ b \in Nat
    <3>1. b \in Nat
      <4> HIDE DEF p
      <4> QED BY <1>1, <2>2
    <3> QED BY <2>2, <2>4, <3>1
  <2> HIDE DEF a, b, next
  <2> QED BY <2>5
<1>11. S \subseteq Nat
  <2> SUFFICES ASSUME NEW k \in 1..ended + 1 PROVE started + k * Period * Sec \in Nat
    BY Zenon
  <2>1. k * p \in Nat /\ k \in Nat
    <3> HIDE DEF p
    <3> QED BY <1>1
  <2> HIDE DEF p
  <2> QED BY <1>8, <2>1
<1>12. FirstSlot = next
  <2>1. FirstSlot = Min(S)
    BY Zenon DEF FirstSlot
  <2> HIDE DEF S, next
  <2>2. \A s \in S: (\A t \in S: s <= t) => s = next
    BY <1>6, <1>9, <1>10, <1>11
  <2>3. Min(S) \in S /\ \A t \in S: Min(S) <= t
    BY <1>9, <1>10, Zenon DEF Min
  <2> QED BY <2>1, <2>2, <2>3
<1> HIDE DEF next
<1> QED BY <1>3, <1>6, <1>12

LEMMA InitWaits == Init => WaitsInv
<1> SUFFICES ASSUME Init PROVE WaitsInv
  OBVIOUS
<1>1. now \in Nat
  BY Units DEF Init
<1>2. WaitsTypes
  BY <1>1, Backoffs DEF Init, WaitsTypes
<1>3. BackoffDoubles
  BY Backoffs DEF Init, BackoffDoubles, Min2
<1> QED
  BY <1>2, <1>3 DEF Init, WaitsInv, SlotOnTime, RetryOnTime, RetryOver

\* The same at the end of a step.
LEMMA NextAfterEnd ==
  (started \in Nat /\ ended \in Nat /\ started <= ended =>
     NextSlot \in Nat /\ NextSlot > ended)'
<1>1. started \in Nat /\ ended \in Nat /\ started <= ended =>
        NextSlot \in Nat /\ NextSlot > ended
  BY NextIsFirst
<1> QED
  BY <1>1, PTL

LEMMA SucceedWaits == WaitsInv /\ Succeed => WaitsInv'
<1> SUFFICES ASSUME WaitsInv, Succeed PROVE WaitsInv'
  OBVIOUS
<1>1. PICK d \in Durations: now' = now + d
  BY DEF Succeed
<1>2. d \in Nat
  BY WaitsAssumption, Zenon
<1>3. /\ ended' = now' /\ pc' = "slot" /\ backoff' = FirstBackoff /\ hold' = FirstBackoff
      /\ UNCHANGED <<started, left, due>>
  BY DEF Succeed
<1>4. WaitsTypes'
  BY <1>1, <1>2, <1>3, Backoffs DEF WaitsInv, WaitsTypes
<1>5. BackoffDoubles'
  BY <1>3, Backoffs DEF BackoffDoubles, Min2
<1>6. SlotOnTime'
  <2>1. NextSlot' > ended'
    BY <1>4, NextAfterEnd, Zenon DEF WaitsTypes
  <2>2. ended' = now' /\ now' \in Nat
    BY <1>3, <1>4 DEF WaitsTypes
  <2>3. NextSlot' \in Nat
    BY <1>4, NextAfterEnd, Zenon DEF WaitsTypes
  <2>4. ~(now' >= NextSlot')
    <3> DEFINE s == NextSlot'
               e == now'
    <3>1. s > e /\ s \in Nat /\ e \in Nat
      BY <2>1, <2>2, <2>3, Zenon
    <3> HIDE DEF s, e
    <3>2. ~(e >= s)
      BY <3>1
    <3> QED BY <3>2 DEF s, e
  <2> QED BY <2>4, Zenon DEF SlotOnTime
<1>7. RetryOnTime' /\ RetryOver'
  BY <1>3 DEF RetryOnTime, RetryOver
<1> QED
  BY <1>4, <1>5, <1>6, <1>7 DEF WaitsInv

LEMMA FailWaits == WaitsInv /\ Fail => WaitsInv'
<1> SUFFICES ASSUME WaitsInv, Fail PROVE WaitsInv'
  OBVIOUS
<1>1. PICK d \in Durations: now' = now + d
  BY DEF Fail
<1>2. d \in Nat
  BY WaitsAssumption, Zenon
<1>3. PICK value \in Headers, least \in Leasts:
        /\ left' = Max2(Max2(RetryAfterSeconds(value), least), backoff)
        /\ due' = Max2(Max2(Asked(value), least), Min2(hold, MaxBackoff))
  BY Zenon DEF Fail
<1>4. /\ ended' = now' /\ pc' = "retry" /\ UNCHANGED <<started, backoff, hold>>
  BY DEF Fail
<1>5. RetryAfterSeconds(value) = Asked(value) /\ Asked(value) \in Nat
  <2>1. value \in Seq(Nat)
    BY WaitsAssumption, Zenon
  <2>2. RetryAfterSeconds(value) = Asked(value) /\ Asked(value) \in 0..MaxRetry
    BY <2>1, RetryAfterExact, Zenon
  <2> QED BY <2>2, WidthPositive
<1>6. least \in Nat
  <2>1. Leasts \subseteq 0..Modulus - 1
    BY WaitsAssumption, Zenon
  <2> QED BY <2>1
<1>7. left' = due'
  BY <1>3, <1>5, Zenon DEF WaitsInv, BackoffDoubles
<1>8. left' \in Nat /\ left' >= 1
  <2>1. backoff \in Nat /\ backoff >= 1
    BY Backoffs DEF WaitsInv, WaitsTypes, BackoffDoubles, Min2
  <2> DEFINE a == Asked(value)
  <2>2. left' = Max2(Max2(a, least), backoff) /\ a \in Nat
    BY <1>3, <1>5
  <2> HIDE DEF a
  <2> QED BY <1>6, <2>1, <2>2 DEF Max2
<1>9. WaitsTypes'
  BY <1>1, <1>2, <1>4, <1>7, <1>8 DEF WaitsInv, WaitsTypes
<1>10. BackoffDoubles'
  BY <1>4 DEF WaitsInv, BackoffDoubles
<1>11. SlotOnTime'
  BY <1>4 DEF SlotOnTime
<1>12. RetryOnTime' /\ RetryOver'
  BY <1>4, <1>7, <1>8 DEF RetryOnTime, RetryOver
<1> QED
  BY <1>9, <1>10, <1>11, <1>12 DEF WaitsInv

LEMMA WaitSlotWaits == WaitsInv /\ WaitSlot => WaitsInv'
<1> SUFFICES ASSUME WaitsInv, WaitSlot PROVE WaitsInv'
  OBVIOUS
<1> DEFINE s == NextSlot
           ms == (s - now + UnitsPerMs - 1) \div UnitsPerMs
           m == Min2(ms, Chunk * MsPerSec)
           n == TaskTicks(m)
<1>1. /\ pc = "slot" /\ now < s /\ Delay(n)
      /\ UNCHANGED <<pc, started, backoff, left, ended, due, hold>>
  BY Zenon DEF WaitSlot
<1>2. now \in Nat /\ started \in Nat /\ ended \in Nat /\ started <= ended /\ ended <= now
  BY DEF WaitsInv, WaitsTypes
<1>3. s \in Nat /\ s' = s
  <2>1. NextSlot \in Nat
    BY <1>2, NextIsFirst
  <2>2. NextSlot' = NextSlot
    BY <1>1 DEF NextSlot
  <2> QED BY <2>1, <2>2
<1>4. /\ UnitsPerMs \in Nat \ {0} /\ Tick \in Nat \ {0} /\ UnitsPerMs <= Tick /\ Late \in Nat
      /\ Chunk * MsPerSec \in Nat
  BY Units
<1>5. ms \in Nat /\ ms * UnitsPerMs <= s - now + UnitsPerMs - 1
  <2> DEFINE a == s - now + UnitsPerMs - 1
  <2>1. a \in Nat
    <3> HIDE DEF s
    <3> QED BY <1>1, <1>2, <1>3, <1>4
  <2> HIDE DEF a
  <2>2. a \div UnitsPerMs \in Nat /\ (a \div UnitsPerMs) * UnitsPerMs <= a
    BY <1>4, <2>1, Division
  <2> QED BY <2>2 DEF a
<1>6. m \in Nat /\ m <= Chunk * MsPerSec /\ m <= ms
  <2> HIDE DEF ms
  <2> DEFINE c == Chunk * MsPerSec
  <2> HIDE DEF c
  <2>1. Min2(ms, c) \in Nat /\ Min2(ms, c) <= c /\ Min2(ms, c) <= ms
    BY <1>4, <1>5 DEF Min2, c
  <2> QED BY <2>1 DEF c
<1>7. n \in Nat \ {0} /\ (n = 1 \/ n * Tick <= m * UnitsPerMs)
  <2> HIDE DEF m
  <2> QED BY <1>6, WaitBounded, Zenon
<1>8. m * UnitsPerMs <= ms * UnitsPerMs /\ m * UnitsPerMs \in Nat
  <2> HIDE DEF m, ms
  <2> QED BY <1>4, <1>5, <1>6, TimesMono
<1>9. now' \in Nat /\ now < now' /\ now' <= now + n * Tick + Late
  <2> HIDE DEF n
  <2> QED BY <1>1, <1>2, <1>7, DelayEnds
<1>10. now' < s + Tick + Late
  <2> DEFINE l == n * Tick
             w == m * UnitsPerMs
             v == ms * UnitsPerMs
  <2>1. /\ l \in Nat /\ (l = Tick \/ l <= w) /\ w <= v /\ v <= s - now + UnitsPerMs - 1
        /\ now' <= now + l + Late /\ w \in Nat
    <3>1. l \in Nat /\ (l = Tick \/ l <= w)
      <4> HIDE DEF n, m
      <4> QED BY <1>4, <1>7
    <3> QED BY <1>5, <1>8, <1>9, <3>1
  <2>2. v \in Nat
    <3> HIDE DEF ms
    <3> QED BY <1>4, <1>5
  <2> HIDE DEF l, w, v, s
  <2> QED BY <1>1, <1>2, <1>3, <1>4, <1>9, <2>1, <2>2
<1> HIDE DEF s, n
<1>11. WaitsTypes'
  BY <1>1, <1>2, <1>9 DEF WaitsInv, WaitsTypes
<1>12. SlotOnTime'
  BY <1>1, <1>3, <1>10 DEF SlotOnTime, s
<1>13. BackoffDoubles' /\ RetryOnTime' /\ RetryOver'
  BY <1>1 DEF WaitsInv, BackoffDoubles, RetryOnTime, RetryOver
<1> QED
  BY <1>11, <1>12, <1>13 DEF WaitsInv

LEMMA WaitRetryWaits == WaitsInv /\ WaitRetry => WaitsInv'
<1> SUFFICES ASSUME WaitsInv, WaitRetry PROVE WaitsInv'
  OBVIOUS
<1> DEFINE part == Part
           n == TaskTicks(part * MsPerSec)
<1>1. /\ pc = "retry" /\ left > 0 /\ Delay(n) /\ left' = left - part
      /\ UNCHANGED <<pc, started, backoff, ended, due, hold>>
  BY Zenon DEF WaitRetry
<1>2. /\ now \in Nat /\ started \in Nat /\ ended \in Nat /\ started <= ended /\ ended <= now
      /\ left \in Nat /\ due \in Nat /\ left <= due
  BY <1>1 DEF WaitsInv, WaitsTypes, RetryOnTime
<1>3. /\ Tick \in Nat \ {0} /\ Late \in 0..Tick - 1 /\ Chunk \in Nat \ {0} /\ Hz \in Nat \ {0}
      /\ Chunk >= 1
  BY Units
<1>4. part \in 1..Chunk /\ part <= left
  BY <1>1, <1>2, <1>3 DEF Part, Min2
<1>5. n = part * Hz /\ n \in Nat \ {0}
  <2> HIDE DEF part
  <2>1. n = part * Hz
    BY <1>4, WholeSeconds
  <2>2. part * Hz \in Nat \ {0}
    BY <1>3, <1>4
  <2> QED BY <2>1, <2>2, Zenon
<1>6. now' \in Nat /\ now < now'
  <2> HIDE DEF n
  <2> QED BY <1>1, <1>2, <1>5, DelayEnds
<1> DEFINE e == ended \div Tick
           done == due - left
<1>7. now \div Tick = e + done * Hz
  <2>1. CASE left = due
    <3>1. now = ended /\ done = 0
      BY <1>1, <1>2, <2>1 DEF WaitsInv, RetryOnTime
    <3>2. e \in Nat
      BY <1>2, <1>3, Division
    <3>3. done * Hz = 0
      BY <1>3, <3>1
    <3> HIDE DEF done, e
    <3> QED BY <3>1, <3>2, <3>3 DEF e
  <2>2. CASE left < due
    <3>1. PICK late \in 0..Late: now = (e + done * Hz) * Tick + late
      BY <1>1, <2>2 DEF WaitsInv, RetryOnTime
    <3> DEFINE q == e + done * Hz
    <3>2. q \in Nat
      <4>1. e \in Nat
        BY <1>2, <1>3, Division
      <4>2. done \in Nat
        BY <1>2
      <4> HIDE DEF e, done
      <4> QED BY <1>3, <4>1, <4>2
    <3>3. (q * Tick + late) \div Tick = q
      <4> HIDE DEF q
      <4> QED BY <1>3, <3>2
    <3> QED BY <3>1, <3>3, Zenon
  <2> QED BY <1>2, <2>1, <2>2
<1>8. PICK late \in 0..Late: now' = (now \div Tick + n) * Tick + late
  BY <1>1, Zenon DEF Delay
<1>9. now' = (e + (due - left') * Hz) * Tick + late
  <2> DEFINE left2 == left - part
  <2>1. done * Hz + part * Hz = (due - left2) * Hz
    <3> HIDE DEF part
    <3> QED BY <1>2, <1>3, <1>4
  <2>2. e \in Nat
    BY <1>2, <1>3, Division
  <2> DEFINE a == done * Hz
             b == part * Hz
             c == (due - left2) * Hz
  <2>3. a \in Int /\ b \in Int /\ a + b = c
    <3>1. a \in Int
      BY <1>2, <1>3
    <3>2. b \in Int
      <4> HIDE DEF part
      <4> QED BY <1>3, <1>4
    <3> QED BY <2>1, <3>1, <3>2
  <2>4. now' = (e + a + b) * Tick + late
    <3> HIDE DEF e, a
    <3> QED BY <1>5, <1>7, <1>8, Zenon DEF a
  <2>5. e + a + b = e + c
    <3> HIDE DEF e, a, b, c
    <3> QED BY <2>2, <2>3
  <2>6. now' = (e + c) * Tick + late
    <3> HIDE DEF e, a, b, c
    <3> QED BY <2>4, <2>5, Zenon
  <2> QED BY <1>1, <2>6, Zenon
<1>10. left' \in Nat /\ left' < due
  <2> HIDE DEF part
  <2> QED BY <1>1, <1>2, <1>4
<1> HIDE DEF n, part
<1>11. WaitsTypes'
  BY <1>1, <1>2, <1>6, <1>10 DEF WaitsInv, WaitsTypes
<1>12. RetryOnTime'
  <2>1. due >= 1
    BY <1>1 DEF WaitsInv, RetryOnTime
  <2>2. due' = due /\ ended' = ended
    BY <1>1
  <2> QED BY <1>2, <1>9, <1>10, <2>1, <2>2 DEF RetryOnTime
<1>13. BackoffDoubles' /\ SlotOnTime' /\ RetryOver'
  BY <1>1 DEF WaitsInv, BackoffDoubles, SlotOnTime, RetryOver
<1> QED
  BY <1>11, <1>12, <1>13 DEF WaitsInv

LEMMA JitterWaits == WaitsInv /\ Jitter => WaitsInv'
<1> SUFFICES ASSUME WaitsInv, Jitter PROVE WaitsInv'
  OBVIOUS
<1>1. /\ pc = "retry" /\ left = 0 /\ pc' = "due"
      /\ UNCHANGED <<started, backoff, left, ended, due, hold>>
  BY DEF Jitter
<1>2. PICK ms \in 0..MsPerSec - 1: IF Ticks(ms) = 0 THEN now' = now ELSE Delay(Ticks(ms))
  BY DEF Jitter
<1>3. /\ due \in Nat /\ due >= 1 /\ ended \in Nat /\ now \in Nat /\ ended <= now
  BY <1>1 DEF WaitsInv, WaitsTypes, RetryOnTime
<1>4. /\ Tick \in Nat \ {0} /\ Hz \in Nat \ {0} /\ Late \in 0..Tick - 1 /\ Sec = Tick * Hz
      /\ Sec \in Nat
  BY Units
<1> DEFINE e == ended \div Tick
           k == e * Tick
           l == due * Sec
           q == e + due * Hz
           n == Ticks(ms)
           m == n * Tick
<1>5. n \in Nat /\ m < Sec
  BY <1>2, JitterBounded
<1>6. PICK late \in 0..Late: now = q * Tick + late
  BY <1>1, <1>3 DEF WaitsInv, RetryOnTime
<1>7. e \in Nat /\ k <= ended /\ ended < k + Tick
  BY <1>3, <1>4, Division
<1>8. q * Tick = k + l /\ k \in Nat /\ l \in Nat
  <2>1. q * Tick = e * Tick + due * (Tick * Hz)
    <3> HIDE DEF e
    <3> QED BY <1>3, <1>4, <1>7
  <2>2. k \in Nat
    <3> HIDE DEF e
    <3> QED BY <1>4, <1>7
  <2>3. l \in Nat
    BY <1>3, <1>4
  <2> QED BY <1>4, <2>1, <2>2, <2>3, Zenon
<1>9. q \in Nat
  <2> HIDE DEF e
  <2> QED BY <1>3, <1>4, <1>7
<1>10. now \div Tick = q
  <2> HIDE DEF q
  <2> QED BY <1>4, <1>6, <1>9
<1>11. (q + n) * Tick = k + l + m /\ m \in Nat
  <2>1. (q + n) * Tick = q * Tick + n * Tick /\ n * Tick \in Nat
    <3> HIDE DEF q, n
    <3> QED BY <1>4, <1>5, <1>9
  <2> QED BY <1>8, <2>1, Zenon
<1>12. \E last \in 0..Late: now' = k + l + m + last
  <2>1. CASE n = 0
    <3>1. m = 0
      BY <1>4, <2>1
    <3>2. now' = k + l + late
      BY <1>2, <1>6, <1>8, <2>1, Zenon
    <3> HIDE DEF k, l, m
    <3> QED BY <1>8, <3>1, <3>2
  <2>2. CASE n # 0
    <3>1. PICK last \in 0..Late: now' = (q + n) * Tick + last
      BY <1>2, <1>10, <2>2, Zenon DEF Delay
    <3> QED BY <1>11, <3>1, Zenon
  <2> QED BY <2>1, <2>2
<1>13. (due + 1) * Sec = l + Sec
  BY <1>3, <1>4
<1> HIDE DEF k, l, m
<1>14. now' \in Nat /\ ended <= now' /\ now' - ended > l - Tick /\ now' - ended < l + Sec + Late
  BY <1>3, <1>4, <1>5, <1>7, <1>8, <1>11, <1>12
<1>15. WaitsTypes'
  BY <1>1, <1>14 DEF WaitsInv, WaitsTypes
<1>16. RetryOver'
  BY <1>1, <1>13, <1>14 DEF RetryOver, l
<1>17. BackoffDoubles' /\ SlotOnTime' /\ RetryOnTime'
  BY <1>1 DEF WaitsInv, BackoffDoubles, SlotOnTime, RetryOnTime
<1> QED
  BY <1>15, <1>16, <1>17 DEF WaitsInv

LEMMA RoundWaits ==
  ASSUME WaitsTypes, NEW t \in Nat, Round(t), left' = left, hold' \in Nat, hold' >= FirstBackoff
  PROVE  WaitsTypes' /\ SlotOnTime' /\ RetryOnTime' /\ RetryOver'
<1>1. t % Tick \in Nat
  BY Units
<1>2. pc' = "request" /\ started' = t % Tick /\ ended' = started' /\ now' = started' /\ due' = 0
  BY DEF Round
<1>3. WaitsTypes'
  BY <1>1, <1>2 DEF WaitsTypes
<1> QED
  BY <1>2, <1>3 DEF SlotOnTime, RetryOnTime, RetryOver

LEMMA StepWaits == WaitsInv /\ [Next]_vars => WaitsInv'
<1> SUFFICES ASSUME WaitsInv, [Next]_vars PROVE WaitsInv'
  OBVIOUS
<1>1. CASE Succeed
  BY <1>1, SucceedWaits
<1>2. CASE Fail
  BY <1>2, FailWaits
<1>3. CASE WaitSlot
  BY <1>3, WaitSlotWaits
<1>4. CASE WaitRetry
  BY <1>4, WaitRetryWaits
<1>5. CASE SlotDue
  <2>1. now \in Nat /\ Round(now) /\ UNCHANGED <<backoff, left, hold>>
    BY <1>5 DEF SlotDue, WaitsInv, WaitsTypes
  <2>2. WaitsTypes' /\ SlotOnTime' /\ RetryOnTime' /\ RetryOver'
    BY <2>1, RoundWaits DEF WaitsInv, WaitsTypes
  <2>3. BackoffDoubles'
    BY <2>1 DEF WaitsInv, BackoffDoubles
  <2> QED BY <2>2, <2>3 DEF WaitsInv
<1>6. CASE RetryDue
  <2>1. PICK t \in 0..Tick - 1: Round(t)
    BY <1>6 DEF RetryDue
  <2>2. /\ left' = left
        /\ hold' = IF hold < MaxBackoff THEN 2 * hold ELSE hold
        /\ backoff' = IF backoff >= MaxBackoff THEN backoff
                      ELSE IF backoff > MaxBackoff \div 2 THEN MaxBackoff ELSE backoff * 2
    BY <1>6 DEF RetryDue
  <2>3. hold \in Nat /\ hold >= FirstBackoff /\ backoff = Min2(hold, MaxBackoff)
    BY DEF WaitsInv, WaitsTypes, BackoffDoubles
  <2>4. hold' \in Nat /\ hold' >= FirstBackoff
    BY <2>2, <2>3, Backoffs
  <2>5. WaitsTypes' /\ SlotOnTime' /\ RetryOnTime' /\ RetryOver'
    <3>1. t \in Nat
      BY Units
    <3> QED BY <2>1, <2>2, <2>4, <3>1, RoundWaits DEF WaitsInv
  <2>6. backoff' = Min2(hold', MaxBackoff)
    <3> DEFINE h == MaxBackoff \div 2
    <3>1. h \in Nat /\ 2 * h <= MaxBackoff /\ MaxBackoff < 2 * h + 2
      BY Backoffs
    <3> HIDE DEF h
    <3>2. backoff' = IF backoff >= MaxBackoff THEN backoff
                     ELSE IF backoff > h THEN MaxBackoff ELSE backoff * 2
      BY <2>2 DEF h
    <3> QED BY <2>2, <2>3, <3>1, <3>2, Backoffs DEF Min2
  <2> QED BY <2>5, <2>6 DEF WaitsInv, BackoffDoubles
<1>7. CASE Jitter
  BY <1>7, JitterWaits
<1>8. CASE UNCHANGED vars
  <2>1. NextSlot' = NextSlot
    BY <1>8 DEF vars, NextSlot
  <2> QED
    BY <1>8, <2>1
    DEF vars, WaitsInv, WaitsTypes, BackoffDoubles, SlotOnTime, RetryOnTime, RetryOver
<1> QED
  BY <1>1, <1>2, <1>3, <1>4, <1>5, <1>6, <1>7, <1>8 DEF Next

-----------------------------------------------------------------------------
\* The invariant holds in every reachable state.
THEOREM WaitsInvariant == Spec => []WaitsInv
<1>1. WaitsInv /\ [Next]_vars => WaitsInv'
  BY StepWaits
<1> QED
  BY <1>1, InitWaits, PTL DEF Spec

\* After a success the next round starts in the first slot after the end of the
\* last one, at most a tick and the task's lateness after it.
THEOREM StaysOnCadence == Spec => OnCadence
<1>1. WaitsInv /\ [Next]_vars =>
        [SlotDue => now >= FirstSlot /\ now < FirstSlot + Tick + Late]_vars
  <2> SUFFICES ASSUME WaitsInv, SlotDue
               PROVE  now >= FirstSlot /\ now < FirstSlot + Tick + Late
    OBVIOUS
  <2>1. FirstSlot = NextSlot
    BY NextIsFirst DEF WaitsInv, WaitsTypes
  <2> QED BY <2>1 DEF SlotDue, WaitsInv, SlotOnTime
<1> QED
  BY <1>1, WaitsInvariant, PTL DEF Spec, OnCadence

\* After a failure the worker is silent for as long as the server asked and its
\* own doubling backoff demands, to the tick, and ready again within the second of
\* the random delay after that.
THEOREM RetriesInTime == Spec => RetriesOnTime
<1>1. WaitsInv /\ [Next]_vars =>
        [RetryDue => /\ now - ended > due * Sec - Tick
                     /\ now - ended < (due + 1) * Sec + Late]_vars
  BY DEF RetryDue, WaitsInv, RetryOver
<1> QED
  BY <1>1, WaitsInvariant, PTL DEF Spec, RetriesOnTime

=============================================================================
