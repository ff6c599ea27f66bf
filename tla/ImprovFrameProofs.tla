-------------------------- MODULE ImprovFrameProofs --------------------------
(***************************************************************************)
(* The frame buffer never overflows, what the client encodes is what the   *)
(* device understands, and whatever is on the line, the device understands *)
(* nothing else: for every prefix, every size of a byte, every length of   *)
(* names and passwords, and any amount of noise.                           *)
(***************************************************************************)
EXTENDS ImprovFrame, SequenceTheorems, TLAPS

\* A frame longer than the prefix and its length byte is still incomplete.
FrameInv ==
  /\ frame \in Seq(Bytes)
  /\ Len(frame) > P => Len(frame) < frame[P + 1] + P + 2

LEMMA Sizes == P \in Nat /\ P > 0 /\ Modulus \in Nat /\ Prefix \in Seq(Bytes) /\ Bytes \subseteq Nat
  BY FrameAssumption DEF P, Bytes

LEMMA InitFrame == Init => FrameInv
  BY Sizes DEF Init, FrameInv

LEMMA FeedFrame ==
  ASSUME FrameInv, NEW byte \in Alphabet, NEW paused, Feed(byte, paused)
  PROVE  FrameInv'
<1> DEFINE before == Kept(paused)
           bytes == Append(before, byte)
<1> HIDE DEF before, bytes
<1>1. byte \in Bytes
  BY FrameAssumption
<1>2. before \in Seq(Bytes) /\ (Len(before) > P => Len(before) < before[P + 1] + P + 2)
  BY Sizes DEF FrameInv, Kept, before
<1>3. /\ bytes \in Seq(Bytes) /\ Len(bytes) = Len(before) + 1
      /\ \A i \in 1..Len(before): bytes[i] = before[i]
      /\ bytes[Len(before) + 1] = byte
  BY <1>1, <1>2 DEF bytes
<1>4. CASE frame' = <<>>
  BY <1>4, Sizes DEF FrameInv
<1>5. CASE frame' = <<byte>>
  BY <1>1, <1>5, Sizes DEF FrameInv
<1>6. CASE frame' = bytes /\ ~Whole(bytes)
  <2>1. ASSUME Len(bytes) > P PROVE Len(bytes) < bytes[P + 1] + P + 2
    <3>1. /\ Len(before) \in Nat /\ Len(bytes) \in Nat /\ Len(bytes) = Len(before) + 1
          /\ P + 1 \in 1..Len(bytes)
      BY <1>2, <1>3, <2>1, Sizes
    <3>2. bytes[P + 1] \in Nat
      <4>1. bytes[P + 1] \in Bytes
        BY <1>3, <3>1
      <4> QED
        BY <4>1, Sizes
    <3>3. CASE Len(before) > P
      <4>1. bytes[P + 1] = before[P + 1]
        BY <1>3, <3>1, <3>3, Sizes
      <4>2. Len(before) < bytes[P + 1] + P + 2
        BY <1>2, <3>3, <4>1
      <4>3. ~(Len(bytes) = bytes[P + 1] + P + 2) \/ ~(Len(bytes) >= P + 2)
        BY <1>6, <3>2, Sizes DEF Whole
      <4> QED
        BY <3>1, <3>2, <3>3, <4>2, <4>3, Sizes
    <3>4. CASE ~(Len(before) > P)
      BY <1>3, <2>1, <3>1, <3>2, <3>4, Sizes
    <3> QED
      BY <3>3, <3>4
  <2> QED
    BY <1>3, <1>6, <2>1 DEF FrameInv
<1> QED
  BY <1>4, <1>5, <1>6 DEF Feed, before, bytes

\* The buffer never overflows, whatever bytes come (improv_feed).
THEOREM FramesFit == Spec => []FrameFits
<1>1. FrameInv => FrameFits
  <2> SUFFICES ASSUME FrameInv PROVE Len(frame) < P + 1 + Modulus
    BY DEF FrameFits
  <2>1. Len(frame) \in Nat
    BY DEF FrameInv
  <2>2. CASE Len(frame) > P
    <3>1. frame[P + 1] \in Bytes /\ frame[P + 1] \in Nat
      <4>1. P + 1 \in 1..Len(frame) /\ frame \in Seq(Bytes)
        BY <2>1, <2>2, Sizes DEF FrameInv
      <4>2. frame[P + 1] \in Bytes
        BY <4>1
      <4> QED
        BY <4>2, Sizes DEF Bytes
    <3>2. frame[P + 1] <= Modulus - 1
      BY <3>1, Sizes DEF Bytes
    <3> QED
      BY <2>1, <2>2, <3>1, <3>2, Sizes DEF FrameInv
  <2>3. CASE ~(Len(frame) > P)
    BY <2>1, <2>3, FrameAssumption, Sizes
  <2> QED
    BY <2>2, <2>3
<1>2. FrameInv /\ [Next]_vars => FrameInv'
  <2>1. FrameInv /\ Next => FrameInv'
    BY FeedFrame DEF Next
  <2>2. FrameInv /\ UNCHANGED vars => FrameInv'
    BY DEF FrameInv, vars
  <2> QED
    BY <2>1, <2>2
<1> QED
  BY <1>1, <1>2, InitFrame, PTL DEF Spec

-----------------------------------------------------------------------------
(* What the client sends is what the device understands.                   *)

\* A checksum at the end of a sequence, and what is left without it.
LEMMA Checked ==
  ASSUME NEW S, NEW b \in Seq(S), NEW x
  PROVE  /\ Last(Append(b, x)) = x /\ Front(Append(b, x)) = b
         /\ Len(Append(b, x)) = Len(b) + 1
         /\ \A i \in 1..Len(b): Append(b, x)[i] = b[i]
<1> DEFINE T == S \cup {x}
           c == Append(b, x)
<1>1. b \in Seq(T) /\ x \in T
  OBVIOUS
<1>2. /\ c \in Seq(T) /\ Len(c) = Len(b) + 1 /\ Len(b) \in Nat
      /\ \A i \in 1..Len(b): c[i] = b[i]
      /\ c[Len(b) + 1] = x
  BY <1>1
<1>3. SubSeq(c, 1, Len(b)) = b
  <2>1. \A i \in 1..Len(b): c[i] \in T
    BY <1>1, <1>2
  <2>2. /\ SubSeq(c, 1, Len(b)) \in Seq(T)
        /\ Len(SubSeq(c, 1, Len(b))) = IF 1 <= Len(b) THEN Len(b) - 1 + 1 ELSE 0
        /\ \A i \in 1..Len(b) - 1 + 1: SubSeq(c, 1, Len(b))[i] = c[1 + i - 1]
    BY <1>2, <2>1
  <2>3. Len(SubSeq(c, 1, Len(b))) = Len(b)
    BY <1>2, <2>2
  <2>4. \A i \in 1..Len(SubSeq(c, 1, Len(b))): SubSeq(c, 1, Len(b))[i] = b[i]
    BY <1>2, <2>2, <2>3
  <2> QED
    BY <1>1, <2>2, <2>3, <2>4, SeqEqual
<1> QED
  BY <1>2, <1>3 DEF Last, Front

\* One sequence after another.
LEMMA Joined ==
  ASSUME NEW a \in Seq(Nat), NEW b \in Seq(Nat)
  PROVE  /\ a \o b \in Seq(Nat) /\ Len(a \o b) = Len(a) + Len(b)
         /\ Len(a) \in Nat /\ Len(b) \in Nat
         /\ \A i \in 1..Len(a): (a \o b)[i] = a[i]
         /\ \A i \in 1..Len(b): (a \o b)[Len(a) + i] = b[i]
  OBVIOUS

\* The part of c that b is.
LEMMA Middle ==
  ASSUME NEW S, NEW b \in Seq(S), NEW c, NEW k \in Nat, NEW m \in Int, NEW n \in Int,
         m = k + 1, n = k + Len(b), \A i \in 1..Len(b): c[k + i] = b[i]
  PROVE  SubSeq(c, m, n) = b
<1>1. Len(b) \in Nat
  OBVIOUS
<1>2. \A i \in m..n: c[i] \in S
  <2> TAKE i \in m..n
  <2>1. i - k \in 1..Len(b)
    BY <1>1
  <2>2. c[k + (i - k)] = b[i - k]
    BY <2>1
  <2> QED
    BY <1>1, <2>1, <2>2
<1>3. /\ SubSeq(c, m, n) \in Seq(S)
      /\ Len(SubSeq(c, m, n)) = IF m <= n THEN n - m + 1 ELSE 0
      /\ \A i \in 1..n - m + 1: SubSeq(c, m, n)[i] = c[m + i - 1]
  BY <1>2
<1>4. Len(SubSeq(c, m, n)) = Len(b) /\ n - m + 1 = Len(b)
  BY <1>1, <1>3
<1>5. \A i \in 1..Len(SubSeq(c, m, n)): SubSeq(c, m, n)[i] = b[i]
  <2> TAKE i \in 1..Len(SubSeq(c, m, n))
  <2>1. m + i - 1 = k + i /\ i \in 1..Len(b)
    BY <1>1, <1>4
  <2> QED
    BY <1>3, <1>4, <2>1
<1> QED
  BY <1>3, <1>4, <1>5, SeqEqual

\* A whole frame of data is complete with its checksum, and is taken for that data.
LEMMA Encoding ==
  ASSUME NEW data \in Seq(Nat)
  PROVE  Whole(Encode(data)) /\ Complete(Encode(data)) = Dispatch(data)
<1> DEFINE head == Prefix \o <<Len(data)>>
           body == head \o data
           f == Encode(data)
<1> HIDE DEF head, body, f
<1>1. Prefix \in Seq(Nat) /\ P \in Nat /\ Len(Prefix) = P /\ Len(data) \in Nat
  BY Sizes DEF P, Bytes
<1>2. head \in Seq(Nat) /\ Len(head) = P + 1 /\ head[P + 1] = Len(data)
  <2>1. <<Len(data)>> \in Seq(Nat) /\ Len(<<Len(data)>>) = 1 /\ <<Len(data)>>[1] = Len(data)
    BY <1>1
  <2>2. /\ head \in Seq(Nat) /\ Len(head) = P + 1
        /\ \A i \in 1..1: head[P + i] = <<Len(data)>>[i]
    BY <1>1, <2>1, Joined DEF head
  <2> QED
    BY <1>1, <2>1, <2>2
<1>3. /\ body \in Seq(Nat) /\ Len(body) = P + 1 + Len(data)
      /\ \A i \in 1..P + 1: body[i] = head[i]
      /\ \A i \in 1..Len(data): body[P + 1 + i] = data[i]
  <2>1. /\ body \in Seq(Nat) /\ Len(body) = Len(head) + Len(data)
        /\ \A i \in 1..Len(head): body[i] = head[i]
        /\ \A i \in 1..Len(data): body[Len(head) + i] = data[i]
    BY <1>2, Joined DEF body
  <2> QED
    BY <1>1, <1>2, <2>1
<1>4. /\ Len(f) = P + 2 + Len(data) /\ Last(f) = Sum(body) /\ Front(f) = body
      /\ \A i \in 1..P + 1 + Len(data): f[i] = body[i]
  <2>1. f = Append(body, Sum(body))
    BY DEF Encode, head, body, f
  <2>2. /\ Len(f) = Len(body) + 1 /\ Last(f) = Sum(body) /\ Front(f) = body
        /\ \A i \in 1..Len(body): f[i] = body[i]
    BY <1>3, <2>1, Checked
  <2> QED
    BY <1>1, <1>3, <2>2
<1>5. f[P + 1] = Len(data) /\ \A i \in 1..Len(data): f[P + 1 + i] = data[i]
  <2>1. P + 1 \in 1..P + 1 + Len(data) /\ P + 1 \in 1..P + 1
    BY <1>1
  <2>2. \A i \in 1..Len(data): P + 1 + i \in 1..P + 1 + Len(data)
    BY <1>1
  <2> QED
    BY <1>2, <1>3, <1>4, <2>1, <2>2
<1>6. Whole(f)
  BY <1>1, <1>4, <1>5 DEF Whole
<1>7. SubSeq(f, P + 2, Len(f) - 1) = data
  <2>1. /\ P + 2 = P + 1 + 1 /\ Len(f) - 1 = P + 1 + Len(data)
        /\ P + 1 \in Nat /\ P + 2 \in Int /\ Len(f) - 1 \in Int
    BY <1>1, <1>4
  <2> QED
    BY <1>5, <2>1, Middle
<1> QED
  BY <1>4, <1>6, <1>7 DEF Complete, f

\* A string behind its length.
LEMMA FieldFacts ==
  ASSUME NEW s \in Seq(Nat)
  PROVE  /\ Field(s) \in Seq(Nat) /\ Len(Field(s)) = 1 + Len(s) /\ Len(s) \in Nat
         /\ Field(s)[1] = Len(s) /\ \A i \in 1..Len(s): Field(s)[1 + i] = s[i]
<1> DEFINE head == <<Len(s)>>
<1>1. head \in Seq(Nat) /\ Len(head) = 1 /\ head[1] = Len(s) /\ Len(s) \in Nat /\ 1 \in 1..1
  OBVIOUS
<1>2. Field(s) = head \o s
  BY DEF Field
<1> HIDE DEF head
<1>3. /\ head \o s \in Seq(Nat) /\ Len(head \o s) = Len(head) + Len(s)
      /\ \A i \in 1..Len(head): (head \o s)[i] = head[i]
      /\ \A i \in 1..Len(s): (head \o s)[Len(head) + i] = s[i]
  BY <1>1, Joined
<1> QED
  BY <1>1, <1>2, <1>3

\* A string with its length byte is taken from the front of what follows.
LEMMA Taken ==
  ASSUME NEW max \in Nat, NEW s \in Seq(Nat \ {0}), Len(s) <= max, NEW rest \in Seq(Nat)
  PROVE  TakeString(Field(s) \o rest, max) = [ok |-> TRUE, string |-> s, left |-> rest]
<1> DEFINE g == Field(s)
           d == g \o rest
<1> HIDE DEF g, d
<1>1. s \in Seq(Nat) /\ Len(s) \in Nat /\ Len(rest) \in Nat
  OBVIOUS
<1>2. /\ g \in Seq(Nat) /\ Len(g) = 1 + Len(s) /\ g[1] = Len(s)
      /\ \A i \in 1..Len(s): g[1 + i] = s[i]
  BY <1>1, FieldFacts DEF g
<1>3. /\ d \in Seq(Nat) /\ Len(d) = 1 + Len(s) + Len(rest)
      /\ \A i \in 1..1 + Len(s): d[i] = g[i]
      /\ \A i \in 1..Len(rest): d[1 + Len(s) + i] = rest[i]
  <2>1. /\ d \in Seq(Nat) /\ Len(d) = Len(g) + Len(rest)
        /\ \A i \in 1..Len(g): d[i] = g[i]
        /\ \A i \in 1..Len(rest): d[Len(g) + i] = rest[i]
    BY <1>2, Joined DEF d
  <2> QED
    BY <1>1, <1>2, <2>1
<1>4. d[1] = Len(s) /\ \A i \in 1..Len(s): d[1 + i] = s[i]
  <2>1. 1 \in 1..1 + Len(s) /\ \A i \in 1..Len(s): 1 + i \in 1..1 + Len(s)
    BY <1>1
  <2> QED
    BY <1>2, <1>3, <2>1
<1>5. d # <<>> /\ ~(d[1] > max) /\ ~(d[1] > Len(d) - 1)
  BY <1>1, <1>3, <1>4
<1>6. ~\E i \in 2..d[1] + 1: d[i] = 0
  <2> SUFFICES ASSUME NEW i \in 2..Len(s) + 1 PROVE d[i] # 0
    BY <1>4
  <2>1. i - 1 \in 1..Len(s) /\ 1 + (i - 1) = i
    BY <1>1
  <2>2. d[i] = s[i - 1]
    BY <1>4, <2>1
  <2> QED
    BY <2>1, <2>2
<1>7. SubSeq(d, 2, d[1] + 1) = s
  <2>1. 2 = 1 + 1 /\ d[1] + 1 = 1 + Len(s) /\ d[1] + 1 \in Int
    BY <1>1, <1>4
  <2> QED
    BY <1>4, <2>1, Middle
<1>8. SubSeq(d, d[1] + 2, Len(d)) = rest
  <2> DEFINE k == 1 + Len(s)
             m == d[1] + 2
             n == Len(d)
  <2>1. k \in Nat /\ m \in Int /\ n \in Int /\ m = k + 1 /\ n = k + Len(rest)
    BY <1>1, <1>3, <1>4
  <2>2. \A i \in 1..Len(rest): d[k + i] = rest[i]
    BY <1>3
  <2> HIDE DEF k, m, n
  <2>3. SubSeq(d, m, n) = rest
    BY <2>1, <2>2, Middle
  <2> QED
    BY <2>3 DEF m, n
<1> QED
  BY <1>5, <1>6, <1>7, <1>8 DEF TakeString, g, d

\* Networks and passwords come through as they were sent, up to the longest ones,
\* and without a byte being mistaken for a length (improv_feed, take_string).
THEOREM RoundTrip ==
  ASSUME NEW ssid \in Seq(Nat \ {0}), NEW password \in Seq(Nat \ {0}),
         ssid # <<>>, Len(ssid) <= SsidMax, Len(password) <= PassMax
  PROVE  LET f == EncodeWifi(ssid, password)
         IN Whole(f) /\ Complete(f) = Command("wifi", ssid, password)
<1> DEFINE fields == Field(ssid) \o Field(password)
           data == <<1, Len(fields)>> \o fields
<1> HIDE DEF fields, data
<1>1. SsidMax \in Nat /\ PassMax \in Nat
  BY FrameAssumption
<1>2. \A s \in Seq(Nat \ {0}): Field(s) \in Seq(Nat)
  <2> TAKE s \in Seq(Nat \ {0})
  <2>1. s \in Seq(Nat) /\ <<Len(s)>> \in Seq(Nat)
    OBVIOUS
  <2> QED
    BY <2>1 DEF Field
<1>3. /\ Field(password) \in Seq(Nat) /\ fields \in Seq(Nat) /\ Len(fields) \in Nat
      /\ Field(password) \o <<>> = Field(password)
  BY <1>2 DEF fields
<1>4. WifiSettings(fields) = Command("wifi", ssid, password)
  <2>1. TakeString(fields, SsidMax) = [ok |-> TRUE, string |-> ssid, left |-> Field(password)]
    BY <1>1, <1>3, Taken DEF fields
  <2>2. <<>> \in Seq(Nat)
    OBVIOUS
  <2>3. TakeString(Field(password) \o <<>>, PassMax) =
          [ok |-> TRUE, string |-> password, left |-> <<>>]
    BY <1>1, <2>2, Taken
  <2> QED
    BY <1>3, <2>1, <2>3 DEF WifiSettings, None
<1>5. /\ data \in Seq(Nat) /\ Len(data) = 2 + Len(fields)
      /\ data[1] = 1 /\ data[2] = Len(fields)
      /\ \A i \in 1..Len(fields): data[2 + i] = fields[i]
  <2> DEFINE start == <<1, Len(fields)>>
  <2>1. start \in Seq(Nat) /\ Len(start) = 2 /\ start[1] = 1 /\ start[2] = Len(fields)
    BY <1>3
  <2>2. data = start \o fields
    BY DEF data
  <2> HIDE DEF start
  <2>3. /\ data \in Seq(Nat) /\ Len(data) = 2 + Len(fields)
        /\ \A i \in 1..2: data[i] = start[i]
        /\ \A i \in 1..Len(fields): data[2 + i] = fields[i]
    <3>1. /\ data \in Seq(Nat) /\ Len(data) = Len(start) + Len(fields)
          /\ \A i \in 1..Len(start): data[i] = start[i]
          /\ \A i \in 1..Len(fields): data[Len(start) + i] = fields[i]
      BY <1>3, <2>1, <2>2, Joined
    <3> QED
      BY <1>3, <2>1, <3>1
  <2>4. 1 \in 1..2 /\ 2 \in 1..2
    OBVIOUS
  <2> QED
    BY <2>1, <2>3, <2>4
<1>6. SubSeq(data, 3, Len(data)) = fields
  <2>1. 3 = 2 + 1 /\ Len(data) \in Int
    BY <1>3, <1>5
  <2> QED
    BY <1>3, <1>5, <2>1, Middle
<1>7. Dispatch(data) = WifiSettings(fields)
  <2>1. ~(Len(data) < 2) /\ Len(data) - 2 = Len(fields)
    BY <1>3, <1>5
  <2>2. ~(Len(data) < 2) /\ data[2] = Len(data) - 2 /\ data[1] = 1
    BY <1>5, <2>1
  <2> QED
    BY Zenon, <1>6, <2>2 DEF Dispatch
<1> QED
  BY <1>4, <1>5, <1>7, Encoding DEF EncodeWifi, fields, data

-----------------------------------------------------------------------------
(* What the device understands is what a client encoded.                   *)

LEMMA Octets ==
  ASSUME NEW s \in Seq(Alphabet)
  PROVE  /\ s \in Seq(Nat) /\ Len(s) \in Nat
         /\ \A i \in 1..Len(s): s[i] \in Alphabet /\ s[i] \in Bytes /\ s[i] \in Nat
<1>1. Alphabet \subseteq Bytes /\ Bytes \subseteq Nat
  BY FrameAssumption, Sizes
<1>2. Len(s) \in Nat /\ \A i \in 1..Len(s): s[i] \in Alphabet
  OBVIOUS
<1>3. s \in Seq(Nat)
  <2>1. Alphabet \subseteq Nat
    BY <1>1
  <2> QED
    BY <2>1, SeqMonotonic
<1> QED
  BY <1>1, <1>2, <1>3

\* The n elements of c behind the first k.
LEMMA Part ==
  ASSUME NEW S, NEW c \in Seq(S), NEW k \in Nat, NEW n \in Nat, k + n <= Len(c),
         NEW m \in Int, NEW l \in Int, m = k + 1, l = k + n
  PROVE  /\ SubSeq(c, m, l) \in Seq(S) /\ Len(SubSeq(c, m, l)) = n
         /\ \A i \in 1..n: SubSeq(c, m, l)[i] = c[k + i]
<1>1. Len(c) \in Nat
  BY LenProperties
<1>2. \A i \in m..l: c[i] \in S
  <2> TAKE i \in m..l
  <2>1. i \in 1..Len(c)
    BY <1>1
  <2> QED
    BY <2>1, ElementOfSeq
<1> DEFINE part == SubSeq(c, m, l)
<1>3. /\ part \in Seq(S) /\ Len(part) = IF m <= l THEN l - m + 1 ELSE 0
      /\ \A i \in 1..l - m + 1: part[i] = c[m + i - 1]
  BY <1>2, SubSeqProperties
<1> HIDE DEF part
<1>4. l - m + 1 = n /\ (IF m <= l THEN l - m + 1 ELSE 0) = n
  OBVIOUS
<1>5. \A i \in 1..n: part[i] = c[k + i]
  <2> TAKE i \in 1..n
  <2>1. i \in 1..l - m + 1 /\ m + i - 1 = k + i
    BY <1>4
  <2> QED
    BY <1>3, <2>1
<1> QED
  BY <1>3, <1>4, <1>5 DEF part

\* A sequence that starts like a and goes on like b.
LEMMA Put ==
  ASSUME NEW a \in Seq(Nat), NEW b \in Seq(Nat), NEW c \in Seq(Nat),
         Len(c) = Len(a) + Len(b), \A i \in 1..Len(a): c[i] = a[i],
         \A i \in 1..Len(b): c[Len(a) + i] = b[i]
  PROVE  c = a \o b
<1> DEFINE d == a \o b
<1>1. /\ d \in Seq(Nat) /\ Len(d) = Len(a) + Len(b) /\ Len(a) \in Nat /\ Len(b) \in Nat
      /\ \A i \in 1..Len(a): d[i] = a[i]
      /\ \A i \in 1..Len(b): d[Len(a) + i] = b[i]
  BY Joined
<1> HIDE DEF d
<1>2. \A i \in 1..Len(c): c[i] = d[i]
  <2> TAKE i \in 1..Len(c)
  <2>1. CASE i <= Len(a)
    BY <1>1, <2>1
  <2>2. CASE i > Len(a)
    <3>1. i \in Int /\ i <= Len(a) + Len(b) /\ Len(a) \in Nat /\ Len(b) \in Nat
      BY <1>1
    <3>2. i - Len(a) \in 1..Len(b) /\ Len(a) + (i - Len(a)) = i
      BY <2>2, <3>1
    <3> QED
      BY <1>1, <3>2
  <2> QED
    BY <1>1, <2>1, <2>2
<1>3. Len(c) = Len(d)
  BY <1>1
<1>4. c = d
  BY <1>1, <1>2, <1>3, SeqEqual
<1> QED
  BY <1>4 DEF d

\* Only what Field puts in front of the rest is taken as a string.
LEMMA Untaken ==
  ASSUME NEW data \in Seq(Alphabet), NEW max \in Nat, TakeString(data, max).ok
  PROVE  LET t == TakeString(data, max)
         IN /\ t.string \in Strings(max) /\ t.left \in Seq(Alphabet)
            /\ data = Field(t.string) \o t.left
<1> DEFINE n == data[1]
           s == SubSeq(data, 2, n + 1)
           rest == SubSeq(data, n + 2, Len(data))
<1>1. /\ data # <<>> /\ ~(n > max) /\ ~(n > Len(data) - 1) /\ ~\E i \in 2..n + 1: data[i] = 0
      /\ TakeString(data, max) = [ok |-> TRUE, string |-> s, left |-> rest]
  BY DEF TakeString, NoString
<1>2. /\ Len(data) \in Nat /\ Len(data) > 0 /\ n \in Nat /\ n <= max /\ n <= Len(data) - 1
      /\ \A i \in 1..Len(data): data[i] \in Alphabet
  <2>1. Len(data) \in Nat /\ Len(data) > 0 /\ 1 \in 1..Len(data)
    BY <1>1
  <2>2. n \in Nat /\ \A i \in 1..Len(data): data[i] \in Alphabet
    BY <2>1, Octets
  <2> QED
    BY <1>1, <2>1, <2>2
<1> HIDE DEF n
<1>3. s \in Seq(Alphabet) /\ Len(s) = n /\ \A i \in 1..n: s[i] = data[1 + i]
  <2>1. 1 \in Nat /\ 1 + n <= Len(data) /\ 2 = 1 + 1 /\ n + 1 = 1 + n /\ 2 \in Int /\ n + 1 \in Int
    BY <1>2
  <2> QED
    BY <1>2, <2>1, Part
<1>4. /\ rest \in Seq(Alphabet) /\ Len(rest) = Len(data) - n - 1
      /\ \A i \in 1..Len(data) - n - 1: rest[i] = data[1 + n + i]
  <2> DEFINE k == 1 + n
             w == Len(data) - n - 1
             m == n + 2
             l == Len(data)
  <2>1. /\ k \in Nat /\ w \in Nat /\ m \in Int /\ l \in Int /\ k + w <= Len(data)
        /\ m = k + 1 /\ l = k + w
    BY <1>2
  <2> HIDE DEF k, w, m, l
  <2>2. /\ SubSeq(data, m, l) \in Seq(Alphabet) /\ Len(SubSeq(data, m, l)) = w
        /\ \A i \in 1..w: SubSeq(data, m, l)[i] = data[k + i]
    BY <2>1, Part
  <2> QED
    BY <2>2 DEF k, w, m, l
<1> HIDE DEF s, rest
<1>5. s \in Strings(max)
  <2>1. \A i \in 1..n: s[i] \in Alphabet \ {0}
    <3> TAKE i \in 1..n
    <3>1. 1 + i \in 2..n + 1 /\ 1 + i \in 1..Len(data)
      BY <1>2
    <3> QED
      BY <1>1, <1>2, <1>3, <3>1
  <2>2. s \in [1..n -> Alphabet \ {0}]
    BY <1>2, <1>3, <2>1
  <2>3. n \in 0..max
    BY <1>2
  <2> QED
    BY <2>2, <2>3 DEF Strings
<1>6. data = Field(s) \o rest
  <2> DEFINE g == Field(s)
  <2>1. /\ s \in Seq(Nat) /\ rest \in Seq(Nat) /\ data \in Seq(Nat)
    BY <1>3, <1>4, Octets
  <2>2. /\ g \in Seq(Nat) /\ Len(g) = 1 + n /\ g[1] = n
        /\ \A i \in 1..n: g[1 + i] = s[i]
    BY <1>3, <2>1, FieldFacts
  <2> HIDE DEF g
  <2>3. Len(data) = Len(g) + Len(rest) /\ \A i \in 1..Len(rest): data[Len(g) + i] = rest[i]
    BY <1>2, <1>4, <2>2
  <2>4. \A i \in 1..Len(g): data[i] = g[i]
    <3> TAKE i \in 1..Len(g)
    <3>1. CASE i = 1
      BY <2>2, <3>1 DEF n
    <3>2. CASE i # 1
      <4>1. i - 1 \in 1..n /\ 1 + (i - 1) = i
        BY <1>2, <2>2, <3>2
      <4>2. g[1 + (i - 1)] = s[i - 1] /\ s[i - 1] = data[1 + (i - 1)]
        BY <1>3, <2>2, <4>1
      <4> QED
        BY <4>1, <4>2
    <3> QED
      BY <3>1, <3>2
  <2>5. data = g \o rest
    BY <2>1, <2>2, <2>3, <2>4, Put
  <2> QED
    BY <2>5 DEF g
<1> QED
  <2> DEFINE t == TakeString(data, max)
  <2>1. t.string = s /\ t.left = rest
    BY <1>1
  <2> QED
    BY Zenon, <1>4, <1>5, <1>6, <2>1

\* What is taken for data is what the client would have encoded.
LEMMA Unencoded ==
  ASSUME NEW f \in Seq(Alphabet), Whole(f), \A j \in 1..P: f[j] = Prefix[j],
         Sum(Front(f)) = Last(f)
  PROVE  LET d == SubSeq(f, P + 2, Len(f) - 1)
         IN d \in Seq(Alphabet) /\ f = Encode(d)
<1> DEFINE N == Len(f)
           n == f[P + 1]
           d == SubSeq(f, P + 2, Len(f) - 1)
           head == Prefix \o <<Len(d)>>
           body == SubSeq(f, 1, Len(f) - 1)
           x == f[Len(f)]
<1>1. P \in Nat /\ P > 0 /\ Prefix \in Seq(Nat) /\ Len(Prefix) = P
  <2>1. P \in Nat /\ P > 0 /\ Prefix \in Seq(Bytes) /\ Bytes \subseteq Nat /\ Len(Prefix) = P
    BY Sizes DEF P
  <2> QED
    BY <2>1, SeqMonotonic
<1>2. Len(f) = N /\ N \in Nat /\ n \in Nat /\ N = n + P + 2
  <2>1. Len(f) \in Nat /\ Len(f) >= P + 2 /\ Len(f) = f[P + 1] + P + 2
    BY Octets DEF Whole
  <2>2. P + 1 \in 1..Len(f)
    BY <1>1, <2>1
  <2> QED
    BY <2>1, <2>2, Octets
<1> HIDE DEF N, n
<1>3. /\ d \in Seq(Alphabet) /\ Len(d) = n
      /\ \A i \in 1..n: d[i] = f[P + 1 + i]
  <2> DEFINE k == P + 1
             m == P + 2
             l == N - 1
  <2>1. /\ k \in Nat /\ n \in Nat /\ k + n <= Len(f) /\ m \in Int /\ l \in Int
        /\ m = k + 1 /\ l = k + n
    BY <1>1, <1>2
  <2> HIDE DEF k, m, l
  <2>2. /\ SubSeq(f, m, l) \in Seq(Alphabet) /\ Len(SubSeq(f, m, l)) = n
        /\ \A i \in 1..n: SubSeq(f, m, l)[i] = f[k + i]
    BY <2>1, Part
  <2> QED
    BY <1>2, <2>2, Zenon DEF k, m, l
<1>4. /\ body \in Seq(Alphabet) /\ Len(body) = N - 1 /\ \A i \in 1..N - 1: body[i] = f[i]
  <2> DEFINE w == N - 1
  <2>1. /\ 0 \in Nat /\ w \in Nat /\ 0 + w <= Len(f) /\ 1 \in Int /\ w \in Int
        /\ 1 = 0 + 1 /\ w = 0 + w
    BY <1>1, <1>2
  <2> HIDE DEF w
  <2>2. /\ SubSeq(f, 1, w) \in Seq(Alphabet) /\ Len(SubSeq(f, 1, w)) = w
        /\ \A i \in 1..w: SubSeq(f, 1, w)[i] = f[0 + i]
    BY <2>1, Part
  <2>3. /\ body \in Seq(Alphabet) /\ Len(body) = N - 1 /\ \A i \in 1..N - 1: body[i] = f[0 + i]
    BY <1>2, <2>2, Zenon DEF w
  <2> HIDE DEF body
  <2>4. \A i \in 1..N - 1: 0 + i = i
    OBVIOUS
  <2> QED
    BY <2>3, <2>4
<1>5. Front(f) = body /\ Last(f) = x
  BY DEF Front, Last
<1> HIDE DEF d, body, x
<1>6. f = Append(body, x)
  <2>1. x \in Alphabet /\ x = f[N]
    <3>1. N \in 1..N
      BY <1>1, <1>2
    <3> QED
      BY <1>2, <3>1, Octets DEF x
  <2> DEFINE c == Append(body, x)
  <2>2. /\ c \in Seq(Alphabet) /\ Len(c) = Len(body) + 1
        /\ \A i \in 1..Len(body): c[i] = body[i]
        /\ c[Len(body) + 1] = x
    BY <1>4, <2>1
  <2> HIDE DEF c
  <2>3. /\ N - 1 + 1 = N /\ \A i \in 1..N: i \in 1..N - 1 \/ i = N
    BY <1>2
  <2>4. /\ Len(c) = Len(f) /\ \A i \in 1..N - 1: c[i] = f[i]
        /\ c[N] = f[N]
    BY <1>2, <1>4, <2>1, <2>2, <2>3
  <2>5. \A i \in 1..Len(f): f[i] = c[i]
    BY <1>2, <2>3, <2>4
  <2>6. f = c
    BY <2>2, <2>4, <2>5, SeqEqual
  <2> QED
    BY <2>6 DEF c
<1>7. /\ head \in Seq(Nat) /\ Len(head) = P + 1 /\ head[P + 1] = n
      /\ \A j \in 1..P: head[j] = Prefix[j]
  <2> DEFINE one == <<Len(d)>>
  <2>1. one \in Seq(Nat) /\ Len(one) = 1 /\ one[1] = n
    BY <1>2, <1>3
  <2>2. head = Prefix \o one
    OBVIOUS
  <2> HIDE DEF one, head
  <2>3. /\ head \in Seq(Nat) /\ Len(head) = Len(Prefix) + Len(one)
        /\ \A j \in 1..Len(Prefix): head[j] = Prefix[j]
        /\ \A j \in 1..Len(one): head[Len(Prefix) + j] = one[j]
    BY <1>1, <2>1, <2>2, Joined
  <2>4. 1 \in 1..1
    OBVIOUS
  <2> QED
    BY <1>1, <2>1, <2>3, <2>4
<1> HIDE DEF head
<1>8. body = head \o d
  <2>1. body \in Seq(Nat) /\ d \in Seq(Nat)
    BY <1>3, <1>4, Octets
  <2>2. \A i \in 1..P + 1: i \in 1..N - 1 /\ (i \in 1..P \/ i = P + 1)
    BY <1>1, <1>2
  <2>3. \A i \in 1..Len(head): body[i] = head[i]
    <3> TAKE i \in 1..Len(head)
    <3>1. body[i] = f[i] /\ (i \in 1..P \/ i = P + 1)
      BY <1>4, <1>7, <2>2
    <3> QED
      BY <1>7, <3>1 DEF n
  <2>4. Len(body) = Len(head) + Len(d)
    <3>1. N - 1 = P + 1 + n
      BY <1>1, <1>2
    <3> QED
      BY <1>3, <1>4, <1>7, <3>1
  <2>5. \A i \in 1..n: P + 1 + i \in 1..N - 1
    BY <1>1, <1>2
  <2>6. \A i \in 1..Len(d): body[Len(head) + i] = d[i]
    BY <1>3, <1>4, <1>7, <2>5
  <2> QED
    BY <1>7, <2>1, <2>3, <2>4, <2>6, Put
<1>9. Encode(d) = Append(body, Sum(body))
  <2>1. Encode(d) = Append(head \o d, Sum(head \o d))
    BY Zenon DEF Encode, head
  <2> QED
    BY <1>8, <2>1
<1>10. f = Encode(d)
  BY <1>6, <1>9, <1>5
<1> QED
  BY Zenon, <1>3, <1>10 DEF d

\* The client's commands without data.
LEMMA ShortCommands ==
  ASSUME NEW code \in Nat, code # 1
  PROVE  Whole(Encode(<<code, 0>>)) /\ Complete(Encode(<<code, 0>>)) = EmptyCommand(code)
<1> DEFINE d == <<code, 0>>
<1>1. d \in Seq(Nat) /\ Len(d) = 2 /\ d[1] = code /\ d[2] = 0
  OBVIOUS
<1> HIDE DEF d
<1>2. Dispatch(d) = EmptyCommand(code)
  BY <1>1 DEF Dispatch
<1> QED
  BY <1>1, <1>2, Encoding DEF d

\* Every command of the client is understood.
LEMMA Understood ==
  ASSUME NEW e \in Encoded
  PROVE  /\ Complete(e[2]) = e[1] /\ e[1] # Nothing
<1>1. CASE e \in {<<Command("wifi", s, p), EncodeWifi(s, p)>>: s \in Strings(SsidMax) \ {None},
                                                            p \in Strings(PassMax)}
  <2>1. PICK s \in Strings(SsidMax) \ {None}, p \in Strings(PassMax):
          e = <<Command("wifi", s, p), EncodeWifi(s, p)>>
    BY <1>1
  <2>2. \A max \in Nat: \A t \in Strings(max): t \in Seq(Nat \ {0}) /\ Len(t) <= max
    <3> SUFFICES ASSUME NEW max \in Nat, NEW t \in Strings(max)
                 PROVE  t \in Seq(Nat \ {0}) /\ Len(t) <= max
      OBVIOUS
    <3>1. PICK n \in 0..max: t \in [1..n -> Alphabet \ {0}]
      BY DEF Strings
    <3>2. Alphabet \ {0} \subseteq Nat \ {0}
      BY FrameAssumption, Sizes
    <3>3. t \in Seq(Alphabet \ {0}) /\ Len(t) = n
      BY <3>1
    <3> QED
      BY <3>2, <3>3, SeqMonotonic
  <2>3. /\ s \in Seq(Nat \ {0}) /\ p \in Seq(Nat \ {0}) /\ s # <<>>
        /\ Len(s) <= SsidMax /\ Len(p) <= PassMax
    BY <2>2, FrameAssumption DEF None
  <2>4. Complete(EncodeWifi(s, p)) = Command("wifi", s, p)
    BY <2>3, RoundTrip
  <2> QED
    BY <2>1, <2>4 DEF Command, Nothing
<1>2. CASE e \in {<<Command("state", None, None), Encode(<<2, 0>>)>>,
                  <<Command("info", None, None), Encode(<<3, 0>>)>>}
  BY <1>2, ShortCommands DEF EmptyCommand, Command, Nothing
<1>3. CASE e \in {<<Unknown, Encode(<<code, 0>>)>>: code \in Bytes \ {1, 2, 3}}
  <2>1. PICK code \in Bytes \ {1, 2, 3}: e = <<Unknown, Encode(<<code, 0>>)>>
    BY <1>3
  <2>2. code \in Nat /\ EmptyCommand(code) = Unknown
    BY Sizes DEF EmptyCommand
  <2> QED
    BY <2>1, <2>2, ShortCommands DEF Unknown, Command, Nothing
<1> QED
  BY <1>1, <1>2, <1>3 DEF Encoded

\* Nothing else is: a whole frame that is not refused is some command's encoding.
LEMMA OnlyCommands ==
  ASSUME NEW f \in Seq(Alphabet), Whole(f), \A j \in 1..P: f[j] = Prefix[j],
         Complete(f) # Invalid
  PROVE  \E e \in Encoded: e[2] = f
<1> DEFINE d == SubSeq(f, P + 2, Len(f) - 1)
<1>1. Sum(Front(f)) = Last(f) /\ Complete(f) = Dispatch(d)
  BY DEF Complete
<1>2. d \in Seq(Alphabet) /\ f = Encode(d)
  BY <1>1, Unencoded
<1> HIDE DEF d
<1>3. /\ Len(d) \in Nat /\ Len(d) >= 2 /\ d[2] = Len(d) - 2
      /\ d[1] = 1 \/ d[2] = 0
      /\ d[1] = 1 => WifiSettings(SubSeq(d, 3, Len(d))) # Invalid
  <2>1. Len(d) \in Nat
    BY <1>2, LenProperties
  <2>2. Dispatch(d) # Invalid
    BY <1>1
  <2>3. ~(Len(d) < 2) /\ ~(d[2] # Len(d) - 2) /\ (d[1] = 1 \/ ~(d[2] # 0))
    BY <2>2, Zenon DEF Dispatch
  <2>4. d[1] = 1 => Dispatch(d) = WifiSettings(SubSeq(d, 3, Len(d)))
    BY <2>3, Zenon DEF Dispatch
  <2> QED
    BY <2>1, <2>2, <2>3, <2>4
<1>4. d[1] \in Bytes /\ d[1] \in Nat
  <2>1. 1 \in 1..Len(d)
    BY <1>3
  <2> QED
    BY <1>2, <2>1, Octets
<1>5. CASE d[1] # 1
  <2>1. Len(d) = 2 /\ d[2] = 0
    BY <1>3, <1>5
  <2>2. d = <<d[1], 0>>
    <3> DEFINE c == <<d[1], 0>>
    <3>1. c \in Seq(Nat) /\ Len(c) = 2 /\ c[1] = d[1] /\ c[2] = 0
      BY <1>4
    <3> HIDE DEF c
    <3>2. d \in Seq(Nat) /\ \A i \in 1..2: i = 1 \/ i = 2
      BY <1>2, Octets
    <3>3. \A i \in 1..Len(d): d[i] = c[i]
      BY <2>1, <3>1, <3>2
    <3>4. d = c
      BY <2>1, <3>1, <3>2, <3>3, SeqEqual
    <3> QED
      BY <3>4 DEF c
  <2>3. f = Encode(<<d[1], 0>>)
    BY <1>2, <2>2
  <2>4. CASE d[1] = 2
    <3>1. <<Command("state", None, None), Encode(<<2, 0>>)>> \in Encoded
      BY DEF Encoded
    <3> QED
      BY <2>3, <2>4, <3>1
  <2>5. CASE d[1] = 3
    <3>1. <<Command("info", None, None), Encode(<<3, 0>>)>> \in Encoded
      BY DEF Encoded
    <3> QED
      BY <2>3, <2>5, <3>1
  <2>6. CASE d[1] \notin {2, 3}
    <3>1. <<Unknown, Encode(<<d[1], 0>>)>> \in Encoded
      BY <1>4, <1>5, <2>6 DEF Encoded
    <3> QED
      BY <2>3, <3>1
  <2> QED
    BY <2>4, <2>5, <2>6
<1>6. CASE d[1] = 1
  <2> DEFINE fields == SubSeq(d, 3, Len(d))
             s == TakeString(fields, SsidMax)
             p == TakeString(s.left, PassMax)
  <2>1. /\ fields \in Seq(Alphabet) /\ Len(fields) = Len(d) - 2
        /\ \A i \in 1..Len(d) - 2: fields[i] = d[2 + i]
    <3> DEFINE w == Len(d) - 2
               l == Len(d)
    <3>1. /\ 2 \in Nat /\ w \in Nat /\ 2 + w <= Len(d) /\ 3 \in Int /\ l \in Int
          /\ 3 = 2 + 1 /\ l = 2 + w
      BY <1>3
    <3> HIDE DEF w, l
    <3>2. /\ SubSeq(d, 3, l) \in Seq(Alphabet) /\ Len(SubSeq(d, 3, l)) = w
          /\ \A i \in 1..w: SubSeq(d, 3, l)[i] = d[2 + i]
      BY <1>2, <3>1, Part
    <3> QED
      BY <3>2 DEF w, l
  <2>2. s.ok /\ p.ok /\ p.left = <<>> /\ s.string # <<>>
    BY <1>3, <1>6, Zenon DEF WifiSettings
  <2> HIDE DEF fields
  <2>3. SsidMax \in Nat /\ PassMax \in Nat
    BY FrameAssumption
  <2>4. /\ s.string \in Strings(SsidMax) /\ s.left \in Seq(Alphabet)
        /\ fields = Field(s.string) \o s.left
    BY <2>1, <2>2, <2>3, Untaken
  <2> HIDE DEF s
  <2>5. p.string \in Strings(PassMax) /\ s.left = Field(p.string) \o p.left
    BY <2>2, <2>3, <2>4, Untaken
  <2> HIDE DEF p
  <2>6. Field(p.string) \in Seq(Nat)
    <3>1. PICK n \in 0..PassMax: p.string \in [1..n -> Alphabet \ {0}]
      BY <2>5 DEF Strings
    <3>2. p.string \in Seq(Alphabet)
      BY <2>3, <3>1
    <3> QED
      BY <3>2, Octets, FieldFacts
  <2>7. fields = Field(s.string) \o Field(p.string)
    <3>1. Field(p.string) \o <<>> = Field(p.string)
      BY <2>6, ConcatEmptySeq
    <3> QED
      BY <2>2, <2>4, <2>5, <3>1
  <2>8. d = <<1, Len(fields)>> \o fields
    <3> DEFINE start == <<1, Len(fields)>>
    <3>1. fields \in Seq(Nat) /\ d \in Seq(Nat) /\ Len(fields) \in Nat
      BY <1>2, <2>1, Octets
    <3>2. start \in Seq(Nat) /\ Len(start) = 2 /\ start[1] = 1 /\ start[2] = Len(fields)
      BY <3>1
    <3> HIDE DEF start
    <3>3. Len(d) = Len(start) + Len(fields) /\ \A i \in 1..2: i = 1 \/ i = 2
      BY <1>3, <2>1, <3>2
    <3>4. \A i \in 1..Len(start): d[i] = start[i]
      BY <1>3, <1>6, <2>1, <3>2, <3>3
    <3>5. \A i \in 1..Len(fields): d[Len(start) + i] = fields[i]
      BY <2>1, <3>2
    <3>6. d = start \o fields
      BY <3>1, <3>2, <3>3, <3>4, <3>5, Put
    <3> QED
      BY <3>6 DEF start
  <2>9. f = EncodeWifi(s.string, p.string)
    BY <1>2, <2>7, <2>8, Zenon DEF EncodeWifi
  <2>10. <<Command("wifi", s.string, p.string), EncodeWifi(s.string, p.string)>> \in Encoded
    BY <2>2, <2>4, <2>5 DEF Encoded, None
  <2> QED
    BY <2>9, <2>10
<1> QED
  BY <1>5, <1>6

\* A whole frame leads to what the client asked for with it.
LEMMA CompleteIsAsked ==
  ASSUME NEW f \in Seq(Alphabet), Whole(f), \A j \in 1..P: f[j] = Prefix[j]
  PROVE  Complete(f) = Asked(f) /\ Complete(f) # Nothing
<1> DEFINE fits == {e \in Encoded: e[2] = f}
<1>1. CASE fits = {}
  <2>1. Complete(f) = Invalid
    BY <1>1, OnlyCommands
  <2> QED
    BY <1>1, <2>1 DEF Asked, Invalid, Nothing, Command
<1>2. CASE fits # {}
  <2>1. Asked(f) = (CHOOSE e \in fits: TRUE)[1]
    BY <1>2 DEF Asked
  <2>2. (CHOOSE e \in fits: TRUE) \in fits
    BY <1>2
  <2> QED
    BY <2>1, <2>2, Understood
<1> QED
  BY <1>1, <1>2

-----------------------------------------------------------------------------
(* Whatever is on the line, the device finds the frame in it.              *)

\* The prefix, or what there is of it yet, stands at position i of h.
Matches(h, i) == \A j \in 1..P: i + j - 1 <= Len(h) => h[i + j - 1] = Prefix[j]

\* f ends what was heard and starts like a frame, and no frame starts before it.
Located(h, f) ==
  /\ h \in Seq(Alphabet) /\ f \in Seq(Alphabet) /\ Len(f) <= Len(h)
  /\ \A j \in 1..Len(f): h[Len(h) - Len(f) + j] = f[j]
  /\ \A j \in 1..Len(f): j <= P => f[j] = Prefix[j]
  /\ \A i \in 1..Len(h) - Len(f): ~Matches(h, i)

\* What `Expected' makes of h.
StartsIn(h) == {i \in 1..Len(h) - P + 1: SubSeq(h, i, i + P - 1) = Prefix}

ExpectedOf(h) ==
  IF StartsIn(h) = {} THEN Nothing
  ELSE LET bytes == SubSeq(h, Min(StartsIn(h)), Len(h))
       IN IF Whole(bytes) THEN Asked(bytes) ELSE Nothing

\* The first complete prefix is where the frame starts.
LEMMA Found ==
  ASSUME NEW h, NEW f, Located(h, f)
  PROVE  ExpectedOf(h) = IF Whole(f) THEN Asked(f) ELSE Nothing
<1> DEFINE L == Len(h)
           F == Len(f)
           k == L - F
<1>1. /\ h \in Seq(Alphabet) /\ f \in Seq(Alphabet)
      /\ \A j \in 1..F: h[k + j] = f[j]
      /\ \A j \in 1..F: j <= P => f[j] = Prefix[j]
      /\ \A i \in 1..k: ~Matches(h, i)
  BY DEF Located
<1>2. L = Len(h) /\ F = Len(f) /\ L \in Nat /\ F \in Nat /\ k = L - F /\ k \in Nat
  <2>1. Len(f) <= Len(h) /\ Len(h) \in Nat /\ Len(f) \in Nat
    BY <1>1, LenProperties DEF Located
  <2> QED
    BY <2>1
<1> HIDE DEF L, F, k
<1>3. P \in Nat /\ P > 0 /\ Prefix \in Seq(Bytes) /\ Len(Prefix) = P
  BY Sizes DEF P
<1>4. \A i \in StartsIn(h): i \in Nat /\ i > k /\ i <= L - P + 1
  <2> TAKE i \in StartsIn(h)
  <2>1. i \in 1..L - P + 1 /\ SubSeq(h, i, i + P - 1) = Prefix
    BY <1>2 DEF StartsIn
  <2>2. Matches(h, i)
    <3> DEFINE s == i - 1
               l == i + P - 1
    <3>1. /\ s \in Nat /\ P \in Nat /\ s + P <= Len(h) /\ i \in Int /\ l \in Int
          /\ i = s + 1 /\ l = s + P
      BY <1>2, <1>3, <2>1
    <3>2. \A j \in 1..P: s + j = i + j - 1
      BY <1>3, <2>1
    <3> HIDE DEF s, l
    <3>3. \A j \in 1..P: SubSeq(h, i, l)[j] = h[s + j]
      BY <1>1, <3>1, Part
    <3>4. SubSeq(h, i, l) = Prefix
      BY <2>1 DEF l
    <3> QED
      BY <3>2, <3>3, <3>4 DEF Matches
  <2> QED
    BY <1>1, <1>2, <1>3, <2>1, <2>2
<1>5. CASE F < P
  <2>1. StartsIn(h) = {}
    <3> SUFFICES ASSUME NEW i \in StartsIn(h) PROVE FALSE
      OBVIOUS
    <3>1. i \in Nat /\ i > k /\ i <= L - P + 1
      BY <1>4
    <3> QED
      BY <1>2, <1>3, <1>5, <3>1
  <2>2. ~Whole(f)
    BY <1>2, <1>3, <1>5 DEF Whole
  <2> QED
    BY <2>1, <2>2 DEF ExpectedOf
<1>6. CASE F >= P
  <2>1. \A j \in 1..P: h[k + j] = Prefix[j]
    <3> TAKE j \in 1..P
    <3>1. j \in 1..F /\ j <= P
      BY <1>2, <1>3, <1>6
    <3> QED
      BY <1>1, <3>1
  <2>2. SubSeq(h, k + 1, k + P) = Prefix
    <3> DEFINE m == k + 1
               n == k + P
    <3>1. m = k + 1 /\ n = k + Len(Prefix) /\ m \in Int /\ n \in Int
      BY <1>2, <1>3
    <3> HIDE DEF m, n
    <3>2. SubSeq(h, m, n) = Prefix
      BY <1>2, <1>3, <2>1, <3>1, Middle
    <3> QED
      BY <3>2 DEF m, n
  <2>3. k + 1 \in StartsIn(h)
    <3>1. k + 1 \in 1..L - P + 1 /\ k + 1 + P - 1 = k + P
      BY <1>2, <1>3, <1>6
    <3> QED
      BY <1>2, <2>2, <3>1 DEF StartsIn
  <2>4. Min(StartsIn(h)) = k + 1
    <3>1. \A y \in StartsIn(h): k + 1 <= y
      BY <1>2, <1>4
    <3>2. \A x \in StartsIn(h): (\A y \in StartsIn(h): x <= y) => x = k + 1
      BY <1>2, <1>4, <2>3
    <3> QED
      BY <2>3, <3>1, <3>2 DEF Min
  <2>5. SubSeq(h, k + 1, Len(h)) = f
    <3> DEFINE m == k + 1
    <3>1. m = k + 1 /\ L = k + Len(f) /\ m \in Int /\ L \in Int /\ k \in Nat
      BY <1>2
    <3> HIDE DEF m
    <3>2. \A j \in 1..Len(f): h[k + j] = f[j]
      BY <1>1, <1>2
    <3>3. SubSeq(h, m, L) = f
      BY <1>1, <3>1, <3>2, Middle
    <3> QED
      BY <1>2, <3>3 DEF m
  <2> QED
    BY <2>3, <2>4, <2>5 DEF ExpectedOf
<1> QED
  BY <1>2, <1>3, <1>5, <1>6

\* One more byte changes nothing about what stood before it.
LEMMA Appended ==
  ASSUME NEW s \in Seq(Alphabet), NEW byte \in Alphabet
  PROVE  /\ Append(s, byte) \in Seq(Alphabet) /\ Len(Append(s, byte)) = Len(s) + 1
         /\ Len(s) \in Nat /\ Append(s, byte)[Len(s) + 1] = byte
         /\ \A i \in 1..Len(s): Append(s, byte)[i] = s[i]
  OBVIOUS

LEMMA MatchesBefore ==
  ASSUME NEW h \in Seq(Alphabet), NEW byte \in Alphabet, NEW i \in Nat \ {0},
         Matches(Append(h, byte), i)
  PROVE  Matches(h, i)
<1> DEFINE c == Append(h, byte)
<1>1. Len(c) = Len(h) + 1 /\ Len(h) \in Nat /\ \A n \in 1..Len(h): c[n] = h[n]
  BY Appended
<1> HIDE DEF c
<1>2. \A j \in 1..P: i + j - 1 <= Len(c) => c[i + j - 1] = Prefix[j]
  BY DEF Matches, c
<1> SUFFICES ASSUME NEW j \in 1..P, i + j - 1 <= Len(h) PROVE h[i + j - 1] = Prefix[j]
  BY DEF Matches
<1>3. i + j - 1 \in 1..Len(h) /\ i + j - 1 <= Len(c)
  BY <1>1, Sizes
<1> QED
  BY <1>1, <1>2, <1>3

\* A byte that goes on with the frame.
LEMMA Extended ==
  ASSUME NEW h, NEW f, Located(h, f), NEW byte \in Alphabet, InPrefix(byte, f)
  PROVE  Located(Append(h, byte), Append(f, byte))
<1> DEFINE L == Len(h)
           F == Len(f)
           c == Append(h, byte)
           g == Append(f, byte)
<1>1. h \in Seq(Alphabet) /\ f \in Seq(Alphabet)
  BY DEF Located
<1>2. /\ c \in Seq(Alphabet) /\ Len(c) = L + 1 /\ L \in Nat /\ c[L + 1] = byte
      /\ \A i \in 1..L: c[i] = h[i]
  BY <1>1, Appended
<1>3. /\ g \in Seq(Alphabet) /\ Len(g) = F + 1 /\ F \in Nat /\ g[F + 1] = byte
      /\ \A i \in 1..F: g[i] = f[i]
  BY <1>1, Appended
<1>4. /\ F <= L /\ \A j \in 1..F: h[L - F + j] = f[j]
      /\ \A j \in 1..F: j <= P => f[j] = Prefix[j]
      /\ F < P => byte = Prefix[F + 1]
      /\ \A i \in 1..L - F: ~Matches(h, i)
  BY DEF Located, InPrefix
<1>5. \A i \in 1..L - F: ~Matches(c, i)
  <2> TAKE i \in 1..L - F
  <2>1. i \in Nat \ {0}
    BY <1>2, <1>3
  <2> QED
    BY <1>1, <1>4, <2>1, MatchesBefore
<1> HIDE DEF L, F, c, g
<1>6. \A j \in 1..F + 1: j \in 1..F \/ j = F + 1
  BY <1>3
<1>7. \A j \in 1..F: L - F + j \in 1..L
  BY <1>2, <1>3, <1>4
<1>8. L + 1 - (F + 1) = L - F /\ L - F + (F + 1) = L + 1 /\ F + 1 <= L + 1
  BY <1>2, <1>3, <1>4
<1>9. \A j \in 1..Len(g): c[Len(c) - Len(g) + j] = g[j]
  <2> TAKE j \in 1..Len(g)
  <2>1. Len(c) - Len(g) = L - F /\ (j \in 1..F \/ j = F + 1)
    BY <1>2, <1>3, <1>6, <1>8
  <2>2. CASE j \in 1..F
    BY <1>2, <1>3, <1>4, <1>7, <2>1, <2>2
  <2>3. CASE j = F + 1
    BY <1>2, <1>3, <1>8, <2>1, <2>3
  <2> QED
    BY <2>1, <2>2, <2>3
<1>10. \A j \in 1..Len(g): j <= P => g[j] = Prefix[j]
  <2> TAKE j \in 1..Len(g)
  <2>1. j \in 1..F \/ j = F + 1
    BY <1>3, <1>6
  <2>2. CASE j \in 1..F
    BY <1>3, <1>4, <2>2
  <2>3. CASE j = F + 1
    BY <1>3, <1>4, <2>3, Sizes
  <2> QED
    BY <2>1, <2>2, <2>3
<1>11. Len(g) <= Len(c) /\ Len(c) - Len(g) = L - F
  BY <1>2, <1>3, <1>8
<1>12. Located(c, g)
  BY <1>2, <1>3, <1>5, <1>9, <1>10, <1>11 DEF Located
<1> QED
  BY <1>12 DEF c, g

\* A byte that cannot belong to the frame ends it, and may begin another one: no
\* frame begins in the part of the prefix that was heard.
LEMMA Restarted ==
  ASSUME NEW h, NEW f, Located(h, f), NEW byte \in Alphabet, ~InPrefix(byte, f)
  PROVE  Located(Append(h, byte), IF byte = Prefix[1] THEN <<byte>> ELSE <<>>)
<1> DEFINE L == Len(h)
           F == Len(f)
           c == Append(h, byte)
           g == IF byte = Prefix[1] THEN <<byte>> ELSE <<>>
<1>1. h \in Seq(Alphabet) /\ f \in Seq(Alphabet)
  BY DEF Located
<1>2. /\ c \in Seq(Alphabet) /\ Len(c) = L + 1 /\ L \in Nat /\ c[L + 1] = byte
      /\ \A i \in 1..L: c[i] = h[i]
  BY <1>1, Appended
<1>3. /\ F \in Nat /\ F <= L /\ \A j \in 1..F: h[L - F + j] = f[j]
      /\ \A j \in 1..F: j <= P => f[j] = Prefix[j]
      /\ F < P /\ byte # Prefix[F + 1]
      /\ \A i \in 1..L - F: ~Matches(h, i)
  BY <1>1, LenProperties DEF Located, InPrefix
<1>4. \/ byte = Prefix[1] /\ g \in Seq(Alphabet) /\ Len(g) = 1 /\ g[1] = byte
      \/ byte # Prefix[1] /\ g \in Seq(Alphabet) /\ Len(g) = 0
  OBVIOUS
<1>5. \A i \in 1..L - F: ~Matches(c, i)
  <2> TAKE i \in 1..L - F
  <2>1. i \in Nat \ {0}
    BY <1>2, <1>3
  <2> QED
    BY <1>1, <1>3, <2>1, MatchesBefore
<1> HIDE DEF L, F, c, g
<1>6. \A i \in 1..L + 1 - Len(g): ~Matches(c, i)
  <2> SUFFICES ASSUME NEW i \in 1..L + 1 - Len(g), Matches(c, i) PROVE FALSE
    OBVIOUS
  <2>1. \A j \in 1..P: i + j - 1 <= L + 1 => c[i + j - 1] = Prefix[j]
    BY <1>2 DEF Matches
  <2>2. i \in Int /\ i >= 1 /\ i <= L + 1 /\ 1 \in 1..P /\ i + 1 - 1 = i
    BY <1>2, <1>4, Sizes
  <2>3. c[i] = Prefix[1]
    BY <2>1, <2>2
  <2>4. CASE i <= L - F
    <3>1. i \in 1..L - F
      BY <1>2, <1>3, <2>2, <2>4
    <3> QED
      BY <1>5, <3>1
  <2>5. CASE i = L - F + 1
    <3>1. F + 1 \in 1..P /\ i + (F + 1) - 1 = L + 1 /\ L + 1 <= L + 1
      BY <1>2, <1>3, <2>5, Sizes
    <3>2. c[i + (F + 1) - 1] = Prefix[F + 1]
      BY <2>1, <3>1
    <3> QED
      BY <1>2, <1>3, <3>1, <3>2
  <2>6. CASE i > L - F + 1 /\ i <= L
    <3> DEFINE k == i - (L - F)
    <3>1. k \in 1..F /\ k \in 2..P /\ L - F + k = i /\ i \in 1..L /\ k <= P
      BY <1>2, <1>3, <2>2, <2>6, Sizes
    <3> HIDE DEF k
    <3>2. c[i] = Prefix[k]
      BY <1>2, <1>3, <3>1
    <3>3. Prefix[k] # Prefix[1]
      BY <3>1, FrameAssumption
    <3> QED
      BY <2>3, <3>2, <3>3
  <2>7. CASE i = L + 1
    <3>1. Len(g) = 0
      BY <1>2, <1>4, <2>2, <2>7
    <3> QED
      BY <1>2, <1>4, <2>3, <2>7, <3>1
  <2> QED
    BY <1>2, <1>3, <2>2, <2>4, <2>5, <2>6, <2>7
<1>7. g \in Seq(Alphabet) /\ Len(g) \in {0, 1} /\ Len(g) <= L + 1
  BY <1>2, <1>4
<1>8. \A j \in 1..Len(g): j = 1 /\ Len(g) = 1 /\ L + 1 - 1 + 1 = L + 1
  <2> TAKE j \in 1..Len(g)
  <2>1. L + 1 - 1 + 1 = L + 1
    BY <1>2
  <2>2. Len(g) = 1
    BY <1>7
  <2> QED
    BY <2>1, <2>2
<1>9. \A j \in 1..Len(g): c[L + 1 - Len(g) + j] = g[j] /\ g[j] = Prefix[j]
  BY <1>2, <1>4, <1>8
<1>10. Located(c, g)
  BY <1>2, <1>6, <1>7, <1>9 DEF Located
<1> QED
  BY <1>10 DEF c, g

\* Between two frames the buffer holds the one that is being heard.
ParserInv ==
  /\ FrameInv
  /\ outcome = Nothing => Located(heard, frame)
  /\ outcome # Nothing => frame = <<>>
  /\ FramesUnderstood

LEMMA NotWhole ==
  ASSUME NEW f \in Seq(Bytes), Len(f) > P => Len(f) < f[P + 1] + P + 2
  PROVE  ~Whole(f)
<1>1. Len(f) \in Nat /\ P \in Nat
  BY Sizes
<1>2. CASE Len(f) > P
  BY <1>2 DEF Whole
<1>3. CASE ~(Len(f) > P)
  BY <1>1, <1>3 DEF Whole
<1> QED
  BY <1>2, <1>3

LEMMA FeedUnderstood ==
  ASSUME ParserInv, NEW byte \in Alphabet, NEW paused \in BOOLEAN, Feed(byte, paused)
  PROVE  ParserInv'
<1> DEFINE h == IF paused \/ outcome # Nothing THEN <<>> ELSE heard
           before == Kept(paused)
           bytes == Append(before, byte)
<1>1. Located(h, before)
  <2>1. Located(<<>>, <<>>)
    <3>1. <<>> \in Seq(Alphabet) /\ Len(<<>>) = 0 /\ 1..0 = {} /\ 0 - 0 = 0
      OBVIOUS
    <3> QED
      BY <3>1 DEF Located
  <2>2. CASE paused
    BY <2>1, <2>2 DEF Kept
  <2>3. CASE ~paused /\ outcome # Nothing
    BY <2>1, <2>3 DEF Kept, ParserInv
  <2>4. CASE ~paused /\ outcome = Nothing
    BY <2>4 DEF Kept, ParserInv
  <2> QED
    BY <2>2, <2>3, <2>4
<1>2. heard' = Append(h, byte)
  <2>1. <<byte>> = Append(<<>>, byte)
    OBVIOUS
  <2> QED
    BY <2>1 DEF Feed, Hear
<1>3. FrameInv'
  BY FeedFrame DEF ParserInv
<1>4. Expected' = ExpectedOf(heard')
  BY DEF Expected, Starts, ExpectedOf, StartsIn
<1>5. ASSUME Located(heard', frame'), outcome' = Nothing PROVE ParserInv'
  <2>1. ~Whole(frame')
    BY <1>3, NotWhole DEF FrameInv
  <2>2. Expected' = Nothing
    BY <1>4, <1>5, <2>1, Found
  <2> QED
    BY <1>3, <1>5, <2>2 DEF ParserInv, FramesUnderstood
<1>6. CASE ~InPrefix(byte, before)
  <2>1. frame' = IF byte = Prefix[1] THEN <<byte>> ELSE <<>>
    BY <1>6 DEF Feed
  <2>2. outcome' = Nothing
    BY <1>6 DEF Feed
  <2>3. Located(heard', frame')
    BY <1>1, <1>2, <1>6, <2>1, Restarted
  <2> QED
    BY <1>5, <2>2, <2>3
<1>7. CASE InPrefix(byte, before)
  <2>1. /\ frame' = IF Whole(bytes) THEN <<>> ELSE bytes
        /\ outcome' = IF Whole(bytes) THEN Complete(bytes) ELSE Nothing
    BY <1>7 DEF Feed
  <2>2. Located(heard', bytes)
    BY <1>1, <1>2, <1>7, Extended
  <2> HIDE DEF bytes
  <2>3. CASE ~Whole(bytes)
    BY <1>5, <2>1, <2>2, <2>3
  <2>4. CASE Whole(bytes)
    <3>1. Expected' = Asked(bytes)
      BY <1>4, <2>2, <2>4, Found
    <3>2. bytes \in Seq(Alphabet) /\ \A j \in 1..P: bytes[j] = Prefix[j]
      <4>1. /\ bytes \in Seq(Alphabet) /\ Len(bytes) >= P + 2
            /\ \A j \in 1..Len(bytes): j <= P => bytes[j] = Prefix[j]
        BY <2>2, <2>4 DEF Located, Whole
      <4>2. \A j \in 1..P: j \in 1..Len(bytes) /\ j <= P
        BY <4>1, Sizes, LenProperties
      <4> QED
        BY <4>1, <4>2
    <3>3. Complete(bytes) = Asked(bytes) /\ Complete(bytes) # Nothing
      BY <2>4, <3>2, CompleteIsAsked
    <3> QED
      BY <1>3, <2>1, <2>4, <3>1, <3>3 DEF ParserInv, FramesUnderstood
  <2> QED
    BY <2>3, <2>4
<1> QED
  BY <1>6, <1>7

\* The invariant holds in every reachable state.
THEOREM ParserInvariant == Spec => []ParserInv
<1>1. Init => ParserInv
  <2> SUFFICES ASSUME Init PROVE ParserInv
    OBVIOUS
  <2>1. FrameInv
    BY InitFrame
  <2>2. Located(heard, frame)
    <3>1. <<>> \in Seq(Alphabet) /\ Len(<<>>) = 0 /\ 1..0 = {} /\ 0 - 0 = 0
      OBVIOUS
    <3> QED
      BY <3>1 DEF Init, Located
  <2>3. ~Whole(frame)
    BY <2>1, NotWhole DEF FrameInv
  <2>4. Expected = ExpectedOf(heard)
    BY DEF Expected, Starts, ExpectedOf, StartsIn
  <2>5. Expected = Nothing
    BY <2>2, <2>3, <2>4, Found
  <2> QED
    BY <2>1, <2>2, <2>5 DEF ParserInv, FramesUnderstood, Init
<1>2. ParserInv /\ [Next]_vars => ParserInv'
  <2>1. ParserInv /\ Next => ParserInv'
    BY FeedUnderstood DEF Next
  <2>2. ParserInv /\ UNCHANGED vars => ParserInv'
    BY DEF ParserInv, FrameInv, FramesUnderstood, Expected, Starts, vars
  <2> QED
    BY <2>1, <2>2
<1> QED
  BY <1>1, <1>2, PTL DEF Spec

\* Whatever is on the line, between, before and inside the commands: what the
\* device acts on is what the client encoded, when its last byte has come, and
\* everything else that looks like a frame is refused (improv_feed,
\* complete_frame, wifi_settings).
THEOREM CommandsUnderstood == Spec => []FramesUnderstood
<1>1. ParserInv => FramesUnderstood
  BY DEF ParserInv
<1> QED
  BY <1>1, ParserInvariant, PTL

=============================================================================
