----------------------------- MODULE ImprovFrame -----------------------------
(***************************************************************************)
(* The parser of the Improv serial protocol (main/improv.c): bytes come    *)
(* one by one from a serial port that also carries noise, commands cut off *)
(* in the middle and long pauses.  What a command does once it is          *)
(* understood is the matter of module Improv.                              *)
(***************************************************************************)
EXTENDS Integers, Sequences, SequencesExt, FiniteSetsExt

CONSTANTS
  Prefix,     \* what every command starts with
  Modulus,    \* one more than the largest byte
  Alphabet,   \* the bytes that come (a bound)
  SsidMax,    \* longest network name
  PassMax,    \* longest password
  Noise       \* bound on the bytes before a command

Bytes == 0..Modulus - 1
P == Len(Prefix)

ASSUME FrameAssumption ==
  /\ Modulus \in Nat \ {0, 1, 2, 3}
  /\ Prefix \in Seq(Bytes) /\ P > 0
  /\ \A i \in 2..P: Prefix[i] # Prefix[1]
  /\ Alphabet \subseteq Bytes
  /\ SsidMax \in 1..Modulus - 1 /\ PassMax \in 0..Modulus - 1
  /\ Noise \in Nat

VARIABLES
  frame,     \* frame[0..used - 1]
  outcome,   \* what the last byte led to: Nothing, Invalid or a command
  heard      \* history: the bytes since the last pause or the last complete frame

vars == <<frame, outcome, heard>>

Command(code, ssid, password) == [code |-> code, ssid |-> ssid, password |-> password]
None    == <<>>
Nothing == Command("nothing", None, None)
Invalid == Command("invalid", None, None)    \* error 1
Unknown == Command("unknown", None, None)    \* error 2

Init == frame = <<>> /\ outcome = Nothing /\ heard = <<>>

-----------------------------------------------------------------------------
Sum(bytes) == FoldLeft(LAMBDA sum, b: (sum + b) % Modulus, 0, bytes)

\* take_string: a length byte and so many bytes, none of them zero.
NoString == [ok |-> FALSE, string |-> <<>>, left |-> <<>>]

TakeString(data, max) ==
  IF \/ data = <<>>
     \/ data[1] > max \/ data[1] > Len(data) - 1
     \/ \E i \in 2..data[1] + 1: data[i] = 0
  THEN NoString
  ELSE [ok |-> TRUE, string |-> SubSeq(data, 2, data[1] + 1),
        left |-> SubSeq(data, data[1] + 2, Len(data))]

\* wifi_settings, up to the call that saves them
WifiSettings(data) ==
  LET ssid == TakeString(data, SsidMax)
      password == TakeString(ssid.left, PassMax)
  IN IF ssid.ok /\ password.ok /\ password.left = <<>> /\ ssid.string # <<>>
     THEN Command("wifi", ssid.string, password.string)
     ELSE Invalid

EmptyCommand(code) ==
  CASE code = 2 -> Command("state", None, None)
    [] code = 3 -> Command("info", None, None)
    [] OTHER -> Unknown

Dispatch(data) ==
  IF Len(data) < 2 THEN Invalid
  ELSE IF data[2] # Len(data) - 2 THEN Invalid
  ELSE IF data[1] = 1 THEN WifiSettings(SubSeq(data, 3, Len(data)))
  ELSE IF data[2] # 0 THEN Invalid
  ELSE EmptyCommand(data[1])

\* complete_frame
Complete(bytes) ==
  IF Sum(Front(bytes)) # Last(bytes) THEN Invalid
  ELSE Dispatch(SubSeq(bytes, P + 2, Len(bytes) - 1))

\* Mutant: the length byte is counted into the data.
WholeAndOne(bytes) == Len(bytes) >= P + 2 /\ Len(bytes) = bytes[P + 1] + P + 3

Whole(bytes) == Len(bytes) >= P + 2 /\ Len(bytes) = bytes[P + 1] + P + 2

\* Mutant: a pause does not end a partial frame.
KeptOverPause(paused) == frame

\* The frame so far, unless it is too old to be continued.
Kept(paused) == IF paused THEN <<>> ELSE frame

Hear(byte, paused) ==
  heard' = IF paused \/ outcome # Nothing THEN <<byte>> ELSE Append(heard, byte)

InPrefix(byte, before) == Len(before) < P => byte = Prefix[Len(before) + 1]

\* improv_feed; paused: the last byte is more than a second old.
Feed(byte, paused) ==
  LET before == Kept(paused)
      bytes == Append(before, byte)
  IN /\ Hear(byte, paused)
     /\ \/ /\ ~InPrefix(byte, before)
           /\ frame' = IF byte = Prefix[1] THEN <<byte>> ELSE <<>>
           /\ outcome' = Nothing
        \/ /\ InPrefix(byte, before)
           /\ frame' = IF Whole(bytes) THEN <<>> ELSE bytes
           /\ outcome' = IF Whole(bytes) THEN Complete(bytes) ELSE Nothing

Next == \E byte \in Alphabet, paused \in BOOLEAN:
          /\ paused \/ Len(heard) - Len(frame) <= Noise \/ outcome # Nothing
          /\ Feed(byte, paused)

Spec == Init /\ [][Next]_vars

-----------------------------------------------------------------------------
(* The reference: how the client encodes its commands.                     *)

Strings(max) == UNION {[1..n -> Alphabet \ {0}]: n \in 0..max}

Encode(data) ==
  LET bytes == Prefix \o <<Len(data)>> \o data IN Append(bytes, Sum(bytes))

Field(string) == <<Len(string)>> \o string

EncodeWifi(ssid, password) ==
  LET fields == Field(ssid) \o Field(password) IN Encode(<<1, Len(fields)>> \o fields)

Encoded ==
  {<<Command("wifi", s, p), EncodeWifi(s, p)>>: s \in Strings(SsidMax) \ {None},
                                                p \in Strings(PassMax)}
  \cup {<<Command("state", None, None), Encode(<<2, 0>>)>>,
        <<Command("info", None, None), Encode(<<3, 0>>)>>}
  \cup {<<Unknown, Encode(<<code, 0>>)>>: code \in Bytes \ {1, 2, 3}}

\* What a whole frame asks for.
Asked(bytes) ==
  LET fits == {e \in Encoded: e[2] = bytes}
  IN IF fits = {} THEN Invalid ELSE (CHOOSE e \in fits: TRUE)[1]

Starts == {i \in 1..Len(heard) - P + 1: SubSeq(heard, i, i + P - 1) = Prefix}

Expected ==
  IF Starts = {} THEN Nothing
  ELSE LET bytes == SubSeq(heard, Min(Starts), Len(heard))
       IN IF Whole(bytes) THEN Asked(bytes) ELSE Nothing

\* Whatever came before on the line, a command is acted on exactly when its last
\* byte arrives, exactly as it was encoded, if none of its bytes is more than a
\* second behind; everything else that looks like a frame is refused.
FramesUnderstood == outcome = Expected

\* The buffer holds every partial frame: the prefix, the length, the data and
\* the checksum (265 bytes in the code).
FrameFits == Len(frame) < P + 1 + Modulus

=============================================================================
