--------------------------- MODULE CTAPHIDProofs ---------------------------
(***************************************************************************)
(* The arithmetic of Split and Feed: what k continuation packets carry,    *)
(* and how many of them a message needs.                                   *)
(***************************************************************************)
EXTENDS CTAPHID, TLAPS

(* The payload sizes are positive, and one more continuation packet adds    *)
(* exactly contPayload bytes.                                               *)
LEMMA OffsetStep ==
    /\ initPayload \in Nat \ {0}
    /\ contPayload \in Nat \ {0}
    /\ \A k \in Nat : /\ Offset(k) \in Nat
                      /\ Offset(k + 1) = Offset(k) + contPayload
<1>1. initPayload \in Nat \ {0} /\ contPayload \in Nat \ {0}
  BY FramingAssumption DEF initPayload, contPayload, initHeader, contHeader
<1>2. ASSUME NEW k \in Nat
      PROVE  Offset(k) \in Nat /\ Offset(k + 1) = Offset(k) + contPayload
  <2>1. k * contPayload \in Nat /\ (k + 1) * contPayload = k * contPayload + contPayload
    BY <1>1
  <2>2. QED
    BY <1>1, <2>1 DEF Offset
<1>3. QED
  BY <1>1, <1>2

(* More continuation packets never carry fewer bytes. *)
LEMMA OffsetMonotone ==
    ASSUME NEW j \in Nat, NEW k \in Nat, j <= k
    PROVE  Offset(j) <= Offset(k)
<1>1. contPayload \in Nat /\ initPayload \in Nat
  BY OffsetStep
<1>2. j * contPayload <= k * contPayload
  BY <1>1
<1>3. QED
  BY <1>1, <1>2 DEF Offset

(* The limit is a number of bytes. *)
LEMMA MaxMessageNat == MaxMessage \in Nat
  BY OffsetStep, FramingAssumption DEF MaxMessage, MaxContinuations

(* Multiplying by a natural number keeps the order. *)
LEMMA TimesMonotone ==
    ASSUME NEW a \in Nat, NEW b \in Nat, NEW c \in Nat, a <= b
    PROVE  a * c <= b * c
  OBVIOUS

(* What division by the payload size leaves. *)
LEMMA DivBounds ==
    ASSUME NEW a \in Nat, NEW c \in Nat \ {0}
    PROVE  /\ a \div c \in Nat
           /\ (a \div c) * c <= a
           /\ a < (a \div c) * c + c
  OBVIOUS

(* The loop of Split stops at the first continuation packet that completes   *)
(* the message: k packets are too few exactly when k is below their number.  *)
LEMMA ContinuationsLeast ==
    ASSUME NEW n \in Nat
    PROVE  /\ Continuations(n) \in Nat
           /\ \A k \in Nat : Offset(k) < n <=> k < Continuations(n)
<1> DEFINE c == contPayload
           i == initPayload
<1>0. c \in Nat \ {0} /\ i \in Nat
  BY OffsetStep
<1>1. CASE n <= i
  <2>1. Continuations(n) = 0
    BY <1>1 DEF Continuations
  <2>2. ASSUME NEW k \in Nat PROVE ~(Offset(k) < n)
    <3>1. k * c \in Nat
      BY <1>0
    <3>2. QED
      BY <1>0, <1>1, <3>1 DEF Offset
  <2>3. QED
    BY <2>1, <2>2
<1>2. CASE ~(n <= i)
  <2> DEFINE q == (n - i + c - 1) \div c
  <2>1. Continuations(n) = q
    BY <1>2 DEF Continuations
  <2>2. n - i + c - 1 \in Nat
    BY <1>0, <1>2
  <2> HIDE DEF c, i
  <2>3. q \in Nat /\ q * c <= n - i + c - 1 /\ n - i + c - 1 < q * c + c
    BY <1>0, <2>2, DivBounds
  <2> HIDE DEF q
  <2>4. q * c \in Nat
    BY <1>0, <2>3
  <2>5. ASSUME NEW k \in Nat PROVE i + k * c < n <=> k < q
    <3>1. k * c \in Nat
      BY <1>0
    <3>2. CASE k < q
      <4>1. (k + 1) * c <= q * c
        BY <1>0, <2>3, <3>2, TimesMonotone
      <4>2. (k + 1) * c = k * c + c
        BY <1>0
      <4>3. QED
        BY <1>0, <2>3, <2>4, <3>1, <3>2, <4>1, <4>2
    <3>3. CASE ~(k < q)
      <4>1. q * c <= k * c
        BY <1>0, <2>3, <3>3, TimesMonotone
      <4>2. QED
        BY <1>0, <2>3, <2>4, <3>1, <3>3, <4>1
    <3>4. QED
      BY <3>2, <3>3
  <2>6. QED
    BY <2>1, <2>3, <2>5 DEF Offset, c, i
<1>3. QED
  BY <1>1, <1>2, <1>0

(* A message that Split accepts uses no sequence number that would be read   *)
(* as a command.                                                             *)
LEMMA ContinuationsFit ==
    ASSUME NEW n \in Nat, n <= MaxMessage
    PROVE  Continuations(n) <= HighBit
<1>1. HighBit \in Nat
  BY FramingAssumption
<1>2. Offset(HighBit) \in Nat /\ ~(Offset(HighBit) < n)
  BY <1>1, OffsetStep DEF MaxMessage, MaxContinuations
<1>3. Continuations(n) \in Nat /\ ~(HighBit < Continuations(n))
  BY <1>1, <1>2, ContinuationsLeast
<1>4. QED
  BY <1>1, <1>3
============================================================================
