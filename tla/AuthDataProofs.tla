--------------------------- MODULE AuthDataProofs ---------------------------
(***************************************************************************)
(* What AuthData and COSE read and write, for byte strings of any length:  *)
(* ParseAuthData is exact, and a key comes back from its coordinates.  The *)
(* first follows from cutting a sequence in two and putting it together    *)
(* again, once per part of the layout; the second from the value of big-   *)
(* endian bytes, by induction over the bytes.                              *)
(***************************************************************************)
EXTENDS AuthData, COSE, SequenceTheorems, FiniteSetTheorems, WellFoundedInduction, TLAPS

(* A sequence is its first n elements and the rest. *)
LEMMA Cuts ==
    ASSUME NEW S, NEW s \in Seq(S), NEW n \in 0 .. Len(s)
    PROVE  /\ SubSeq(s, 1, n) \in Seq(S) /\ Len(SubSeq(s, 1, n)) = n
           /\ After(s, n) \in Seq(S) /\ Len(After(s, n)) = Len(s) - n
           /\ \A i \in 1 .. Len(s) - n : After(s, n)[i] = s[n + i]
           /\ SubSeq(s, 1, n) \o After(s, n) = s
<1>1. Len(s) \in Nat /\ \A i \in 1 .. Len(s) : s[i] \in S
  OBVIOUS
<1>2. SubSeq(s, 1, n) \in Seq(S) /\ Len(SubSeq(s, 1, n)) = n
  BY <1>1, SubSeqProperties
<1>3. /\ After(s, n) \in Seq(S) /\ Len(After(s, n)) = Len(s) - n
      /\ \A i \in 1 .. Len(s) - n : After(s, n)[i] = s[n + i]
  BY <1>1, SubSeqProperties DEF After
<1>4. SubSeq(s, 1, n) \o SubSeq(s, n + 1, Len(s)) = SubSeq(s, 1, Len(s))
  <2>1. 1 \in 1 .. Len(s) + 1 /\ n \in 1 - 1 .. Len(s) /\ Len(s) \in n .. Len(s)
    BY <1>1
  <2>2. QED
    BY <2>1, ConcatAdjacentSubSeq
<1>5. QED
  BY <1>2, <1>3, <1>4, SubSeqFull DEF After

(* The first part of two that were put together, and the second. *)
LEMMA Parts ==
    ASSUME NEW S, NEW s \in Seq(S), NEW t \in Seq(S)
    PROVE  SubSeq(s \o t, 1, Len(s)) = s /\ After(s \o t, Len(s)) = t
<1>1. /\ s \o t \in Seq(S) /\ Len(s) \in Nat /\ Len(t) \in Nat /\ Len(s \o t) = Len(s) + Len(t)
      /\ \A i \in 1 .. Len(s) + Len(t) :
            (s \o t)[i] = IF i <= Len(s) THEN s[i] ELSE t[i - Len(s)]
  BY ConcatProperties, LenProperties
<1>2. \A i \in 1 .. Len(s \o t) : (s \o t)[i] \in S
  BY <1>1
<1>3. /\ SubSeq(s \o t, 1, Len(s)) \in Seq(S) /\ Len(SubSeq(s \o t, 1, Len(s))) = Len(s)
      /\ \A i \in 1 .. Len(s) : SubSeq(s \o t, 1, Len(s))[i] = (s \o t)[i]
  BY <1>1, <1>2, SubSeqProperties
<1>4. /\ After(s \o t, Len(s)) \in Seq(S) /\ Len(After(s \o t, Len(s))) = Len(t)
      /\ \A i \in 1 .. Len(t) : After(s \o t, Len(s))[i] = (s \o t)[Len(s) + i]
  <2>1. PICK u : u = s \o t
    OBVIOUS
  <2>2. u \in Seq(S) /\ Len(s) \in 0 .. Len(u) /\ Len(u) - Len(s) = Len(t)
    BY <1>1, <2>1
  <2>3. /\ After(u, Len(s)) \in Seq(S) /\ Len(After(u, Len(s))) = Len(t)
        /\ \A i \in 1 .. Len(t) : After(u, Len(s))[i] = u[Len(s) + i]
    BY <2>2, Cuts
  <2>4. QED
    BY <2>1, <2>3
<1>5. SubSeq(s \o t, 1, Len(s)) = s
  BY <1>1, <1>3, SeqEqual
<1>6. \A i \in 1 .. Len(t) : After(s \o t, Len(s))[i] = t[i]
  BY <1>1, <1>4
<1>7. After(s \o t, Len(s)) = t
  BY <1>1, <1>4, <1>6, SeqEqual
<1>8. QED
  BY <1>5, <1>7

(* What lies between two places of a sequence. *)
LEMMA Between ==
    ASSUME NEW S, NEW s \in Seq(S), NEW m \in 1 .. Len(s) + 1, NEW n \in m - 1 .. Len(s)
    PROVE  /\ SubSeq(s, m, n) \in Seq(S) /\ Len(SubSeq(s, m, n)) = n - m + 1
           /\ \A i \in 1 .. n - m + 1 : SubSeq(s, m, n)[i] = s[m + i - 1]
<1>1. \A i \in m .. n : s[i] \in S
  OBVIOUS
<1>2. QED
  BY <1>1, SubSeqProperties

LEMMA OneOf ==
    ASSUME NEW S, NEW s \in Seq(S), NEW m \in 1 .. Len(s)
    PROVE  SubSeq(s, m, m) = <<s[m]>>
<1>1. SubSeq(s, m, m) \in Seq(S) /\ Len(SubSeq(s, m, m)) = 1 /\ SubSeq(s, m, m)[1] = s[m]
  BY Between
<1>2. PICK t : t = <<s[m]>>
  OBVIOUS
<1>3. t \in Seq(S) /\ Len(t) = 1 /\ t[1] = s[m]
  BY <1>2
<1>4. PICK u : u = SubSeq(s, m, m)
  OBVIOUS
<1>5. \A i \in 1 .. Len(u) : u[i] = t[i]
  BY <1>1, <1>3, <1>4
<1>6. QED
  BY <1>1, <1>2, <1>3, <1>4, <1>5, SeqEqual

LEMMA TwoOf ==
    ASSUME NEW S, NEW s \in Seq(S), NEW m \in 1 .. Len(s), m + 1 <= Len(s)
    PROVE  SubSeq(s, m, m + 1) = <<s[m], s[m + 1]>>
<1>1. /\ SubSeq(s, m, m + 1) \in Seq(S) /\ Len(SubSeq(s, m, m + 1)) = 2
      /\ SubSeq(s, m, m + 1)[1] = s[m] /\ SubSeq(s, m, m + 1)[2] = s[m + 1]
  <2>1. PICK l : l = m + 1
    OBVIOUS
  <2>2. /\ l \in m .. Len(s) /\ l - m + 1 = 2 /\ 1 \in 1 .. l - m + 1 /\ 2 \in 1 .. l - m + 1
        /\ m + 1 - 1 = m /\ m + 2 - 1 = m + 1
    BY <2>1
  <2>3. /\ SubSeq(s, m, l) \in Seq(S) /\ Len(SubSeq(s, m, l)) = l - m + 1
        /\ \A i \in 1 .. l - m + 1 : SubSeq(s, m, l)[i] = s[m + i - 1]
    BY <2>2, Between
  <2>4. SubSeq(s, m, l)[1] = s[m + 1 - 1] /\ SubSeq(s, m, l)[2] = s[m + 2 - 1]
    BY <2>2, <2>3
  <2>5. QED
    BY <2>1, <2>2, <2>3, <2>4
<1>2. PICK t : t = <<s[m], s[m + 1]>>
  OBVIOUS
<1>3. t \in Seq(S) /\ Len(t) = 2 /\ t[1] = s[m] /\ t[2] = s[m + 1]
  BY <1>2
<1>4. PICK u : u = SubSeq(s, m, m + 1)
  OBVIOUS
<1>5. \A i \in 1 .. Len(u) : u[i] = t[i]
  BY <1>1, <1>3, <1>4
<1>6. QED
  BY <1>1, <1>2, <1>3, <1>4, <1>5, SeqEqual

(* Concatenation, as an operator the provers do not look into. *)
Cat(s, t) == s \o t

LEMMA CatIs ==
    \A s, t, u \in Seq(Byte) : Cat(s, t) \in Seq(Byte) /\ Cat(Cat(s, t), u) = Cat(s, Cat(t, u))
<1>1. \A s, t \in Seq(Byte) : Cat(s, t) \in Seq(Byte)
  BY ConcatProperties DEF Cat
<1>2. \A s, t, u \in Seq(Byte) : Cat(Cat(s, t), u) = Cat(s, Cat(t, u))
  BY ConcatAssociative DEF Cat
<1>3. QED
  BY <1>1, <1>2

LEMMA Five ==
    ASSUME NEW a, NEW n, NEW i, NEW k, NEW r, a \in Seq(Byte), n \in Seq(Byte), i \in Seq(Byte),
           k \in Seq(Byte), r \in Seq(Byte)
    PROVE  /\ Cat(Cat(Cat(a, n), i), k) \in Seq(Byte)
           /\ Cat(Cat(Cat(Cat(a, n), i), k), r) = Cat(Cat(a, n), Cat(i, Cat(k, r)))
<1>1. Cat(a, n) \in Seq(Byte) /\ Cat(k, r) \in Seq(Byte)
  BY CatIs
<1>2. Cat(Cat(a, n), i) \in Seq(Byte)
  BY <1>1, CatIs
<1>3. PICK x, y, z : x = Cat(a, n) /\ y = Cat(x, i) /\ z = Cat(k, r)
  OBVIOUS
<1>4. Cat(y, k) \in Seq(Byte) /\ Cat(Cat(y, k), r) = Cat(y, z)
  BY <1>2, <1>3, CatIs
<1>5. Cat(Cat(x, i), z) = Cat(x, Cat(i, z))
  BY <1>1, <1>3, CatIs
<1>6. Cat(Cat(Cat(Cat(a, n), i), k), r) = Cat(Cat(a, n), Cat(i, Cat(k, r)))
  BY <1>3, <1>4, <1>5
<1>7. Cat(Cat(Cat(a, n), i), k) \in Seq(Byte)
  BY <1>3, <1>4
<1>8. QED
  BY <1>6, <1>7

(* A length and its two bytes. *)
LEMMA TwoBytes ==
    ASSUME NEW hi \in Byte, NEW lo \in Byte
    PROVE  256 * hi + lo \in Nat /\ (256 * hi + lo) \div 256 = hi /\ (256 * hi + lo) % 256 = lo
BY DEF Byte

LEMMA BytesOf ==
    ASSUME NEW n \in Nat, n < 65536
    PROVE  n \div 256 \in Byte /\ n % 256 \in Byte /\ 256 * (n \div 256) + (n % 256) = n
<1>1. n % 256 \in Nat /\ n % 256 < 256 /\ n \div 256 \in Nat /\ 256 * (n \div 256) + (n % 256) = n
  OBVIOUS
<1>2. n \div 256 < 256
  BY <1>1
<1>3. QED
  BY <1>1, <1>2 DEF Byte

Sizes(n, i) == n \in Seq(Byte) /\ Len(n) = 2 /\ 256 * n[1] + n[2] = Len(i)

LEMMA LengthBytes ==
    ASSUME NEW i \in Seq(Byte), Len(i) < 65536
    PROVE  Sizes(<<Len(i) \div 256, Len(i) % 256>>, i)
<1>1. ASSUME NEW hi \in Byte, NEW lo \in Byte, 256 * hi + lo = Len(i) PROVE Sizes(<<hi, lo>>, i)
  BY <1>1 DEF Sizes
<1>2. Len(i) \in Nat
  OBVIOUS
<1>3. /\ Len(i) \div 256 \in Byte /\ Len(i) % 256 \in Byte
      /\ 256 * (Len(i) \div 256) + (Len(i) % 256) = Len(i)
  BY <1>2, BytesOf
<1>4. QED
  BY <1>1, <1>3

(* An item ends within the bytes it was read from, and what follows it does   *)
(* not move its end.                                                          *)
LEMMA ItemEnds == ASSUME NEW b \in Seq(Byte) PROVE ItemLen(b) \in 0 .. Len(b)
<1>1. Len(b) \in Nat /\ (b # << >> => Len(b) > 0)
  OBVIOUS
<1>2. ASSUME NEW c, c \in 64 .. 87, NEW len \in Nat, len >= 1 + (c - 64)
      PROVE  1 + (c - 64) \in 0 .. len
  BY <1>2
<1>3. 0 \in 0 .. Len(b) /\ (b # << >> => 1 \in 0 .. Len(b))
  BY <1>1
<1>4. QED
  BY <1>1, <1>2, <1>3, Zenon DEF ItemLen

LEMMA ItemInFront ==
    ASSUME NEW k, IsItem(k), NEW t \in Seq(Byte)
    PROVE  ItemLen(k \o t) = Len(k) /\ Len(k) > 0
<1>1. k \in Seq(Byte) /\ k # << >> /\ Len(k) \in Nat /\ Len(k) > 0 /\ k[1] \in Nat /\ ItemLen(k) = Len(k)
  BY DEF IsItem, Byte
<1>2. k \o t # << >> /\ (k \o t)[1] = k[1] /\ Len(k \o t) >= Len(k)
  BY <1>1, ConcatProperties, LenProperties, EmptySeq
<1>3. CASE k[1] \in 0 .. 23
  BY <1>1, <1>2, <1>3 DEF ItemLen
<1>4. CASE k[1] \notin 0 .. 23
  <2>1. k[1] \in 64 .. 87 /\ Len(k) = 1 + (k[1] - 64)
    BY <1>1, <1>4 DEF ItemLen
  <2>2. (k \o t)[1] \in 64 .. 87 /\ (k \o t)[1] \notin 0 .. 23 /\ Len(k \o t) >= 1 + ((k \o t)[1] - 64)
    BY <1>2, <1>4, <2>1
  <2>3. ItemLen(k \o t) = 1 + ((k \o t)[1] - 64)
    BY <1>2, <2>2 DEF ItemLen
  <2>4. QED
    BY <1>1, <1>2, <2>1, <2>3
<1>5. QED
  BY <1>3, <1>4

----------------------------------------------------------------------------
(* The fixed header and the body, put together. *)
LEMMA HeaderOf ==
    ASSUME NEW b \in Seq(Byte), Len(b) >= authDataHeader
    PROVE  /\ SubSeq(b, 1, rpIDHashLen) \in Seq(Byte) /\ b[rpIDHashLen + 1] \in Byte
           /\ SubSeq(b, rpIDHashLen + 2, authDataHeader) \in Seq(Byte)
           /\ After(b, authDataHeader) \in Seq(Byte)
           /\ SubSeq(b, 1, rpIDHashLen) \o <<b[rpIDHashLen + 1]>>
                \o SubSeq(b, rpIDHashLen + 2, authDataHeader) \o After(b, authDataHeader) = b
<1>1. /\ authDataHeader = 37 /\ rpIDHashLen = 32 /\ rpIDHashLen + 1 = 33 /\ rpIDHashLen + 2 = 34
      /\ Len(b) \in Nat /\ Len(b) >= 37
  BY DEF authDataHeader, rpIDHashLen, signCountLen
<1>2. \A i \in 1 .. Len(b) : b[i] \in Byte
  OBVIOUS
<1>3. SubSeq(b, 1, 32) \in Seq(Byte) /\ SubSeq(b, 34, 37) \in Seq(Byte) /\ b[33] \in Byte
  <2>1. SubSeq(b, 1, 32) \in Seq(Byte)
    <3>1. 32 \in 0 .. Len(b)
      BY <1>1
    <3>2. QED
      BY <3>1, Cuts
  <2>2. SubSeq(b, 34, 37) \in Seq(Byte)
    BY <1>1, Between
  <2>3. QED
    BY <1>1, <1>2, <2>1, <2>2
<1>4. SubSeq(b, 1, 32) \o SubSeq(b, 33, 33) = SubSeq(b, 1, 33)
  BY <1>1, ConcatAdjacentSubSeq
<1>5. SubSeq(b, 33, 33) = <<b[33]>>
  BY <1>1, OneOf
<1>6. SubSeq(b, 1, 33) \o SubSeq(b, 34, 37) = SubSeq(b, 1, 37)
  BY <1>1, ConcatAdjacentSubSeq
<1>7. SubSeq(b, 1, 37) \o After(b, 37) = b /\ After(b, 37) \in Seq(Byte)
  BY <1>1, Cuts
<1>8. QED
  BY <1>1, <1>3, <1>4, <1>5, <1>6, <1>7, Zenon

(* What ParseAttested accepts is what its parts encode to. *)
SplitsInto(rest, at) ==
    /\ at.rest \in Seq(Byte)
    /\ at.attested.aaguid \in Seq(Byte) /\ at.attested.id \in Seq(Byte)
    /\ at.attested.key \in Seq(Byte)
    /\ <<Len(at.attested.id) \div 256, Len(at.attested.id) % 256>> \in Seq(Byte)
    /\ at.attested.aaguid \o <<Len(at.attested.id) \div 256, Len(at.attested.id) % 256>>
         \o at.attested.id \o at.attested.key \o at.rest = rest

LEMMA AttestedExact ==
    ASSUME NEW rest \in Seq(Byte), ParseAttested(rest).err = "none"
    PROVE  SplitsInto(rest, ParseAttested(rest))
<1> DEFINE n == Uint16(After(rest, aaguidLen))
           id == After(rest, aaguidLen + credentialIDSize)
           key == After(id, n)
           at == ParseAttested(rest)
<1>1. aaguidLen = 16 /\ credentialIDSize = 2 /\ Len(rest) \in Nat
  BY DEF aaguidLen, credentialIDSize
<1>2. /\ ~(Len(rest) < aaguidLen + credentialIDSize) /\ ~(Len(id) < n) /\ KeyLen(key) # 0
      /\ at = [err |-> "none", rest |-> After(key, KeyLen(key)),
               attested |-> [aaguid |-> SubSeq(rest, 1, aaguidLen), id |-> SubSeq(id, 1, n),
                             key |-> SubSeq(key, 1, KeyLen(key))]]
  BY DEF ParseAttested
<1>3. Len(rest) >= 18
  BY <1>1, <1>2
<1>4. rest[17] \in Byte /\ rest[18] \in Byte
  BY <1>3
<1>5. /\ After(rest, 16)[1] = rest[17] /\ After(rest, 16)[2] = rest[18]
      /\ SubSeq(rest, 1, 16) \in Seq(Byte) /\ SubSeq(rest, 1, 18) \o After(rest, 18) = rest
      /\ id \in Seq(Byte)
  <2>1. /\ After(rest, 16) \in Seq(Byte)
        /\ \A i \in 1 .. Len(rest) - 16 : After(rest, 16)[i] = rest[16 + i]
        /\ SubSeq(rest, 1, 16) \in Seq(Byte)
    <3>1. 16 \in 0 .. Len(rest)
      BY <1>1, <1>3
    <3>2. QED
      BY <3>1, Cuts
  <2>2. SubSeq(rest, 1, 18) \o After(rest, 18) = rest /\ After(rest, 18) \in Seq(Byte)
    <3>1. 18 \in 0 .. Len(rest)
      BY <1>1, <1>3
    <3>2. QED
      BY <3>1, Cuts
  <2>3. 1 \in 1 .. Len(rest) - 16 /\ 2 \in 1 .. Len(rest) - 16
    BY <1>3
  <2>4. After(rest, 16)[1] = rest[16 + 1] /\ After(rest, 16)[2] = rest[16 + 2]
    BY <2>1, <2>3
  <2>5. aaguidLen + credentialIDSize = 18
    BY <1>1
  <2>6. id \in Seq(Byte)
    BY <2>2, <2>5
  <2> HIDE DEF id
  <2>7. QED
    BY <2>1, <2>2, <2>4, <2>6
<1>6. n = 256 * rest[17] + rest[18]
  BY <1>1, <1>5 DEF Uint16
<1>7. n \in Nat /\ n \div 256 = rest[17] /\ n % 256 = rest[18]
  <2>1. PICK hi \in Byte, lo \in Byte : hi = rest[17] /\ lo = rest[18]
    BY <1>4
  <2> HIDE DEF n
  <2>2. n = 256 * hi + lo
    BY <1>6, <2>1
  <2>3. QED
    <3>1. 256 * hi + lo \in Nat /\ (256 * hi + lo) \div 256 = hi /\ (256 * hi + lo) % 256 = lo
      BY TwoBytes, Zenon
    <3>2. QED
      BY <2>1, <2>2, <3>1
<1>8. SubSeq(rest, 1, 16) \o <<n \div 256, n % 256>> = SubSeq(rest, 1, 18)
  <2>1. SubSeq(rest, 17, 18) = <<rest[17], rest[18]>>
    BY <1>3, TwoOf
  <2>2. SubSeq(rest, 1, 16) \o SubSeq(rest, 17, 18) = SubSeq(rest, 1, 18)
    BY <1>3, ConcatAdjacentSubSeq
  <2>3. QED
    BY <1>7, <2>1, <2>2
<1> HIDE DEF n, id
<1>9. n \in 0 .. Len(id)
  BY <1>2, <1>5, <1>7
<1>10. /\ SubSeq(id, 1, n) \in Seq(Byte) /\ Len(SubSeq(id, 1, n)) = n /\ key \in Seq(Byte)
       /\ SubSeq(id, 1, n) \o key = id
  BY <1>5, <1>9, Cuts
<1> HIDE DEF key
<1>11. KeyLen(key) \in 0 .. Len(key)
  BY <1>10, ItemEnds DEF KeyLen
<1>12. /\ SubSeq(key, 1, KeyLen(key)) \in Seq(Byte) /\ After(key, KeyLen(key)) \in Seq(Byte)
       /\ SubSeq(key, 1, KeyLen(key)) \o After(key, KeyLen(key)) = key
  BY <1>10, <1>11, Cuts
<1> DEFINE A == SubSeq(rest, 1, 16)
           N == <<n \div 256, n % 256>>
           I == SubSeq(id, 1, n)
           K == SubSeq(key, 1, KeyLen(key))
           R == After(key, KeyLen(key))
<1>13. N \in Seq(Byte)
  BY <1>4, <1>7
<1>14. at.rest = R /\ at.attested.aaguid = A /\ at.attested.id = I /\ at.attested.key = K
  <2> HIDE DEF at, key
  <2>1. at = [err |-> "none", rest |-> R, attested |-> [aaguid |-> A, id |-> I, key |-> K]]
    BY <1>1, <1>2, Zenon
  <2> HIDE DEF A, I, K, R
  <2>2. QED
    BY <2>1
<1>15. A \in Seq(Byte) /\ I \in Seq(Byte) /\ K \in Seq(Byte) /\ R \in Seq(Byte) /\ Len(I) = n
  BY <1>5, <1>10, <1>12
<1>16. (A \o N) \o id = rest
  BY <1>1, <1>5, <1>8 DEF id
<1>17. <<Len(I) \div 256, Len(I) % 256>> = N
  BY <1>15
<1> HIDE DEF A, N, I, K, R, at
<1>18. A \o N \o I \o K \o R = rest
  <2>1. I \o key = id /\ K \o R = key
    BY <1>10, <1>12 DEF I, K, R
  <2>2. QED
    <3>1. A \o N \o I \o K \o R = (A \o N) \o (I \o (K \o R))
      <4>1. PICK a, m, i, k, r : a = A /\ m = N /\ i = I /\ k = K /\ r = R
        OBVIOUS
      <4>2. /\ a \in Seq(Byte) /\ m \in Seq(Byte) /\ i \in Seq(Byte) /\ k \in Seq(Byte)
            /\ r \in Seq(Byte)
        BY <1>13, <1>15, <4>1
      <4>3. Cat(Cat(Cat(Cat(a, m), i), k), r) = Cat(Cat(a, m), Cat(i, Cat(k, r)))
        BY <4>2, Five
      <4>4. QED
        BY <4>1, <4>3 DEF Cat
    <3>2. QED
      BY <1>16, <2>1, <3>1, Zenon
<1>19. QED
  <2>1. SplitsInto(rest, at)
    BY <1>13, <1>14, <1>15, <1>17, <1>18, Zenon DEF SplitsInto
  <2>2. QED
    BY <2>1, Zenon DEF at

(* The parts of the credential and of the rest, as EncodeAuthData writes them. *)
Header(a) == a.rpIDHash \o <<a.flags>> \o a.signCount

Credential(a) ==
    IF FlagHas(a.flags, FlagAT)
    THEN a.attested.aaguid \o <<Len(a.attested.id) \div 256, Len(a.attested.id) % 256>>
           \o a.attested.id \o a.attested.key
    ELSE << >>

Extensions(a) == IF FlagHas(a.flags, FlagED) THEN a.extensions ELSE << >>

LEMMA EncodeIs == ASSUME NEW a PROVE EncodeAuthData(a) = Header(a) \o Credential(a) \o Extensions(a)
BY Zenon DEF EncodeAuthData, Header, Credential, Extensions

(* What ParseAuthData does when it accepts. *)
LEMMA Accepted ==
    ASSUME NEW b \in Seq(Byte), ParseAuthData(b).err = "none"
    PROVE  LET flags == b[rpIDHashLen + 1]
               body == After(b, authDataHeader)
               at == IF FlagHas(flags, FlagAT) THEN ParseAttested(body)
                     ELSE [err |-> "none", attested |-> NoAttested, rest |-> body] IN
           /\ Len(b) >= authDataHeader /\ at.err = "none" /\ Accounted(flags, at.rest)
           /\ ParseAuthData(b) =
                 Parsed(b, at.attested, IF FlagHas(flags, FlagED) THEN at.rest ELSE << >>)
<1> DEFINE flags == b[rpIDHashLen + 1]
           body == After(b, authDataHeader)
           at == IF FlagHas(flags, FlagAT) THEN ParseAttested(body)
                 ELSE [err |-> "none", attested |-> NoAttested, rest |-> body]
           read == Parsed(b, at.attested, IF FlagHas(flags, FlagED) THEN at.rest ELSE << >>)
<1>1. \A e : Malformed(e).err = e
  BY DEF Malformed
<1>2. ParseAuthData(b) = IF Len(b) < authDataHeader THEN Malformed("header")
                         ELSE IF at.err # "none" THEN Malformed(at.err)
                         ELSE IF ~Accounted(flags, at.rest) THEN Malformed("unaccounted")
                         ELSE read
  BY Zenon DEF ParseAuthData
<1> HIDE DEF at, flags, body, read
<1>3. /\ ~(Len(b) < authDataHeader) /\ at.err = "none" /\ Accounted(flags, at.rest)
      /\ ParseAuthData(b) = read
  BY <1>1, <1>2
<1>4. Len(b) \in Nat /\ authDataHeader \in Nat
  BY DEF authDataHeader, rpIDHashLen, signCountLen
<1>5. Len(b) >= authDataHeader
  BY <1>3, <1>4
<1>6. QED
  BY <1>3, <1>5, Zenon DEF at, flags, body, read

LEMMA ParsedIs ==
    ASSUME NEW b, NEW attested, NEW extensions
    PROVE  LET a == Parsed(b, attested, extensions) IN
           /\ a.err = "none" /\ a.rpIDHash = SubSeq(b, 1, rpIDHashLen)
           /\ a.flags = b[rpIDHashLen + 1]
           /\ a.signCount = SubSeq(b, rpIDHashLen + 2, authDataHeader)
           /\ a.attested = attested /\ a.extensions = extensions
BY DEF Parsed

(* Whatever is accepted is what its parts encode to. *)
LEMMA Exact ==
    ASSUME NEW b \in Seq(Byte), ParseAuthData(b).err = "none"
    PROVE  EncodeAuthData(ParseAuthData(b)) = b
<1> DEFINE flags == b[rpIDHashLen + 1]
           body == After(b, authDataHeader)
           at == IF FlagHas(flags, FlagAT) THEN ParseAttested(body)
                 ELSE [err |-> "none", attested |-> NoAttested, rest |-> body]
           extensions == IF FlagHas(flags, FlagED) THEN at.rest ELSE << >>
<1>1. PICK a : a = ParseAuthData(b)
  OBVIOUS
<1>2. /\ Len(b) >= authDataHeader /\ at.err = "none" /\ Accounted(flags, at.rest)
      /\ a = Parsed(b, at.attested, extensions)
  BY <1>1, Accepted, Zenon
<1>3. /\ a.rpIDHash = SubSeq(b, 1, rpIDHashLen) /\ a.flags = flags
      /\ a.signCount = SubSeq(b, rpIDHashLen + 2, authDataHeader)
      /\ a.attested = at.attested /\ a.extensions = extensions
  <2>1. PICK att, ext : att = at.attested /\ ext = extensions
    OBVIOUS
  <2> HIDE DEF at, extensions
  <2>2. a = Parsed(b, att, ext)
    BY <1>2, <2>1
  <2>3. /\ a.rpIDHash = SubSeq(b, 1, rpIDHashLen) /\ a.flags = b[rpIDHashLen + 1]
        /\ a.signCount = SubSeq(b, rpIDHashLen + 2, authDataHeader)
        /\ a.attested = att /\ a.extensions = ext
    BY <2>2 DEF Parsed
  <2>4. QED
    BY <2>1, <2>3
<1> HIDE DEF extensions
<1>4. /\ Header(a) \o body = b /\ body \in Seq(Byte) /\ Header(a) \in Seq(Byte)
  <2>1. /\ a.rpIDHash \in Seq(Byte) /\ <<a.flags>> \in Seq(Byte) /\ a.signCount \in Seq(Byte)
    <3>1. PICK h, f, n : /\ h = SubSeq(b, 1, rpIDHashLen) /\ f = b[rpIDHashLen + 1]
                         /\ n = SubSeq(b, rpIDHashLen + 2, authDataHeader)
      OBVIOUS
    <3>2. h \in Seq(Byte) /\ f \in Byte /\ n \in Seq(Byte)
      BY <1>2, <3>1, HeaderOf, Zenon
    <3>3. <<f>> \in Seq(Byte)
      BY <3>2
    <3>4. QED
      BY <1>3, <3>1, <3>2, <3>3, Zenon
  <2>2. Header(a) = Cat(Cat(a.rpIDHash, <<a.flags>>), a.signCount)
    BY DEF Header, Cat
  <2>3. Cat(a.rpIDHash, <<a.flags>>) \in Seq(Byte)
    BY <2>1, CatIs
  <2>4. Header(a) \in Seq(Byte)
    BY <2>1, <2>2, <2>3, CatIs
  <2>5. QED
    BY <1>2, <1>3, <2>4, HeaderOf DEF Header
<1>5. /\ Credential(a) \in Seq(Byte) /\ at.rest \in Seq(Byte) /\ Credential(a) \o at.rest = body
  <2>1. CASE FlagHas(flags, FlagAT)
    <3>1. at = ParseAttested(body)
      BY <2>1
    <3>2. Credential(a) = at.attested.aaguid
             \o <<Len(at.attested.id) \div 256, Len(at.attested.id) % 256>>
             \o at.attested.id \o at.attested.key
      BY <1>3, <2>1, Zenon DEF Credential
    <3> HIDE DEF at, body
    <3>3. ParseAttested(body).err = "none"
      BY <1>2, <3>1
    <3>4. /\ at.rest \in Seq(Byte)
          /\ at.attested.aaguid \in Seq(Byte) /\ at.attested.id \in Seq(Byte)
          /\ at.attested.key \in Seq(Byte)
          /\ <<Len(at.attested.id) \div 256, Len(at.attested.id) % 256>> \in Seq(Byte)
          /\ at.attested.aaguid \o <<Len(at.attested.id) \div 256, Len(at.attested.id) % 256>>
               \o at.attested.id \o at.attested.key \o at.rest = body
      <4>1. SplitsInto(body, ParseAttested(body))
        BY <1>4, <3>3, AttestedExact
      <4>2. SplitsInto(body, at)
        BY <3>1, <4>1, Zenon
      <4>3. QED
        BY <4>2, Zenon DEF SplitsInto
    <3>5. Credential(a) = Cat(Cat(Cat(at.attested.aaguid,
             <<Len(at.attested.id) \div 256, Len(at.attested.id) % 256>>),
             at.attested.id), at.attested.key)
      BY <3>2, Zenon DEF Cat
    <3>6. Credential(a) \in Seq(Byte)
      <4>1. PICK g, n, i, k, r :
               /\ g = at.attested.aaguid
               /\ n = <<Len(at.attested.id) \div 256, Len(at.attested.id) % 256>>
               /\ i = at.attested.id /\ k = at.attested.key /\ r = at.rest
        OBVIOUS
      <4>2. /\ g \in Seq(Byte) /\ n \in Seq(Byte) /\ i \in Seq(Byte) /\ k \in Seq(Byte)
            /\ r \in Seq(Byte)
        BY <3>4, <4>1, Zenon
      <4>3. Cat(Cat(Cat(g, n), i), k) \in Seq(Byte)
        BY <4>2, Five
      <4>4. QED
        BY <3>5, <4>1, <4>3, Zenon
    <3>7. QED
      BY <3>2, <3>4, <3>6
  <2>2. CASE ~FlagHas(flags, FlagAT)
    <3>1. at.rest = body /\ Credential(a) = << >>
      BY <1>3, <2>2, Zenon DEF Credential
    <3> HIDE DEF at, body
    <3>2. QED
      BY <1>4, <3>1, ConcatEmptySeq, EmptySeq
  <2>3. QED
    BY <2>1, <2>2
<1>6. Extensions(a) = at.rest
  <2>1. ~FlagHas(flags, FlagED) => at.rest = << >>
    BY <1>2 DEF Accounted
  <2>2. Extensions(a) = IF FlagHas(flags, FlagED) THEN at.rest ELSE << >>
    BY <1>3, Zenon DEF Extensions, extensions
  <2>3. QED
    BY <2>1, <2>2, Zenon
<1> HIDE DEF at, body, flags
<1>7. PICK h, c, r : h = Header(a) /\ c = Credential(a) /\ r = at.rest
  OBVIOUS
<1>8. Cat(Cat(h, c), r) = Cat(h, Cat(c, r))
  <2>1. h \in Seq(Byte) /\ c \in Seq(Byte) /\ r \in Seq(Byte)
    BY <1>4, <1>5, <1>7, Zenon
  <2>2. QED
    BY <2>1, CatIs
<1>9. EncodeAuthData(a) = Cat(Cat(h, c), r)
  BY <1>6, <1>7, EncodeIs, Zenon DEF Cat
<1>10. Cat(h, Cat(c, r)) = b
  BY <1>4, <1>5, <1>7, Zenon DEF Cat
<1>11. QED
  BY <1>1, <1>8, <1>9, <1>10

----------------------------------------------------------------------------
(* Two sequences put together: each is found again. *)
Joins(all, s, t) ==
    /\ all \in Seq(Byte) /\ Len(all) = Len(s) + Len(t)
    /\ \A i \in 1 .. Len(s) : all[i] = s[i]
    /\ \A i \in 1 .. Len(t) : all[Len(s) + i] = t[i]
    /\ SubSeq(all, 1, Len(s)) = s /\ After(all, Len(s)) = t
    /\ Len(s) \in Nat /\ Len(t) \in Nat /\ Len(all) \in Nat

LEMMA Joined == ASSUME NEW s \in Seq(Byte), NEW t \in Seq(Byte) PROVE Joins(Cat(s, t), s, t)
<1>1. /\ s \o t \in Seq(Byte) /\ Len(s) \in Nat /\ Len(t) \in Nat /\ Len(s \o t) = Len(s) + Len(t)
      /\ \A i \in 1 .. Len(s) + Len(t) :
            (s \o t)[i] = IF i <= Len(s) THEN s[i] ELSE t[i - Len(s)]
  BY ConcatProperties, LenProperties
<1>2. \A i \in 1 .. Len(s) : (s \o t)[i] = s[i]
  BY <1>1
<1>3. \A i \in 1 .. Len(t) : (s \o t)[Len(s) + i] = t[i]
  BY <1>1
<1>4. SubSeq(s \o t, 1, Len(s)) = s /\ After(s \o t, Len(s)) = t
  BY Parts
<1>5. Len(s) + Len(t) \in Nat
  BY <1>1
<1>6. QED
  BY <1>1, <1>2, <1>3, <1>4, <1>5, Zenon DEF Cat, Joins

(* The second of three is found again too. *)
LEMMA Middle ==
    ASSUME NEW s \in Seq(Byte), NEW t \in Seq(Byte), NEW u \in Seq(Byte)
    PROVE  SubSeq(Cat(Cat(s, t), u), Len(s) + 1, Len(s) + Len(t)) = t
<1>1. PICK st, all : st = Cat(s, t) /\ all = Cat(st, u)
  OBVIOUS
<1>2. /\ st \in Seq(Byte) /\ Len(s) \in Nat /\ Len(t) \in Nat /\ Len(st) = Len(s) + Len(t)
      /\ \A i \in 1 .. Len(t) : st[Len(s) + i] = t[i]
  <2>1. Joins(st, s, t)
    BY <1>1, Joined
  <2>2. QED
    BY <2>1 DEF Joins
<1>3. /\ all \in Seq(Byte) /\ Len(all) = Len(st) + Len(u) /\ Len(u) \in Nat
      /\ \A i \in 1 .. Len(st) : all[i] = st[i]
  <2>1. Joins(all, st, u)
    BY <1>1, <1>2, Joined
  <2>2. QED
    BY <2>1 DEF Joins
<1>4. PICK m, n : m = Len(s) + 1 /\ n = Len(s) + Len(t)
  OBVIOUS
<1>5. m \in 1 .. Len(all) + 1 /\ n \in m - 1 .. Len(all) /\ n - m + 1 = Len(t)
  BY <1>2, <1>3, <1>4
<1>6. /\ SubSeq(all, m, n) \in Seq(Byte) /\ Len(SubSeq(all, m, n)) = Len(t)
      /\ \A i \in 1 .. Len(t) : SubSeq(all, m, n)[i] = all[m + i - 1]
  BY <1>3, <1>5, Between
<1>7. \A i \in 1 .. Len(t) : all[m + i - 1] = t[i]
  <2>1. TAKE i \in 1 .. Len(t)
  <2>2. m + i - 1 = Len(s) + i /\ Len(s) + i \in 1 .. Len(st)
    BY <1>2, <1>4
  <2>3. QED
    BY <1>2, <1>3, <2>2
<1>8. \A i \in 1 .. Len(t) : SubSeq(all, m, n)[i] = t[i]
  BY <1>6, <1>7
<1>9. SubSeq(all, m, n) = t
  BY <1>6, <1>8, SeqEqual
<1>10. QED
  BY <1>1, <1>4, <1>9

(* The header is found again in front of whatever follows it. *)
Headed(b, r, f, s, t) ==
    /\ b \in Seq(Byte) /\ Len(b) >= 37
    /\ SubSeq(b, 1, 32) = r /\ b[33] = f[1]
    /\ SubSeq(b, 34, 37) = s /\ After(b, 37) = t

LEMMA HeaderRead ==
    ASSUME NEW r \in Seq(Byte), Len(r) = 32, NEW f \in Seq(Byte), Len(f) = 1,
           NEW s \in Seq(Byte), Len(s) = 4, NEW t \in Seq(Byte)
    PROVE  Headed(Cat(Cat(Cat(r, f), s), t), r, f, s, t)
<1>1. PICK x, y, b : x = Cat(r, f) /\ y = Cat(x, s) /\ b = Cat(y, t)
  OBVIOUS
<1>2. Joins(x, r, f)
  BY <1>1, Joined
<1>3. x \in Seq(Byte) /\ Len(x) = 33 /\ x[33] = f[1]
  BY <1>2 DEF Joins
<1>4. y \in Seq(Byte) /\ Len(y) = 37 /\ y[33] = x[33]
  <2>1. Joins(y, x, s)
    BY <1>1, <1>3, Joined
  <2>2. QED
    BY <1>3, <2>1 DEF Joins
<1>5. b = Cat(y, t)
  BY <1>1
<1>6. /\ b \in Seq(Byte) /\ Len(b) = Len(y) + Len(t) /\ Len(t) \in Nat
      /\ After(b, Len(y)) = t /\ \A i \in 1 .. Len(y) : b[i] = y[i]
  <2>1. Joins(b, y, t)
    BY <1>4, <1>5, Joined
  <2>2. QED
    BY <2>1 DEF Joins
<1>7. Len(b) >= 37 /\ After(b, 37) = t /\ b[33] = f[1]
  BY <1>3, <1>4, <1>6
<1>8. SubSeq(b, 34, 37) = s
  <2>1. b = Cat(Cat(x, s), t)
    BY <1>1
  <2>2. SubSeq(Cat(Cat(x, s), t), Len(x) + 1, Len(x) + Len(s)) = s
    BY <1>3, Middle, Zenon
  <2>3. QED
    BY <1>3, <2>1, <2>2
<1>9. SubSeq(b, 1, 32) = r
  <2>1. PICK st : st = Cat(s, t)
    OBVIOUS
  <2>2. st \in Seq(Byte) /\ b = Cat(x, st)
    BY <1>1, <1>3, <2>1, CatIs
  <2>3. PICK rest : rest = Cat(f, st)
    OBVIOUS
  <2>4. rest \in Seq(Byte) /\ b = Cat(r, rest)
    BY <1>1, <2>2, <2>3, CatIs
  <2>5. Joins(b, r, rest)
    BY <2>4, Joined
  <2>6. QED
    BY <2>5 DEF Joins
<1>10. QED
  BY <1>1, <1>6, <1>7, <1>8, <1>9 DEF Headed

(* So is a credential. *)
Attests(t, g, i, k, e) ==
    ParseAttested(t) = [err |-> "none", rest |-> e,
                        attested |-> [aaguid |-> g, id |-> i, key |-> k]]

LEMMA AttestedRead ==
    ASSUME NEW g \in Seq(Byte), Len(g) = 16, NEW n, NEW i \in Seq(Byte), Sizes(n, i),
           NEW k \in Seq(Byte), IsItem(k), NEW e \in Seq(Byte)
    PROVE  Attests(Cat(Cat(Cat(Cat(g, n), i), k), e), g, i, k, e)
<1> n \in Seq(Byte) /\ Len(n) = 2 /\ 256 * n[1] + n[2] = Len(i)
  BY DEF Sizes
<1>1. PICK key, id, x, t : /\ key = Cat(k, e) /\ id = Cat(i, key) /\ x = Cat(g, n)
                           /\ t = Cat(Cat(Cat(Cat(g, n), i), k), e)
  OBVIOUS
<1>2. key \in Seq(Byte) /\ SubSeq(key, 1, Len(k)) = k /\ After(key, Len(k)) = e
  <2>1. Joins(key, k, e)
    BY <1>1, Joined
  <2>2. QED
    BY <2>1 DEF Joins
<1>3. /\ id \in Seq(Byte) /\ Len(id) = Len(i) + Len(key) /\ Len(key) \in Nat /\ Len(i) \in Nat
      /\ SubSeq(id, 1, Len(i)) = i /\ After(id, Len(i)) = key
  <2>1. Joins(id, i, key)
    BY <1>1, <1>2, Joined
  <2>2. QED
    BY <2>1 DEF Joins
<1>4. x \in Seq(Byte) /\ Len(x) = 18
  <2>1. Joins(x, g, n)
    BY <1>1, Joined
  <2>2. QED
    BY <2>1 DEF Joins
<1>5. t = Cat(x, id)
  BY <1>1, Five
<1>6. After(t, 18) = id /\ Len(t) = 18 + Len(id) /\ Len(id) \in Nat
  <2>1. Joins(t, x, id)
    BY <1>3, <1>4, <1>5, Joined
  <2>2. QED
    BY <1>4, <2>1 DEF Joins
<1>7. SubSeq(t, 1, 16) = g /\ Uint16(After(t, 16)) = Len(i)
  <2>1. PICK y : y = Cat(n, id)
    OBVIOUS
  <2>2. Joins(y, n, id)
    BY <1>3, <2>1, Joined
  <2>3. t = Cat(g, y)
    BY <1>1, <1>3, <1>5, <2>1, CatIs
  <2>4. y \in Seq(Byte) /\ y[1] = n[1] /\ y[2] = n[2]
    BY <2>2 DEF Joins
  <2>5. SubSeq(t, 1, 16) = g /\ After(t, 16) = y
    <3>1. Joins(t, g, y)
      BY <2>3, <2>4, Joined
    <3>2. QED
      BY <3>1 DEF Joins
  <2>6. Uint16(y) = Len(i)
    BY <2>4 DEF Uint16
  <2>7. QED
    BY <2>5, <2>6
<1>8. KeyLen(key) = Len(k) /\ Len(k) # 0
  <2>1. ItemLen(k \o e) = Len(k) /\ Len(k) > 0
    BY ItemInFront
  <2>2. QED
    BY <1>1, <2>1 DEF KeyLen, Cat
<1>9. aaguidLen = 16 /\ aaguidLen + credentialIDSize = 18
  BY DEF aaguidLen, credentialIDSize
<1>10. ~(Len(t) < 18) /\ ~(Len(id) < Len(i))
  BY <1>3, <1>6
<1>11. /\ ~(Len(t) < aaguidLen + credentialIDSize)
       /\ After(t, aaguidLen + credentialIDSize) = id /\ Uint16(After(t, aaguidLen)) = Len(i)
       /\ SubSeq(t, 1, aaguidLen) = g
  BY <1>6, <1>7, <1>9, <1>10
<1>12. QED
  BY <1>1, <1>2, <1>3, <1>8, <1>10, <1>11, Zenon DEF ParseAttested, Attests

(* What an authenticator writes is a byte string, and is read back as it was  *)
(* written.                                                                   *)
LEMMA WrittenParts ==
    ASSUME NEW a, WellFormed(a)
    PROVE  /\ Header(a) \in Seq(Byte) /\ Credential(a) \in Seq(Byte) /\ Extensions(a) \in Seq(Byte)
           /\ EncodeAuthData(a) = Cat(Cat(Header(a), Credential(a)), Extensions(a))
           /\ EncodeAuthData(a) = Cat(Header(a), Cat(Credential(a), Extensions(a)))
           /\ EncodeAuthData(a) \in Seq(Byte) /\ Cat(Credential(a), Extensions(a)) \in Seq(Byte)
<1>1. Header(a) \in Seq(Byte)
  <2>1. a.rpIDHash \in Seq(Byte) /\ a.flags \in Byte /\ a.signCount \in Seq(Byte)
    BY DEF WellFormed
  <2>2. PICK f : f = <<a.flags>>
    OBVIOUS
  <2>3. f \in Seq(Byte)
    BY <2>1, <2>2
  <2>4. Cat(a.rpIDHash, f) \in Seq(Byte)
    BY <2>1, <2>3, CatIs
  <2>5. Cat(Cat(a.rpIDHash, f), a.signCount) \in Seq(Byte)
    BY <2>1, <2>4, CatIs
  <2>6. QED
    BY <2>2, <2>5, Zenon DEF Header, Cat
<1>2. Credential(a) \in Seq(Byte)
  <2>1. CASE FlagHas(a.flags, FlagAT)
    <3>1. /\ a.attested.aaguid \in Seq(Byte) /\ a.attested.id \in Seq(Byte)
          /\ Len(a.attested.id) < 65536 /\ a.attested.key \in Seq(Byte)
      BY <2>1 DEF WellFormed, IsItem
    <3>2. PICK g, n, i, k : /\ g = a.attested.aaguid /\ i = a.attested.id /\ k = a.attested.key
                            /\ n = <<Len(i) \div 256, Len(i) % 256>>
      OBVIOUS
    <3>3. g \in Seq(Byte) /\ i \in Seq(Byte) /\ k \in Seq(Byte) /\ Len(i) < 65536
      BY <3>1, <3>2
    <3>4. n \in Seq(Byte)
      <4>1. Sizes(<<Len(i) \div 256, Len(i) % 256>>, i)
        BY <3>3, LengthBytes
      <4>2. QED
        BY <3>2, <4>1 DEF Sizes
    <3>5. Cat(Cat(Cat(g, n), i), k) \in Seq(Byte)
      <4>1. Cat(g, n) \in Seq(Byte)
        BY <3>3, <3>4, CatIs
      <4>2. Cat(Cat(g, n), i) \in Seq(Byte)
        BY <3>3, <4>1, CatIs
      <4>3. QED
        BY <3>3, <4>2, CatIs
    <3>6. Credential(a) = Cat(Cat(Cat(g, n), i), k)
      BY <2>1, <3>2, Zenon DEF Credential, Cat
    <3>7. QED
      BY <3>5, <3>6
  <2>2. CASE ~FlagHas(a.flags, FlagAT)
    BY <2>2, EmptySeq DEF Credential
  <2>3. QED
    BY <2>1, <2>2
<1>3. Extensions(a) \in Seq(Byte)
  <2>1. FlagHas(a.flags, FlagED) => a.extensions \in Seq(Byte)
    BY DEF WellFormed, IsItem
  <2>2. << >> \in Seq(Byte)
    BY EmptySeq
  <2>3. QED
    BY <2>1, <2>2, Zenon DEF Extensions
<1>4. EncodeAuthData(a) = Cat(Cat(Header(a), Credential(a)), Extensions(a))
  BY EncodeIs, Zenon DEF Cat
<1>5. Cat(Cat(Header(a), Credential(a)), Extensions(a))
         = Cat(Header(a), Cat(Credential(a), Extensions(a)))
  BY <1>1, <1>2, <1>3, CatIs
<1>6. Cat(Credential(a), Extensions(a)) \in Seq(Byte)
  BY <1>2, <1>3, CatIs
<1>7. Cat(Header(a), Cat(Credential(a), Extensions(a))) \in Seq(Byte)
  BY <1>1, <1>6, CatIs
<1>8. QED
  BY <1>1, <1>2, <1>3, <1>4, <1>5, <1>6, <1>7

LEMMA ReadAsWritten ==
    ASSUME NEW a, WellFormed(a) PROVE ParseAuthData(EncodeAuthData(a)) = a
<1>1. PICK b, t, e : /\ b = EncodeAuthData(a) /\ e = Extensions(a) /\ t = Cat(Credential(a), e)
  OBVIOUS
<1>2. b = Cat(Header(a), t) /\ t \in Seq(Byte) /\ e \in Seq(Byte)
  BY <1>1, WrittenParts
<1>3. /\ Len(b) >= 37 /\ SubSeq(b, 1, 32) = a.rpIDHash /\ b[33] = a.flags
      /\ SubSeq(b, 34, 37) = a.signCount /\ After(b, 37) = t /\ b \in Seq(Byte)
  <2>1. PICK r, f, s : r = a.rpIDHash /\ f = <<a.flags>> /\ s = a.signCount
    OBVIOUS
  <2>2. /\ r \in Seq(Byte) /\ Len(r) = 32 /\ s \in Seq(Byte) /\ Len(s) = 4 /\ a.flags \in Byte
    BY <2>1 DEF WellFormed, rpIDHashLen, signCountLen
  <2>3. f \in Seq(Byte) /\ Len(f) = 1 /\ f[1] = a.flags
    BY <2>1, <2>2
  <2>4. b = Cat(Cat(Cat(r, f), s), t)
    BY <1>2, <2>1, Zenon DEF Header, Cat
  <2>5. Headed(Cat(Cat(Cat(r, f), s), t), r, f, s, t)
    BY <1>2, <2>2, <2>3, HeaderRead
  <2>6. QED
    BY <2>1, <2>3, <2>4, <2>5 DEF Headed
<1>4. rpIDHashLen = 32 /\ rpIDHashLen + 1 = 33 /\ rpIDHashLen + 2 = 34 /\ authDataHeader = 37
  BY DEF rpIDHashLen, signCountLen, authDataHeader
<1> DEFINE at == IF FlagHas(a.flags, FlagAT) THEN ParseAttested(t)
                 ELSE [err |-> "none", attested |-> NoAttested, rest |-> t]
<1>5. at.err = "none" /\ at.attested = a.attested /\ at.rest = e
  <2>1. CASE FlagHas(a.flags, FlagAT)
    <3>1. /\ a.attested = [aaguid |-> a.attested.aaguid, id |-> a.attested.id, key |-> a.attested.key]
          /\ a.attested.aaguid \in Seq(Byte) /\ Len(a.attested.aaguid) = 16
          /\ a.attested.id \in Seq(Byte) /\ Len(a.attested.id) < 65536
          /\ IsItem(a.attested.key) /\ a.attested.key \in Seq(Byte)
      BY <2>1 DEF WellFormed, IsItem, aaguidLen
    <3>2. PICK g, n, i, k : /\ g = a.attested.aaguid /\ i = a.attested.id /\ k = a.attested.key
                            /\ n = <<Len(i) \div 256, Len(i) % 256>>
      OBVIOUS
    <3>3. /\ g \in Seq(Byte) /\ Len(g) = 16 /\ i \in Seq(Byte) /\ Len(i) < 65536 /\ IsItem(k)
          /\ k \in Seq(Byte) /\ a.attested = [aaguid |-> g, id |-> i, key |-> k]
      BY <3>1, <3>2
    <3>4. Sizes(n, i)
      <4>1. Sizes(<<Len(i) \div 256, Len(i) % 256>>, i)
        BY <3>3, LengthBytes
      <4>2. QED
        BY <3>2, <4>1
    <3>5. t = Cat(Cat(Cat(Cat(g, n), i), k), e)
      BY <1>1, <2>1, <3>2, Zenon DEF Credential, Cat
    <3>6. Attests(Cat(Cat(Cat(Cat(g, n), i), k), e), g, i, k, e)
      BY <1>2, <3>3, <3>4, AttestedRead
    <3>7. QED
      BY <2>1, <3>3, <3>5, <3>6 DEF Attests
  <2>2. CASE ~FlagHas(a.flags, FlagAT)
    <3>1. a.attested = NoAttested /\ Credential(a) = << >>
      BY <2>2 DEF WellFormed, Credential
    <3>2. t = << >> \o e
      BY <1>1, <3>1, Zenon DEF Cat
    <3>3. t = e
      BY <1>2, <3>2, ConcatEmptySeq
    <3>4. QED
      BY <2>2, <3>1, <3>3
  <2>3. QED
    BY <2>1, <2>2
<1>6. /\ Accounted(a.flags, e)
      /\ (IF FlagHas(a.flags, FlagED) THEN e ELSE << >>) = a.extensions
  <2>1. CASE FlagHas(a.flags, FlagED)
    <3>1. e = a.extensions /\ IsItem(a.extensions)
      BY <1>1, <2>1 DEF Extensions, WellFormed
    <3>2. QED
      BY <2>1, <3>1 DEF Accounted, IsItem
  <2>2. CASE ~FlagHas(a.flags, FlagED)
    <3>1. e = << >> /\ a.extensions = << >>
      BY <1>1, <2>2 DEF Extensions, WellFormed
    <3>2. QED
      BY <2>2, <3>1 DEF Accounted
  <2>3. QED
    BY <2>1, <2>2
<1>7. ParseAuthData(b) = Parsed(b, a.attested, a.extensions)
  <2>1. ~(Len(b) < authDataHeader)
    <3>1. Len(b) \in Nat /\ Len(b) >= 37
      BY <1>3
    <3>2. authDataHeader = 37
      BY <1>4
    <3>3. QED
      BY <3>1, <3>2
  <2>2. b[rpIDHashLen + 1] = a.flags /\ After(b, authDataHeader) = t
    BY <1>3, <1>4
  <2>3. ParseAuthData(b) =
           IF at.err # "none" THEN Malformed(at.err)
           ELSE IF ~Accounted(a.flags, at.rest) THEN Malformed("unaccounted")
           ELSE Parsed(b, at.attested, IF FlagHas(a.flags, FlagED) THEN at.rest ELSE << >>)
    BY <2>1, <2>2, Zenon DEF ParseAuthData
  <2> HIDE DEF at
  <2>4. QED
    BY <1>5, <1>6, <2>3, Zenon
<1>8. Parsed(b, a.attested, a.extensions) =
         [err |-> "none", rpIDHash |-> a.rpIDHash, flags |-> a.flags, signCount |-> a.signCount,
          attested |-> a.attested, extensions |-> a.extensions]
  BY <1>3, <1>4 DEF Parsed
<1>9. QED
  BY <1>1, <1>7, <1>8 DEF WellFormed

----------------------------------------------------------------------------
(***************************************************************************)
(* Keys.  The library's induction theorems have an operator as parameter;  *)
(* for a set of numbers the same follows from a theorem without one, that  *)
(* inclusion is well founded among finite sets.                            *)
(***************************************************************************)
LEMMA Least ==
    ASSUME NEW T \in SUBSET Nat, T # {}
    PROVE  \E n \in T : \A m \in T : n <= m
<1> DEFINE U == {1 .. n : n \in T}
           R == StrictSubsetOrdering(Nat)
           F == FiniteSubsetsOf(Nat)
<1>1. IsWellFoundedOn(R, F)
  BY FS_StrictSubsetOrderingWellFounded
<1>2. ASSUME NEW n \in T PROVE 1 .. n \in F
  BY FS_Interval DEF FiniteSubsetsOf
<1>3. U \subseteq F /\ U # {}
  BY <1>2
<1>4. \E x \in U : \A y \in U : ~(<<y, x>> \in R)
  <2> HIDE DEF U, R, F
  <2> QED BY <1>1, <1>3, WFMin
<1>5. PICK n \in T : \A m \in T : ~(<<1 .. m, 1 .. n>> \in R)
  BY <1>4
<1>6. ASSUME NEW m \in T, m < n PROVE FALSE
  <2>1. 1 .. m \subseteq 1 .. n /\ n \in 1 .. n /\ n \notin 1 .. m
    BY <1>6
  <2>2. 1 .. m \in SUBSET Nat /\ 1 .. n \in SUBSET Nat
    BY <1>6
  <2>3. <<1 .. m, 1 .. n>> \in R
    BY <2>1, <2>2, <1>5 DEF StrictSubsetOrdering
  <2>4. QED
    BY <2>3, <1>5, <1>6
<1>7. QED
  BY <1>5, <1>6

LEMMA Induction ==
    ASSUME NEW P, 0 \in P, \A n \in Nat : n \in P => n + 1 \in P
    PROVE  \A n \in Nat : n \in P
<1> SUFFICES ASSUME Nat \ P # {} PROVE FALSE
  OBVIOUS
<1>1. PICK n \in Nat \ P : \A m \in Nat \ P : n <= m
  BY Least
<1>2. n - 1 \in Nat /\ n - 1 \in P
  BY <1>1
<1>3. QED
  BY <1>1, <1>2

(* The numbers that SetBytes goes through. *)
Reads(b, v, n) ==
    v \in [0 .. n -> Nat] /\ v[0] = 0 /\ \A i \in 1 .. n : v[i] = 256 * v[i - 1] + b[i]

LEMMA ReadsSome == ASSUME NEW b \in Seq(Byte) PROVE \E v : Reads(b, v, Len(b))
<1> DEFINE P == {m \in Nat : m <= Len(b) => \E v : Reads(b, v, m)}
<1>1. 0 \in P
  <2> DEFINE v == [i \in 0 .. 0 |-> 0]
  <2>1. Reads(b, v, 0)
    BY DEF Reads
  <2>2. QED
    BY <2>1
<1>2. ASSUME NEW m \in Nat, m \in P PROVE m + 1 \in P
  <2> SUFFICES ASSUME m + 1 <= Len(b) PROVE \E w : Reads(b, w, m + 1)
    OBVIOUS
  <2>1. PICK v : Reads(b, v, m)
    BY <1>2
  <2>2. PICK y \in Nat : y = 256 * v[m] + b[m + 1]
    <3>1. v[m] \in Nat /\ b[m + 1] \in Nat
      BY <2>1 DEF Reads, Byte
    <3>2. QED
      BY <3>1
  <2> DEFINE w == [i \in 0 .. m + 1 |-> IF i <= m THEN v[i] ELSE y]
  <2>3. w \in [0 .. m + 1 -> Nat] /\ w[0] = 0
    BY <2>1 DEF Reads
  <2>4. ASSUME NEW i \in 1 .. m + 1 PROVE w[i] = 256 * w[i - 1] + b[i]
    <3>1. CASE i \in 1 .. m
      <4>1. w[i] = v[i] /\ w[i - 1] = v[i - 1]
        BY <3>1
      <4>2. QED
        BY <2>1, <3>1, <4>1 DEF Reads
    <3>2. CASE i = m + 1
      <4>1. w[i] = y /\ w[i - 1] = v[m]
        BY <3>2
      <4>2. QED
        BY <2>2, <3>2, <4>1
    <3>3. QED
      BY <3>1, <3>2
  <2> HIDE DEF w
  <2>5. QED
    BY <2>3, <2>4 DEF Reads
<1>3. Len(b) \in P
  <2> HIDE DEF P
  <2> QED BY <1>1, <1>2, Induction
<1>4. QED
  BY <1>3

LEMMA SetBytesReads ==
    ASSUME NEW b \in Seq(Byte)
    PROVE  \E v : Reads(b, v, Len(b)) /\ SetBytes(b) = v[Len(b)]
<1> DEFINE Def(v) == [i \in 0 .. Len(b) |-> IF i = 0 THEN 0 ELSE 256 * v[i - 1] + b[i]]
           n == CHOOSE v : v = Def(v)
<1>1. \A i \in 1 .. Len(b) : b[i] \in Nat
  BY DEF Byte
<1>2. PICK f : Reads(b, f, Len(b))
  BY ReadsSome
<1>3. f = Def(f)
  BY <1>2 DEF Reads
<1>4. n = Def(n)
  <2> HIDE DEF Def
  <2> QED BY <1>3
<1>5. SetBytes(b) = n[Len(b)]
  BY DEF SetBytes
<1> HIDE DEF n
<1>6. n[0] = 0 /\ \A i \in 1 .. Len(b) : n[i] = 256 * n[i - 1] + b[i]
  BY <1>4
<1> DEFINE P == {m \in Nat : m <= Len(b) => n[m] \in Nat}
<1>7. \A m \in Nat : m \in P
  <2>1. 0 \in P
    BY <1>6
  <2>2. ASSUME NEW m \in Nat, m \in P PROVE m + 1 \in P
    <3> SUFFICES ASSUME m + 1 <= Len(b) PROVE n[m + 1] \in Nat
      OBVIOUS
    <3>1. n[m + 1] = 256 * n[m] + b[m + 1]
      BY <1>6
    <3>2. QED
      BY <1>1, <2>2, <3>1
  <2>3. QED
    <3> HIDE DEF P
    <3> QED BY <2>1, <2>2, Induction
<1>8. n \in [0 .. Len(b) -> Nat]
  BY <1>4, <1>7
<1>9. QED
  BY <1>5, <1>6, <1>8 DEF Reads

LEMMA LastDigit ==
    ASSUME NEW n \in Nat, NEW d \in Byte
    PROVE  (256 * n + d) \div 256 = n /\ (256 * n + d) % 256 = d
BY DEF Byte

(* Filling the width again gives the bytes that were read. *)
LEMMA FillsAsRead == ASSUME NEW b \in Seq(Byte) PROVE FillBytes(SetBytes(b), Len(b)) = b
<1> DEFINE s == Len(b)
<1>1. PICK v : Reads(b, v, s) /\ SetBytes(b) = v[s]
  BY SetBytesReads
<1> DEFINE Def(r) == [i \in 0 .. s |-> IF i = 0 THEN v[s] ELSE r[i - 1] \div 256]
           rest == CHOOSE r : r = Def(r)
           f == [i \in 0 .. s |-> v[s - i]]
<1>2. s \in Nat /\ \A i \in 1 .. s : b[i] \in Byte
  OBVIOUS
<1>3. ASSUME NEW i \in 1 .. s
      PROVE  v[i - 1] \in Nat /\ v[i] \div 256 = v[i - 1] /\ v[i] % 256 = b[i]
  <2>1. v[i - 1] \in Nat /\ v[i] = 256 * v[i - 1] + b[i] /\ b[i] \in Byte
    BY <1>1, <1>2 DEF Reads
  <2>2. PICK n \in Nat, d \in Byte : n = v[i - 1] /\ d = b[i] /\ v[i] = 256 * n + d
    BY <2>1
  <2>3. (256 * n + d) \div 256 = n /\ (256 * n + d) % 256 = d
    BY LastDigit
  <2>4. QED
    BY <2>1, <2>2, <2>3
<1>4. f = Def(f)
  <2>1. ASSUME NEW i \in 0 .. s PROVE f[i] = IF i = 0 THEN v[s] ELSE f[i - 1] \div 256
    <3>1. CASE i = 0
      BY <3>1
    <3>2. CASE i \in 1 .. s
      <4>1. f[i] = v[s - i] /\ f[i - 1] = v[s - i + 1] /\ s - i + 1 \in 1 .. s
        BY <3>2
      <4>2. v[s - i + 1] \div 256 = v[s - i]
        <5>1. PICK j \in 1 .. s : j = s - i + 1
          BY <4>1
        <5>2. v[j] \div 256 = v[j - 1] /\ j - 1 = s - i
          BY <1>3, <5>1
        <5>3. QED
          BY <5>1, <5>2
      <4>3. QED
        BY <3>2, <4>1, <4>2
    <3>3. QED
      BY <3>1, <3>2
  <2>2. QED
    BY <2>1
<1>5. rest = Def(rest)
  <2> HIDE DEF Def
  <2> QED BY <1>4
<1>6. FillBytes(SetBytes(b), s) = [i \in 1 .. s |-> rest[s - i] % 256]
  BY <1>1 DEF FillBytes
<1> HIDE DEF rest, f
<1>7. rest[0] = v[s] /\ \A i \in 1 .. s : rest[i] = rest[i - 1] \div 256
  BY <1>5
<1> DEFINE P == {m \in Nat : m <= s => rest[m] = v[s - m]}
<1>8. \A m \in Nat : m \in P
  <2>1. 0 \in P
    BY <1>7
  <2>2. ASSUME NEW m \in Nat, m \in P PROVE m + 1 \in P
    <3> SUFFICES ASSUME m + 1 <= s PROVE rest[m + 1] = v[s - (m + 1)]
      OBVIOUS
    <3>1. rest[m + 1] = rest[m] \div 256 /\ rest[m] = v[s - m]
      BY <1>7, <2>2
    <3>2. PICK j \in 1 .. s : j = s - m
      OBVIOUS
    <3>3. v[j] \div 256 = v[j - 1] /\ j - 1 = s - (m + 1)
      BY <1>3, <3>2
    <3>4. QED
      BY <3>1, <3>2, <3>3
  <2>3. QED
    <3> HIDE DEF P
    <3> QED BY <2>1, <2>2, Induction
<1>9. ASSUME NEW i \in 1 .. s PROVE rest[s - i] % 256 = b[i]
  <2>1. s - i \in Nat /\ s - i <= s /\ s - (s - i) = i
    BY <1>2
  <2>2. rest[s - i] = v[i]
    BY <1>8, <2>1
  <2>3. QED
    BY <1>3, <2>2
<1>10. b = [i \in 1 .. s |-> b[i]]
  OBVIOUS
<1>11. QED
  BY <1>6, <1>9, <1>10

(* A point of the curve comes back out of its COSE key. *)
LEMMA CoordinateKept ==
    ASSUME NEW point \in Curve, NEW i \in {1, 2}
    PROVE  /\ FillBytes(point[i], P256Size) \in Seq(Byte)
           /\ Len(FillBytes(point[i], P256Size)) = P256Size
           /\ SetBytes(FillBytes(point[i], P256Size)) = point[i]
<1>1. PICK b \in [1 .. P256Size -> 0 .. 255] : point[i] = SetBytes(b)
  BY COSEAssumption
<1>2. b \in Seq(Byte) /\ Len(b) = P256Size
  <2>1. \A n \in 0 .. 255 : n \in Byte
    BY DEF Byte
  <2>2. P256Size \in Nat /\ b \in [1 .. P256Size -> Byte]
    BY <2>1, COSEAssumption
  <2>3. QED
    BY <2>2
<1>3. FillBytes(point[i], P256Size) = b
  BY <1>1, <1>2, FillsAsRead
<1>4. QED
  BY <1>1, <1>2, <1>3

LEMMA COSEKeyIs ==
    ASSUME NEW alg, NEW point
    PROVE  LET m == COSEKey(alg, point) IN
           /\ DOMAIN m = COSELabels
           /\ m[coseKty] = IntItem(coseKtyEC2) /\ m[coseAlg] = IntItem(alg)
           /\ m[coseCrv] = IntItem(coseCrvP256)
           /\ m[coseX] = ByteString(FillBytes(point[1], P256Size))
           /\ m[coseY] = ByteString(FillBytes(point[2], P256Size))
<1> DEFINE x == ByteString(FillBytes(point[1], P256Size))
           y == ByteString(FillBytes(point[2], P256Size))
<1> HIDE DEF x, y
<1>1. COSEKey(alg, point) =
         [label \in COSELabels |->
            CASE label = coseKty -> IntItem(coseKtyEC2) [] label = coseAlg -> IntItem(alg)
              [] label = coseCrv -> IntItem(coseCrvP256) [] label = coseX -> x [] label = coseY -> y]
  BY DEF COSEKey, x, y
<1>2. PICK two, one, a : two = IntItem(coseKtyEC2) /\ one = IntItem(coseCrvP256) /\ a = IntItem(alg)
  OBVIOUS
<1>3. COSEKey(alg, point) =
         [label \in {1, 3, -1, -2, -3} |->
            CASE label = 1 -> two [] label = 3 -> a [] label = -1 -> one [] label = -2 -> x [] label = -3 -> y]
  BY <1>1, <1>2 DEF COSELabels, coseKty, coseAlg, coseCrv, coseX, coseY
<1>4. QED
  BY <1>2, <1>3 DEF x, y, COSELabels, coseKty, coseAlg, coseCrv, coseX, coseY

LEMMA PointRead ==
    ASSUME NEW point \in Curve, NEW alg
    PROVE  ReadPoint(COSEKey(alg, point)) = [err |-> "none", point |-> point]
<1>1. PICK m : m = COSEKey(alg, point)
  OBVIOUS
<1>2. PICK x, y : x = FillBytes(point[1], P256Size) /\ y = FillBytes(point[2], P256Size)
  OBVIOUS
<1>3. /\ coseX \in DOMAIN m /\ coseY \in DOMAIN m
      /\ m[coseX] = ByteString(x) /\ m[coseY] = ByteString(y)
  BY <1>1, <1>2, COSEKeyIs DEF COSELabels
<1>4. field(m, coseX, "[]byte") /\ field(m, coseY, "[]byte") /\ m[coseX].bytes = x /\ m[coseY].bytes = y
  BY <1>3 DEF field, Fits, ByteString
<1>5. /\ Len(x) = P256Size /\ Len(y) = P256Size
      /\ SetBytes(x) = point[1] /\ SetBytes(y) = point[2]
  BY <1>2, CoordinateKept
<1>6. <<SetBytes(x), SetBytes(y)>> = point /\ point \in Curve
  BY <1>5, COSEAssumption
<1>7. QED
  BY <1>1, <1>4, <1>5, <1>6 DEF ReadPoint

LEMMA KeyRead ==
    ASSUME NEW point \in Curve, NEW alg
    PROVE  PublicKey(COSEKey(alg, point)) =
              IF alg = AlgES256 THEN [err |-> "none", point |-> point] ELSE KeyError("kind")
<1>1. PICK m : m = COSEKey(alg, point)
  OBVIOUS
<1>2. /\ \A label \in {coseKty, coseAlg, coseCrv} : field(m, label, "int")
      /\ m[coseKty].val = coseKtyEC2 /\ m[coseAlg].val = alg /\ m[coseCrv].val = coseCrvP256
  <2>1. ASSUME NEW n PROVE Fits("int", IntItem(n)) /\ IntItem(n).val = n
    BY DEF Fits, IntItem
  <2>2. /\ \A label \in {coseKty, coseAlg, coseCrv} : label \in DOMAIN m
        /\ m[coseKty] = IntItem(coseKtyEC2) /\ m[coseAlg] = IntItem(alg)
        /\ m[coseCrv] = IntItem(coseCrvP256)
    BY <1>1, COSEKeyIs DEF COSELabels
  <2>3. QED
    BY <2>1, <2>2 DEF field
<1>3. ReadPoint(m) = [err |-> "none", point |-> point]
  BY <1>1, PointRead
<1>4. QED
  BY <1>1, <1>2, <1>3 DEF PublicKey

(* The items of a map that was read: bytes are bytes, and nothing else is in  *)
(* an item than its type has.                                                 *)
Itemed(item) ==
    /\ item.bytes \in Seq(Byte)
    /\ item.type = "bytes" => item = ByteString(item.bytes)
    /\ item.type = "int" => item = IntItem(item.val)
    /\ item.type # "bytes" => item.bytes = << >>

LEMMA PointAsStated ==
    ASSUME NEW m, \A label \in DOMAIN m : Itemed(m[label]), ReadPoint(m).err = "none", NEW alg
    PROVE  LET point == ReadPoint(m).point IN
           /\ point \in Curve
           /\ m[coseX] = COSEKey(alg, point)[coseX] /\ m[coseY] = COSEKey(alg, point)[coseY]
<1>1. PICK x, y : x = m[coseX] /\ y = m[coseY]
  OBVIOUS
<1>2. PICK point : point = <<SetBytes(x.bytes), SetBytes(y.bytes)>>
  OBVIOUS
<1>3. /\ field(m, coseX, "[]byte") /\ field(m, coseY, "[]byte")
      /\ Len(x.bytes) = P256Size /\ Len(y.bytes) = P256Size
      /\ point \in Curve /\ ReadPoint(m).point = point
  BY <1>1, <1>2 DEF ReadPoint, KeyError
<1>4. x = ByteString(x.bytes) /\ x.bytes \in Seq(Byte) /\ y = ByteString(y.bytes) /\ y.bytes \in Seq(Byte)
  BY <1>1, <1>3 DEF Itemed, field, Fits
<1>5. /\ FillBytes(SetBytes(x.bytes), P256Size) = x.bytes
      /\ FillBytes(SetBytes(y.bytes), P256Size) = y.bytes
  <2>1. FillBytes(SetBytes(x.bytes), Len(x.bytes)) = x.bytes
    BY <1>4, FillsAsRead
  <2>2. FillBytes(SetBytes(y.bytes), Len(y.bytes)) = y.bytes
    BY <1>4, FillsAsRead
  <2>3. QED
    BY <1>3, <2>1, <2>2
<1>6. FillBytes(point[1], P256Size) = x.bytes /\ FillBytes(point[2], P256Size) = y.bytes
  BY <1>2, <1>5
<1>7. /\ COSEKey(alg, point)[coseX] = ByteString(FillBytes(point[1], P256Size))
      /\ COSEKey(alg, point)[coseY] = ByteString(FillBytes(point[2], P256Size))
  BY COSEKeyIs
<1>8. QED
  BY <1>1, <1>3, <1>4, <1>6, <1>7

LEMMA KeyAsWritten ==
    ASSUME NEW m, \A label \in DOMAIN m : Itemed(m[label]), PublicKey(m).err = "none"
    PROVE  LET point == PublicKey(m).point IN
           /\ point \in Curve
           /\ \A label \in COSELabels : m[label] = COSEKey(AlgES256, point)[label]
<1>1. /\ \A label \in {coseKty, coseAlg, coseCrv} : field(m, label, "int")
      /\ m[coseKty].val = coseKtyEC2 /\ m[coseAlg].val = AlgES256 /\ m[coseCrv].val = coseCrvP256
      /\ PublicKey(m) = ReadPoint(m)
  BY DEF PublicKey, KeyError
<1>2. ASSUME NEW label \in {coseKty, coseAlg, coseCrv} PROVE m[label] = IntItem(m[label].val)
  BY <1>1 DEF Itemed, field, Fits
<1>3. /\ m[coseKty] = IntItem(coseKtyEC2) /\ m[coseAlg] = IntItem(AlgES256)
      /\ m[coseCrv] = IntItem(coseCrvP256)
  BY <1>1, <1>2
<1>4. PICK point : point = ReadPoint(m).point
  OBVIOUS
<1>5. /\ point \in Curve /\ m[coseX] = COSEKey(AlgES256, point)[coseX]
      /\ m[coseY] = COSEKey(AlgES256, point)[coseY]
  BY <1>1, <1>4, PointAsStated
<1>6. /\ COSEKey(AlgES256, point)[coseKty] = IntItem(coseKtyEC2)
      /\ COSEKey(AlgES256, point)[coseAlg] = IntItem(AlgES256)
      /\ COSEKey(AlgES256, point)[coseCrv] = IntItem(coseCrvP256)
  BY COSEKeyIs
<1>7. QED
  BY <1>1, <1>3, <1>4, <1>5, <1>6 DEF COSELabels

LEMMA KeyItems ==
    ASSUME NEW point \in Curve, NEW alg
    PROVE  \A label \in DOMAIN COSEKey(alg, point) : Itemed(COSEKey(alg, point)[label])
<1>1. ASSUME NEW n PROVE Itemed(IntItem(n))
  BY EmptySeq DEF Itemed, IntItem
<1>2. ASSUME NEW b \in Seq(Byte) PROVE Itemed(ByteString(b))
  BY DEF Itemed, ByteString
<1>3. FillBytes(point[1], P256Size) \in Seq(Byte) /\ FillBytes(point[2], P256Size) \in Seq(Byte)
  BY CoordinateKept
<1>4. QED
  BY <1>1, <1>2, <1>3, COSEKeyIs DEF COSELabels
=============================================================================
