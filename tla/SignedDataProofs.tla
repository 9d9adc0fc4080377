-------------------------- MODULE SignedDataProofs --------------------------
(***************************************************************************)
(* What an authenticator writes is read back, and what is accepted after   *)
(* damage is what was read, for authenticator data and for keys.           *)
(***************************************************************************)
EXTENDS SignedData, AuthDataProofs

(* What keeps both true: the bytes are bytes, and undamaged authenticator     *)
(* data is what an authenticator wrote.                                       *)
Readable ==
    /\ bytes \in Seq(Byte) /\ damage \in Nat
    /\ damage = 0 /\ origKey = NoKey => WellFormed(orig) /\ bytes = EncodeAuthData(orig)

LEMMA ReadableAlways == Spec => []Readable
<1>1. Init => Readable
  <2> SUFFICES ASSUME Init PROVE Readable
    OBVIOUS
  <2>1. CASE WritesData
    <3>1. WellFormed(orig) /\ bytes = EncodeAuthData(orig)
      BY <2>1, WrittenAssumption DEF WritesData
    <3>2. PICK a : a = orig
      OBVIOUS
    <3>3. EncodeAuthData(a) \in Seq(Byte)
      BY <3>1, <3>2, WrittenParts
    <3>4. QED
      BY <3>1, <3>2, <3>3 DEF Init, Readable
  <2>2. CASE WritesKey
    <3>1. bytes = << >> /\ origKey # NoKey
      <4>1. \A k \in KeysWritten : k.alg # 0
        BY DEF KeysWritten, AlgES256, AlgECDH
      <4>2. NoKey.alg = 0
        BY DEF NoKey
      <4>3. bytes = << >> /\ origKey \in KeysWritten
        BY <2>2 DEF WritesKey
      <4>4. QED
        BY <4>1, <4>2, <4>3
    <3>2. QED
      BY <3>1, EmptySeq DEF Init, Readable
  <2>3. QED
    BY <2>1, <2>2 DEF Init
<1>2. Readable /\ [Next]_vars => Readable'
  <2> SUFFICES ASSUME Readable, [Next]_vars PROVE Readable'
    OBVIOUS
  <2>1. bytes \in Seq(Byte) /\ damage \in Nat
    BY DEF Readable
  <2>2. ASSUME NEW v \in Bytes PROVE v \in Byte
    BY <2>2, WrittenAssumption
  <2>3. ASSUME Damage, bytes' \in Seq(Byte) PROVE Readable'
    <3>1. damage' \in Nat /\ damage' # 0
      BY <2>1, <2>3 DEF Damage
    <3>2. QED
      BY <2>3, <3>1 DEF Readable
  <2>4. CASE Changed
    <3>1. PICK i \in rpIDHashLen + 1 .. Len(bytes), v \in Bytes : Damaged([bytes EXCEPT ![i] = v])
      BY <2>4 DEF Changed
    <3>2. i \in 1 .. Len(bytes) /\ v \in Byte
      BY <2>1, <2>2, <3>1 DEF rpIDHashLen
    <3>3. [bytes EXCEPT ![i] = v] \in Seq(Byte)
      BY <2>1, <3>2, ExceptSeq
    <3>4. QED
      BY <2>3, <3>1, <3>3 DEF Damaged
  <2>5. CASE Cut
    <3>1. bytes # << >> /\ Damaged(SubSeq(bytes, 1, Len(bytes) - 1))
      BY <2>5 DEF Cut
    <3>2. Len(bytes) - 1 \in 0 .. Len(bytes)
      BY <2>1, <3>1
    <3>3. SubSeq(bytes, 1, Len(bytes) - 1) \in Seq(Byte)
      BY <2>1, <3>2, Cuts
    <3>4. QED
      BY <2>3, <3>1, <3>3 DEF Damaged
  <2>6. CASE Longer
    <3>1. PICK v \in Bytes : Damaged(Append(bytes, v))
      BY <2>6 DEF Longer
    <3>2. Append(bytes, v) \in Seq(Byte)
      BY <2>1, <2>2, <3>1, AppendProperties
    <3>3. QED
      BY <2>3, <3>1, <3>2 DEF Damaged
  <2>7. CASE MemberLost
    BY <2>1, <2>3, <2>7 DEF MemberLost, KeyDamaged
  <2>8. CASE MemberChanged
    BY <2>1, <2>3, <2>8 DEF MemberChanged, KeyDamaged
  <2>9. CASE CoordinateChanged
    BY <2>1, <2>3, <2>9 DEF CoordinateChanged, Coordinate, KeyDamaged
  <2>10. CASE UNCHANGED vars
    BY <2>10 DEF vars, Readable
  <2>11. QED
    BY <2>4, <2>5, <2>6, <2>7, <2>8, <2>9, <2>10 DEF Next
<1>3. QED
  BY <1>1, <1>2, PTL DEF Spec

(* ParseAuthData accepts only what its parts encode to: whatever arrives, no  *)
(* byte is read twice, left over or made up.                                  *)
THEOREM Exactness == Spec => []EveryByteAccounted
<1>1. Readable => EveryByteAccounted
  <2> SUFFICES ASSUME Readable, ParseAuthData(bytes).err = "none"
               PROVE  EncodeAuthData(ParseAuthData(bytes)) = bytes
    BY DEF EveryByteAccounted
  <2>1. PICK b : b = bytes
    OBVIOUS
  <2>2. b \in Seq(Byte) /\ ParseAuthData(b).err = "none"
    BY <2>1 DEF Readable
  <2>3. EncodeAuthData(ParseAuthData(b)) = b
    BY <2>2, Exact
  <2>4. QED
    BY <2>1, <2>3
<1>2. QED
  BY <1>1, ReadableAlways, PTL

(* ParseAuthData reads what an authenticator writes as it was written,        *)
(* whatever the lengths of the credential ID, the key and the extensions.     *)
THEOREM RoundTrip == Spec => []ReadsBack
<1>1. Readable => ReadsBack
  <2> SUFFICES ASSUME Readable, damage = 0, origKey = NoKey
               PROVE  ParseAuthData(bytes) = orig
    BY DEF ReadsBack
  <2>1. PICK a : a = orig
    OBVIOUS
  <2>2. WellFormed(a) /\ bytes = EncodeAuthData(a)
    BY <2>1 DEF Readable
  <2>3. ParseAuthData(EncodeAuthData(a)) = a
    BY <2>2, ReadAsWritten
  <2>4. QED
    BY <2>1, <2>2, <2>3
<1>2. QED
  BY <1>1, ReadableAlways, PTL

----------------------------------------------------------------------------
(* The same for keys: the items are items whatever the damage, and an         *)
(* undamaged key is what was written from its point.                          *)
KeyReadable ==
    /\ \A label \in DOMAIN cose : Itemed(cose[label])
    /\ damage = 0 /\ origKey # NoKey =>
          origKey \in KeysWritten /\ cose = COSEKey(origKey.alg, origKey.point)

LEMMA KeyReadableAlways == Spec => []KeyReadable
<1>1. Init => KeyReadable
  <2> SUFFICES ASSUME Init PROVE KeyReadable
    OBVIOUS
  <2>1. CASE WritesData
    BY <2>1 DEF WritesData, KeyReadable
  <2>2. CASE WritesKey
    <3>1. /\ origKey \in KeysWritten
          /\ cose = IF origKey.alg = AlgES256 THEN COSEKey(AlgES256, origKey.point) ELSE ecdhToCOSE(origKey.point)
      BY <2>2 DEF WritesKey
    <3>2. PICK a, point : a = origKey.alg /\ point = origKey.point
      OBVIOUS
    <3>3. a \in {AlgES256, AlgECDH} /\ point \in Curve
      BY <3>1, <3>2 DEF KeysWritten
    <3>4. cose = COSEKey(a, point)
      BY <3>1, <3>2, <3>3 DEF ecdhToCOSE
    <3>5. QED
      BY <3>1, <3>2, <3>3, <3>4, KeyItems DEF KeyReadable
  <2>3. QED
    BY <2>1, <2>2 DEF Init
<1>2. KeyReadable /\ Readable /\ [Next]_vars => KeyReadable'
  <2> SUFFICES ASSUME KeyReadable, Readable, [Next]_vars PROVE KeyReadable'
    OBVIOUS
  <2>1. ASSUME Damage, \A label \in DOMAIN cose' : Itemed(cose'[label]) PROVE KeyReadable'
    <3>1. damage' # 0
      BY <2>1 DEF Damage, Readable
    <3>2. QED
      BY <2>1, <3>1 DEF KeyReadable
  <2>2. ASSUME NEW b, Damaged(b) PROVE KeyReadable'
    <3>1. Damage /\ cose' = cose
      BY <2>2 DEF Damaged
    <3>2. QED
      BY <2>1, <3>1 DEF KeyReadable
  <2>3. ASSUME NEW m, KeyDamaged(m), \A label \in DOMAIN m : Itemed(m[label]) PROVE KeyReadable'
    BY <2>1, <2>3 DEF KeyDamaged
  <2>4. ASSUME NEW l \in DOMAIN cose, NEW item, Itemed(item), KeyDamaged([cose EXCEPT ![l] = item])
        PROVE  KeyReadable'
    <3>1. PICK m : m = [cose EXCEPT ![l] = item]
      OBVIOUS
    <3>2. \A label \in DOMAIN m : Itemed(m[label])
      <4>1. \A label \in DOMAIN cose : Itemed(cose[label])
        BY DEF KeyReadable
      <4>2. QED
        BY <2>4, <3>1, <4>1, Zenon
    <3>3. QED
      BY <2>3, <2>4, <3>1, <3>2
  <2>5. CASE Changed \/ Cut \/ Longer
    BY <2>2, <2>5 DEF Changed, Cut, Longer
  <2>6. CASE MemberLost
    <3>1. PICK label \in DOMAIN cose : KeyDamaged([l \in DOMAIN cose \ {label} |-> cose[l]])
      BY <2>6 DEF MemberLost
    <3>2. PICK m : m = [l \in DOMAIN cose \ {label} |-> cose[l]]
      OBVIOUS
    <3>3. \A l \in DOMAIN m : Itemed(m[l])
      BY <3>2 DEF KeyReadable
    <3>4. QED
      BY <2>3, <3>1, <3>2, <3>3
  <2>7. CASE MemberChanged
    <3>1. PICK label \in DOMAIN cose,
               item \in {IntItem(n) : n \in Ints} \cup {ByteString(<< >>), Item("text")} :
             KeyDamaged([cose EXCEPT ![label] = item])
      BY <2>7 DEF MemberChanged
    <3>2. Itemed(item)
      <4>1. ASSUME NEW n PROVE Itemed(IntItem(n))
        BY EmptySeq DEF Itemed, IntItem
      <4>2. Itemed(ByteString(<< >>)) /\ Itemed(Item("text"))
        BY EmptySeq DEF Itemed, ByteString, Item
      <4>3. QED
        BY <3>1, <4>1, <4>2
    <3>3. QED
      BY <2>4, <3>1, <3>2
  <2>8. CASE CoordinateChanged
    <3>1. ASSUME NEW label \in DOMAIN cose, NEW b \in Seq(Byte), Coordinate(label, b) PROVE KeyReadable'
      <4>1. Itemed(ByteString(b))
        BY <3>1 DEF Itemed, ByteString
      <4>2. QED
        BY <2>4, <3>1, <4>1 DEF Coordinate
    <3>2. PICK label \in DOMAIN cose :
             LET b == cose[label].bytes IN
             /\ b # << >>
             /\ \/ \E i \in DOMAIN b, v \in Bytes : Coordinate(label, [b EXCEPT ![i] = v])
                \/ Coordinate(label, Tail(b))
                \/ \E v \in Bytes : Coordinate(label, <<v>> \o b)
      BY <2>8 DEF CoordinateChanged
    <3>3. PICK b : b = cose[label].bytes
      OBVIOUS
    <3>4. b \in Seq(Byte) /\ b # << >>
      BY <3>2, <3>3 DEF KeyReadable, Itemed
    <3>5. ASSUME NEW v \in Bytes PROVE v \in Byte
      BY <3>5, WrittenAssumption
    <3>6. ASSUME NEW i \in DOMAIN b, NEW v \in Bytes PROVE [b EXCEPT ![i] = v] \in Seq(Byte)
      <4>1. i \in 1 .. Len(b) /\ v \in Byte
        BY <3>4, <3>5
      <4>2. QED
        BY <3>4, <4>1, ExceptSeq
    <3>7. Tail(b) \in Seq(Byte)
      BY <3>4, HeadTailProperties
    <3>8. ASSUME NEW v \in Bytes PROVE <<v>> \o b \in Seq(Byte)
      BY <3>4, <3>5
    <3>9. QED
      BY <3>1, <3>2, <3>3, <3>6, <3>7, <3>8
  <2>9. CASE UNCHANGED vars
    BY <2>9 DEF vars, KeyReadable
  <2>10. QED
    BY <2>5, <2>6, <2>7, <2>8, <2>9 DEF Next
<1>3. QED
  BY <1>1, <1>2, ReadableAlways, PTL DEF Spec

(* A key is read back as the point it was written from, small coordinates     *)
(* included (ecdhToCOSE, coseToECDH, PublicKey), for every width and curve,   *)
(* and only a key that signs is taken for one.                                *)
THEOREM KeysRoundTrip == Spec => []KeysReadBack
<1>1. KeyReadable => KeysReadBack
  <2> SUFFICES ASSUME KeyReadable, damage = 0, origKey # NoKey
               PROVE  /\ coseToECDH(cose) = [err |-> "none", point |-> origKey.point]
                      /\ PublicKey(cose).err = "none" <=> origKey.alg = AlgES256
                      /\ origKey.alg = AlgES256 => PublicKey(cose).point = origKey.point
    BY DEF KeysReadBack
  <2>1. PICK a, point : a = origKey.alg /\ point = origKey.point
    OBVIOUS
  <2>2. point \in Curve /\ cose = COSEKey(a, point)
    BY <2>1 DEF KeyReadable, KeysWritten
  <2>3. coseToECDH(cose) = [err |-> "none", point |-> point]
    BY <2>2, PointRead DEF coseToECDH
  <2>4. PublicKey(cose) = IF a = AlgES256 THEN [err |-> "none", point |-> point] ELSE KeyError("kind")
    BY <2>2, KeyRead
  <2>5. QED
    BY <2>1, <2>3, <2>4 DEF KeyError
<1>2. QED
  BY <1>1, KeyReadableAlways, PTL

(* Whatever happened to a key, what is read of it is what it says: no         *)
(* coordinate is padded or cut to fit, and a key that signs states its        *)
(* algorithm and its curve.                                                   *)
THEOREM KeysExact == Spec => []KeyAsStated
<1>1. KeyReadable => KeyAsStated
  <2> SUFFICES ASSUME KeyReadable PROVE KeyAsStated
    OBVIOUS
  <2>1. PICK m : m = cose
    OBVIOUS
  <2>2. \A label \in DOMAIN m : Itemed(m[label])
    BY <2>1 DEF KeyReadable
  <2>3. ASSUME PublicKey(m).err = "none"
        PROVE  /\ PublicKey(m).point \in Curve
               /\ \A label \in COSELabels : m[label] = COSEKey(AlgES256, PublicKey(m).point)[label]
    BY <2>2, <2>3, KeyAsWritten
  <2>4. ASSUME coseToECDH(m).err = "none"
        PROVE  /\ coseToECDH(m).point \in Curve
               /\ \A label \in {coseX, coseY} : m[label] = ecdhToCOSE(coseToECDH(m).point)[label]
    BY <2>2, <2>4, PointAsStated DEF coseToECDH, ecdhToCOSE
  <2>5. QED
    BY <2>1, <2>3, <2>4 DEF KeyAsStated
<1>2. QED
  BY <1>1, KeyReadableAlways, PTL
=============================================================================
