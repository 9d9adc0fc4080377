----------------------------- MODULE SignedData -----------------------------
(***************************************************************************)
(* What an authenticator writes, as it reaches this package after damage   *)
(* in a few places: authenticator data (a byte changed, dropped or added)  *)
(* before ParseAuthData, or a COSE key (a member missing, of another type  *)
(* or value, a coordinate with a byte changed, dropped or added) before    *)
(* PublicKey and coseToECDH.                                               *)
(***************************************************************************)
EXTENDS AuthData, COSE

CONSTANTS
    Written,     \* what authenticators write, as ParseAuthData would report it
    Bytes,       \* the bytes damage puts in place
    Ints,        \* the numbers damage puts in place
    MaxDamage    \* bound on the damage

ASSUME WrittenAssumption ==
    /\ \A a \in Written : WellFormed(a)
    /\ Bytes \subseteq Byte /\ Ints \subseteq Int

VARIABLES
    orig, bytes,    \* authenticator data, as written and as read
    origKey, cose,  \* the point and algorithm of a key, and its COSE map as read
    damage

vars == <<orig, bytes, origKey, cose, damage>>

NoKey == [alg |-> 0, point |-> NoPoint]
KeysWritten == [alg : {AlgES256, AlgECDH}, point : Curve]

WritesData == orig \in Written /\ bytes = EncodeAuthData(orig) /\ origKey = NoKey /\ cose = << >>

WritesKey ==
    /\ origKey \in KeysWritten
    /\ cose = IF origKey.alg = AlgES256 THEN COSEKey(AlgES256, origKey.point) ELSE ecdhToCOSE(origKey.point)
    /\ orig = Malformed("nothing") /\ bytes = << >>

Init == (WritesData \/ WritesKey) /\ damage = 0

Damage == damage < MaxDamage /\ damage' = damage + 1

Damaged(b) == Damage /\ bytes' = b /\ UNCHANGED <<orig, origKey, cose>>

Changed == \E i \in rpIDHashLen + 1 .. Len(bytes), v \in Bytes : Damaged([bytes EXCEPT ![i] = v])

Cut == bytes # << >> /\ Damaged(SubSeq(bytes, 1, Len(bytes) - 1))

Longer == bytes # << >> /\ \E v \in Bytes : Damaged(Append(bytes, v))

KeyDamaged(m) == Damage /\ cose' = m /\ UNCHANGED <<orig, bytes, origKey>>

MemberLost ==
    \E label \in DOMAIN cose : KeyDamaged([l \in DOMAIN cose \ {label} |-> cose[l]])

MemberChanged ==
    \E label \in DOMAIN cose, item \in {IntItem(n) : n \in Ints} \cup {ByteString(<< >>), Item("text")} :
       KeyDamaged([cose EXCEPT ![label] = item])

Coordinate(label, b) == KeyDamaged([cose EXCEPT ![label] = ByteString(b)])

CoordinateChanged ==
    \E label \in DOMAIN cose :
       LET b == cose[label].bytes IN
       /\ b # << >>
       /\ \/ \E i \in DOMAIN b, v \in Bytes : Coordinate(label, [b EXCEPT ![i] = v])
          \/ Coordinate(label, Tail(b))
          \/ \E v \in Bytes : Coordinate(label, <<v>> \o b)

Next == Changed \/ Cut \/ Longer \/ MemberLost \/ MemberChanged \/ CoordinateChanged

Spec == Init /\ [][Next]_vars

----------------------------------------------------------------------------
(* What an authenticator writes is read back as it was written: both flags   *)
(* are obeyed, and the key's end is where the extensions begin.              *)
ReadsBack == damage = 0 /\ origKey = NoKey => ParseAuthData(bytes) = orig

(* Whatever arrives, data that is accepted is exactly the bytes that its     *)
(* parts say: no byte is read twice, left over or made up, and a length that *)
(* does not add up is an error rather than a slice.                          *)
EveryByteAccounted ==
    LET a == ParseAuthData(bytes) IN a.err = "none" => EncodeAuthData(a) = bytes

(* A key is read back as the point it was written from, small coordinates    *)
(* included (ecdhToCOSE fills the width), and a key that agrees is not one   *)
(* that signs.                                                               *)
KeysReadBack ==
    damage = 0 /\ origKey # NoKey =>
        /\ coseToECDH(cose) = [err |-> "none", point |-> origKey.point]
        /\ PublicKey(cose).err = "none" <=> origKey.alg = AlgES256
        /\ origKey.alg = AlgES256 => PublicKey(cose).point = origKey.point

(* A damaged key is refused or says exactly what is read: no coordinate is   *)
(* padded or cut to fit, and a key that signs states the algorithm and the   *)
(* curve itself (PublicKey).                                                 *)
KeyAsStated ==
    /\ LET k == PublicKey(cose) IN
       k.err = "none" =>
          k.point \in Curve /\ \A label \in COSELabels : cose[label] = COSEKey(AlgES256, k.point)[label]
    /\ LET k == coseToECDH(cose) IN
       k.err = "none" =>
          k.point \in Curve /\ \A label \in {coseX, coseY} : cose[label] = ecdhToCOSE(k.point)[label]
============================================================================
