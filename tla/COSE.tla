-------------------------------- MODULE COSE --------------------------------
(***************************************************************************)
(* COSE keys: the key of a credential (AuthData.PublicKey, cose.go) and    *)
(* the keys that agree on a secret (coseToECDH and ecdhToCOSE,             *)
(* clientpin.go).  A point is a pair of numbers; on the wire a coordinate  *)
(* is P256Size big-endian bytes, however small the number.                 *)
(***************************************************************************)
EXTENDS CBOR

CONSTANTS
    P256Size,   \* coseP256Size: bytes of a coordinate
    Curve       \* the points of P-256, as pairs of numbers

coseKty == 1
coseAlg == 3
coseCrv == -1
coseX == -2
coseY == -3

coseKtyEC2 == 2
coseCrvP256 == 1

AlgES256 == -7
AlgECDH == -25      \* ECDH-ES + HKDF-256

COSELabels == {coseKty, coseAlg, coseCrv, coseX, coseY}

NoPoint == <<0, 0>>
KeyError(e) == [err |-> e, point |-> NoPoint]

(* big.Int.SetBytes *)
SetBytes(b) ==
    LET n[i \in 0 .. Len(b)] == IF i = 0 THEN 0 ELSE 256 * n[i - 1] + b[i] IN n[Len(b)]

(* The curve: (0, 0) is not on it, and a coordinate is a number of its width. *)
ASSUME COSEAssumption ==
    /\ P256Size \in Nat
    /\ NoPoint \notin Curve
    /\ \A point \in Curve :
          /\ point = <<point[1], point[2]>>
          /\ \A i \in {1, 2} : \E b \in [1 .. P256Size -> 0 .. 255] : point[i] = SetBytes(b)

(* Mutant: the leading zeros go missing, as in big.Int's Bytes. *)
FillBytesShort(n, size) ==
    LET b == [i \in 1 .. size |-> (n \div 256 ^ (size - i)) % 256]
        zeros == CHOOSE k \in 0 .. size :
                    /\ \A i \in 1 .. k : b[i] = 0
                    /\ k < size => b[k + 1] # 0 IN
    SubSeq(b, zeros + 1, size)

(* big.Int.FillBytes *)
FillBytes(n, size) ==
    LET rest[i \in 0 .. size] == IF i = 0 THEN n ELSE rest[i - 1] \div 256 IN
    [i \in 1 .. size |-> rest[size - i] % 256]

COSEKey(alg, point) ==
    [label \in COSELabels |->
        CASE label = coseKty -> IntItem(coseKtyEC2)
          [] label = coseAlg -> IntItem(alg)
          [] label = coseCrv -> IntItem(coseCrvP256)
          [] label = coseX   -> ByteString(FillBytes(point[1], P256Size))
          [] label = coseY   -> ByteString(FillBytes(point[2], P256Size))]

ecdhToCOSE(point) == COSEKey(AlgECDH, point)

(* Mutant: a short coordinate is padded, a long one is taken as it is. *)
ReadPointPadded(m) ==
    IF ~field(m, coseX, "[]byte") \/ ~field(m, coseY, "[]byte") THEN KeyError("coordinate")
    ELSE LET point == <<SetBytes(m[coseX].bytes), SetBytes(m[coseY].bytes)>> IN
         IF point \notin Curve THEN KeyError("point") ELSE [err |-> "none", point |-> point]

(* Mutant: the labels of the coordinates are swapped. *)
ReadPointSwapped(m) ==
    IF ~field(m, coseX, "[]byte") \/ ~field(m, coseY, "[]byte") THEN KeyError("coordinate")
    ELSE IF Len(m[coseX].bytes) # P256Size \/ Len(m[coseY].bytes) # P256Size THEN KeyError("width")
    ELSE LET point == <<SetBytes(m[coseY].bytes), SetBytes(m[coseX].bytes)>> IN
         IF point \notin Curve THEN KeyError("point") ELSE [err |-> "none", point |-> point]

(* Both coordinates, of exactly the curve's width, and on the curve. *)
ReadPoint(m) ==
    IF ~field(m, coseX, "[]byte") \/ ~field(m, coseY, "[]byte") THEN KeyError("coordinate")
    ELSE IF Len(m[coseX].bytes) # P256Size \/ Len(m[coseY].bytes) # P256Size THEN KeyError("width")
    ELSE LET point == <<SetBytes(m[coseX].bytes), SetBytes(m[coseY].bytes)>> IN
         IF point \notin Curve THEN KeyError("point") ELSE [err |-> "none", point |-> point]

coseToECDH(m) == ReadPoint(m)

(* Only ES256 over P-256; anything else is refused by name. *)
PublicKey(m) ==
    IF \E label \in {coseKty, coseAlg, coseCrv} : ~field(m, label, "int") THEN KeyError("unstated")
    ELSE IF \/ m[coseKty].val # coseKtyEC2 \/ m[coseAlg].val # AlgES256
            \/ m[coseCrv].val # coseCrvP256 THEN KeyError("kind")
    ELSE ReadPoint(m)
=============================================================================
