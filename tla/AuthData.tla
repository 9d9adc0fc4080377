------------------------------ MODULE AuthData ------------------------------
(***************************************************************************)
(* Authenticator data (authdata.go): the layout, and ParseAuthData, over   *)
(* byte sequences with the code's own sizes.  CBOR is external: the items  *)
(* are small unsigned integers and byte strings, of which a decoder knows  *)
(* the end.                                                                *)
(***************************************************************************)
EXTENDS Integers, Sequences

rpIDHashLen == 32
signCountLen == 4
authDataHeader == rpIDHashLen + 1 + signCountLen
aaguidLen == 16
credentialIDSize == 2

(* Flags is a byte; the two bits that decide the layout. *)
FlagAT == 64
FlagED == 128

FlagHas(flags, bit) == (flags \div bit) % 2 = 1

Byte == {n \in Nat : n < 256}

(* A big-endian number. *)
Uint16(b) == 256 * b[1] + b[2]

After(b, n) == SubSeq(b, n + 1, Len(b))

(* The length of the first CBOR item, 0 when there is none or it is cut     *)
(* short: 0x00..0x17 is an integer, 0x40..0x57 a byte string.               *)
ItemLen(b) ==
    IF b = << >> THEN 0
    ELSE IF b[1] \in 0 .. 23 THEN 1
    ELSE IF b[1] \in 64 .. 87 /\ Len(b) >= 1 + (b[1] - 64) THEN 1 + (b[1] - 64)
    ELSE 0

NoAttested == [aaguid |-> << >>, id |-> << >>, key |-> << >>]

Parsed(b, attested, extensions) ==
    [err |-> "none", rpIDHash |-> SubSeq(b, 1, rpIDHashLen), flags |-> b[rpIDHashLen + 1],
     signCount |-> SubSeq(b, rpIDHashLen + 2, authDataHeader),
     attested |-> attested, extensions |-> extensions]

Malformed(e) ==
    [err |-> e, rpIDHash |-> << >>, flags |-> 0, signCount |-> << >>,
     attested |-> NoAttested, extensions |-> << >>]

(* Mutant: the key is everything that is left. *)
KeyLenAll(b) == Len(b)

(* How many bytes the key's decoder reads. *)
KeyLen(b) == ItemLen(b)

(* The attested credential data at the start of rest, and what follows it. *)
ParseAttested(rest) ==
    IF Len(rest) < aaguidLen + credentialIDSize
    THEN [err |-> "attested header", attested |-> NoAttested, rest |-> << >>]
    ELSE LET n == Uint16(After(rest, aaguidLen))
             id == After(rest, aaguidLen + credentialIDSize)
             key == After(id, n) IN
         IF Len(id) < n THEN [err |-> "credential id", attested |-> NoAttested, rest |-> << >>]
         ELSE IF KeyLen(key) = 0 THEN [err |-> "key", attested |-> NoAttested, rest |-> << >>]
         ELSE [err |-> "none", rest |-> After(key, KeyLen(key)),
               attested |-> [aaguid |-> SubSeq(rest, 1, aaguidLen), id |-> SubSeq(id, 1, n),
                             key |-> SubSeq(key, 1, KeyLen(key))]]

(* Mutant: bytes after the credential are nobody's business. *)
AccountedAlways(flags, rest) == TRUE

(* What is left is the extensions, one item, or nothing. *)
Accounted(flags, rest) ==
    IF FlagHas(flags, FlagED) THEN rest # << >> /\ ItemLen(rest) = Len(rest)
    ELSE rest = << >>

ParseAuthData(b) ==
    IF Len(b) < authDataHeader THEN Malformed("header")
    ELSE LET flags == b[rpIDHashLen + 1]
             body == After(b, authDataHeader)
             at == IF FlagHas(flags, FlagAT) THEN ParseAttested(body)
                   ELSE [err |-> "none", attested |-> NoAttested, rest |-> body] IN
         IF at.err # "none" THEN Malformed(at.err)
         ELSE IF ~Accounted(flags, at.rest) THEN Malformed("unaccounted")
         ELSE Parsed(b, at.attested, IF FlagHas(flags, FlagED) THEN at.rest ELSE << >>)

(* What an authenticator writes: the reference the parser is held against. *)
EncodeAuthData(a) ==
    a.rpIDHash \o <<a.flags>> \o a.signCount
      \o (IF FlagHas(a.flags, FlagAT)
          THEN a.attested.aaguid
                 \o <<Len(a.attested.id) \div 256, Len(a.attested.id) % 256>>
                 \o a.attested.id \o a.attested.key
          ELSE << >>)
      \o (IF FlagHas(a.flags, FlagED) THEN a.extensions ELSE << >>)

(* What it can write: the sizes, a length that fits its two bytes, CBOR items *)
(* where the flags say so and nothing where they do not.                      *)
IsItem(b) == b \in Seq(Byte) /\ b # << >> /\ ItemLen(b) = Len(b)

WellFormed(a) ==
    /\ a = [err |-> "none", rpIDHash |-> a.rpIDHash, flags |-> a.flags, signCount |-> a.signCount,
            attested |-> a.attested, extensions |-> a.extensions]
    /\ a.rpIDHash \in Seq(Byte) /\ Len(a.rpIDHash) = rpIDHashLen
    /\ a.flags \in Byte
    /\ a.signCount \in Seq(Byte) /\ Len(a.signCount) = signCountLen
    /\ IF FlagHas(a.flags, FlagAT)
       THEN LET att == a.attested IN
            /\ att = [aaguid |-> att.aaguid, id |-> att.id, key |-> att.key]
            /\ att.aaguid \in Seq(Byte) /\ Len(att.aaguid) = aaguidLen
            /\ att.id \in Seq(Byte) /\ Len(att.id) < 65536
            /\ IsItem(att.key)
       ELSE a.attested = NoAttested
    /\ IF FlagHas(a.flags, FlagED) THEN IsItem(a.extensions) ELSE a.extensions = << >>
=============================================================================
