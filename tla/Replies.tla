------------------------------ MODULE Replies ------------------------------
(***************************************************************************)
(* Which CTAP2 replies a call takes for its answer (parseInfo, PINRetries, *)
(* KeyAgreement, PINToken, MakeCredential, GetAssertion).  All six travel  *)
(* under the same CTAPHID command, and a Key that goes on after a call     *)
(* that was given up reads the late reply as the answer to the next call   *)
(* (Session), so what keeps a reply to one call from being taken for a     *)
(* reply to another is the decoding alone.                                 *)
(***************************************************************************)
EXTENDS AuthData, PinProto, COSE

parseInfo(r) ==
    /\ optional(r, 1, "[]string") /\ optional(r, 2, "[]string") /\ optional(r, 3, "[]byte")
    /\ optional(r, 4, "map[string]bool") /\ optional(r, 5, "int") /\ optional(r, 6, "[]int")
    /\ optional(r, 9, "[]string")
    /\ 3 \in DOMAIN r => Len(r[3].bytes) \in {0, aaguidLen}
    /\ 1 \in DOMAIN r

readRetries(r) == field(r, 3, "int") /\ optional(r, 4, "bool")

(* A member that is a COSE key. *)
KeyItem(m) == [type |-> "cose", bytes |-> << >>, val |-> 0, key |-> m]

readAgreement(r) == field(r, 1, "COSE_Key") /\ coseToECDH(r[1].key).err = "none"

(* Mutant: whatever there is is a token. *)
readTokenAny(proto, r) == field(r, 2, "[]byte")

(* The reply cannot be deciphered by anything but its length. *)
readToken(proto, r) ==
    /\ field(r, 2, "[]byte")
    /\ LET keys == deriveKeys(proto, ECDH(1, 2)).keys
           plain == decrypt(keys, Ciphertext(Len(r[2].bytes), keys.aes, Noise(0))) IN
       plain.err = "none" /\ TokenLength(proto, plain.out.len)

readAuthData(r) ==
    field(r, 2, "[]byte") /\ r[2].bytes # << >> /\ ParseAuthData(r[2].bytes).err = "none"

readAttestation(r) ==
    /\ field(r, 1, "string") /\ readAuthData(r)
    /\ FlagHas(ParseAuthData(r[2].bytes).flags, FlagAT)

readAssertion(r) ==
    /\ readAuthData(r)
    /\ field(r, 3, "[]byte") /\ r[3].bytes # << >>
    /\ optional(r, 1, "struct") /\ optional(r, 4, "struct") /\ optional(r, 5, "int")

Accepts(op, proto, r) ==
    CASE op = "GetInfo"        -> parseInfo(r)
      [] op = "PINRetries"     -> readRetries(r)
      [] op = "KeyAgreement"   -> readAgreement(r)
      [] op = "PINToken"       -> readToken(proto, r)
      [] op = "MakeCredential" -> readAttestation(r)
      [] op = "GetAssertion"   -> readAssertion(r)
============================================================================
