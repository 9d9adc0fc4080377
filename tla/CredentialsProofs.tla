------------------------- MODULE CredentialsProofs -------------------------
(***************************************************************************)
(* Theorems about Credentials: what a program may conclude from what its   *)
(* registrations and assertions return, for any number of calls, accounts  *)
(* and credentials, with late replies and replies that should not be.      *)
(*                                                                         *)
(* The invariant says of every reply, waiting or just read, what the call  *)
(* it was made for fixes (Sound), of what the program keeps that it is the *)
(* authenticator's (Kept), and, as long as nothing was lost (Tidy), that   *)
(* every credential that lives is among what the program excludes.         *)
(***************************************************************************)
EXTENDS Credentials, AuthDataProofs

IsSeq(s) == \E S : s \in Seq(S)

Calls == PlainCalls \cup CredentialCalls

(* Only a reply to a registration reads as one, and so with an assertion; *)
(* and then it has its call's types, and is no token.                     *)
OfKind(of, r) ==
    /\ of \in Calls
    /\ readAttestation(r) => of = "MakeCredential"
    /\ readAssertion(r) => of = "GetAssertion"
    /\ of \in CredentialCalls /\ Accepts(of, PINProtocolOne, r) =>
          Typed(of, r) /\ Len(r[2].bytes) \notin {16, 32, 48}

(* A call that is neither was misled by a reply that should not have been made. *)
Misled(op, of, r) ==
    /\ op \in PlainCalls
    /\ of \in CredentialCalls => ~Accepts(of, PINProtocolOne, r)
    /\ ~Typed(of, r) \/ (op = "PINToken" /\ of \in CredentialCalls)

Data(r) == ParseAuthData(r[2].bytes)

(* The credential that answered: the one the reply names, or the only one that *)
(* was allowed.                                                                *)
AnsweredBy(r, rq) ==
    IF 1 \in DOMAIN r THEN r[1].bytes
    ELSE IF Len(rq.allow) = 1 THEN rq.allow[1].id ELSE << >>

Registers(e, rq, creds) ==
    \E c \in DOMAIN creds :
        /\ Data(e.reply).attested.id = <<c>> /\ Data(e.reply).attested.key = <<65, c>>
        /\ e.n = rq.n => creds[c].rp = rq.rp.id /\ creds[c].user = rq.user.id

Signs(e, rq, creds) ==
    \E c \in DOMAIN creds :
        /\ e.reply[3].sig = [key |-> Points[c], data |-> e.reply[2].bytes, hash |-> e.n]
        /\ e.n = rq.n => AnsweredBy(e.reply, rq) = <<c>>

(* What is known of a reply e when rq is the last request and creds are the   *)
(* credentials: more if it answers rq than if it is late.                     *)
Sound(e, rq, creds) ==
    /\ e = [of |-> e.of, n |-> e.n, err |-> e.err, reply |-> e.reply]
    /\ e.n \in 0 .. rq.n
    /\ e.err = "none" /\ e.of # "none" =>
         /\ OfKind(e.of, e.reply)
         /\ e.of = "MakeCredential" /\ readAttestation(e.reply) => Registers(e, rq, creds)
         /\ e.of = "GetAssertion" /\ readAssertion(e.reply) => Signs(e, rq, creds)
         /\ e.n = rq.n /\ e.of \in CredentialCalls /\ Accepts(e.of, PINProtocolOne, e.reply) =>
              (FlagHas(Data(e.reply).flags, FlagUV) <=> Valid(rq.token))
    /\ e.n = rq.n /\ e.err = "parameter" => rq.op = "MakeCredential" /\ rq.rp.name = 0

Shaped(creds) ==
    /\ IsSeq(creds)
    /\ \A c \in 1 .. Len(creds) :
          creds[c] = [rp |-> creds[c].rp, user |-> creds[c].user, rk |-> creds[c].rk, alg |-> creds[c].alg,
                      live |-> creds[c].live]

Counting ==
    /\ calls \in Nat /\ calls <= MaxCalls /\ call.n = calls
    /\ Shaped(made) /\ Len(made) <= calls

Request(rq) ==
    /\ rq.op \in Calls /\ rq.proto \in {PINProtocolOne, PINProtocolTwo}
    /\ rq.op \in CredentialCalls =>
          rq.proto = PINProtocolOne /\ rq.hash = rq.n /\ rq.account \in Accounts
    /\ rq.op = "MakeCredential" => rq.rp = rq.account.rp /\ rq.user = rq.account.user

(* The request is there until its reply was read, and while that is the last. *)
Asked == pc # "idle" \/ last.of # "none" => Request(call)

Waiting ==
    /\ pc # "idle" => pc = call.op
    /\ IsSeq(queue)
    /\ \A i \in 1 .. Len(queue) : Sound(queue[i], call, made) /\ queue[i].of \in Calls
    /\ Sound(last, call, made)

Taken == last.of # "none" /\ last.err = "none" => pc = "idle" /\ Accepts(call.op, call.proto, last.reply)

KeyOf(c, creds) == PublicKey(COSEKey(creds[c].alg, Points[c])).point

Kept ==
    /\ IsFiniteSet(known)
    /\ \A k \in known :
          /\ k.account \in Accounts
          /\ \E c \in DOMAIN made : k.id = <<c>> /\ k.key = KeyOf(c, made)

(* The registration of c is about to be read. *)
Pending(c) ==
    /\ pc = "MakeCredential" /\ queue[1].err = "none" /\ readAttestation(queue[1].reply)
    /\ Data(queue[1].reply).attested.id = <<c>>

Tidy ==
    clean =>
        /\ pc = "idle" => queue = << >>
        /\ pc # "idle" => Len(queue) = 1 /\ queue[1].n = call.n /\ queue[1].of = call.op
        /\ \A k \in known : made[k.id[1]].rp = k.account.rp.id /\ made[k.id[1]].user = k.account.user.id
        /\ \A c \in DOMAIN made : made[c].live => Pending(c) \/ \E k \in known : k.id = <<c>>
        /\ \A c, d \in DOMAIN made :
              made[c].live /\ made[d].live /\ made[c].rp = made[d].rp /\ made[c].user = made[d].user => c = d

CInv == Counting /\ Asked /\ Waiting /\ Taken /\ Kept /\ Tidy

----------------------------------------------------------------------------
(* A token's reply is recognised by its length: 16 or 32 bytes, with or       *)
(* without the vector in front (PINToken).                                    *)
LEMMA TokenLengths ==
    ASSUME NEW r, NEW proto \in {PINProtocolOne, PINProtocolTwo}, readToken(proto, r),
           r[2].bytes \in Seq(Byte)
    PROVE  Len(r[2].bytes) \in {16, 32, 48}
<1> DEFINE keys == deriveKeys(proto, ECDH(1, 2)).keys
           len == Len(r[2].bytes)
           plain == decrypt(keys, Ciphertext(len, keys.aes, Noise(0)))
<1>1. plain.err = "none" /\ TokenLength(proto, plain.out.len)
  BY DEF readToken
<1>2. keys.proto = proto
  BY DEF deriveKeys, PINProtocolOne, PINProtocolTwo
<1>3. len \in Nat /\ Prefix(keys) \in {0, 16}
  BY <1>2 DEF Prefix, BlockSize
<1>4. PICK cipher : cipher = Ciphertext(len, keys.aes, Noise(0))
  OBVIOUS
<1>5. cipher.len = len /\ cipher.plain.len = 0 /\ cipher.plain = Noise(0)
  BY <1>4 DEF Ciphertext, Noise, Bytes
<1> HIDE DEF keys, len
<1>6. plain.out.len \in {0, len - Prefix(keys)}
  BY <1>1, <1>3, <1>4, <1>5 DEF decrypt, Noise, Bytes
<1>7. plain.out.len \in {16, 32}
  BY <1>1 DEF TokenLength
<1>8. PICK out, prefix : out = plain.out.len /\ prefix = Prefix(keys)
  OBVIOUS
<1> HIDE DEF plain
<1>9. len \in {16, 32, 48}
  <2>1. out \in {0, len - prefix} /\ out \in {16, 32} /\ prefix \in {0, 16} /\ len \in Nat
    BY <1>3, <1>6, <1>7, <1>8
  <2>2. QED
    BY <2>1
<1>10. QED
  BY <1>9 DEF len

(* The member that gives a call's reply away. *)
LEMMA Telling ==
    ASSUME NEW of \in Calls, NEW m \in DOMAIN MemberTypes(of), NEW type, type = MemberTypes(of)[m]
    PROVE  /\ m = 1 /\ type = "texts" => of = "GetInfo"
           /\ m = 3 /\ type = "int" => of = "PINRetries"
           /\ m = 1 /\ type = "cose" => of = "KeyAgreement"
           /\ m = 2 /\ type = "bytes" => of \in {"PINToken", "MakeCredential", "GetAssertion"}
           /\ m = 1 /\ type = "text" => of = "MakeCredential"
           /\ m = 3 /\ type = "bytes" => of \in {"GetInfo", "GetAssertion"}
<1>1. CASE of = "GetInfo"
  BY <1>1 DEF MemberTypes
<1>2. CASE of = "PINRetries"
  BY <1>2 DEF MemberTypes
<1>3. CASE of = "KeyAgreement"
  BY <1>3 DEF MemberTypes
<1>4. CASE of = "PINToken"
  BY <1>4 DEF MemberTypes
<1>5. CASE of = "MakeCredential"
  BY <1>5 DEF MemberTypes
<1>6. CASE of = "GetAssertion"
  BY <1>6 DEF MemberTypes
<1>7. QED
  BY <1>1, <1>2, <1>3, <1>4, <1>5, <1>6 DEF Calls, PlainCalls, CredentialCalls

(* The types of the members tell the calls apart, but for a token, which is   *)
(* bytes as authenticator data is.                                            *)
LEMMA ToldApart ==
    ASSUME NEW of \in Calls, NEW r, Typed(of, r), NEW op \in Calls, NEW proto, Accepts(op, proto, r)
    PROVE  of = op \/ (op = "PINToken" /\ of \in CredentialCalls)
<1>1. \A m \in DOMAIN r : m \in DOMAIN MemberTypes(of) /\ r[m].type = MemberTypes(of)[m]
  BY DEF Typed
<1>2. CASE op = "GetInfo"
  <2>1. 1 \in DOMAIN r /\ r[1].type = "texts"
    BY <1>2 DEF Accepts, parseInfo, optional, Fits
  <2>2. QED
    BY <1>1, <1>2, <2>1, Telling
<1>3. CASE op = "PINRetries"
  <2>1. 3 \in DOMAIN r /\ r[3].type = "int"
    BY <1>3 DEF Accepts, readRetries, field, Fits
  <2>2. QED
    BY <1>1, <1>3, <2>1, Telling
<1>4. CASE op = "KeyAgreement"
  <2>1. 1 \in DOMAIN r /\ r[1].type = "cose"
    BY <1>4 DEF Accepts, readAgreement, field, Fits
  <2>2. QED
    BY <1>1, <1>4, <2>1, Telling
<1>5. CASE op = "PINToken"
  <2>1. readToken(proto, r)
    BY <1>5 DEF Accepts
  <2>2. 2 \in DOMAIN r /\ r[2].type = "bytes"
    BY <2>1 DEF readToken, field, Fits
  <2>3. QED
    BY <1>1, <1>5, <2>2, Telling DEF CredentialCalls
<1>6. CASE op = "MakeCredential"
  <2>1. 1 \in DOMAIN r /\ r[1].type = "text"
    BY <1>6 DEF Accepts, readAttestation, field, Fits
  <2>2. QED
    BY <1>1, <1>6, <2>1, Telling
<1>7. CASE op = "GetAssertion"
  <2>1. /\ 2 \in DOMAIN r /\ r[2].type = "bytes"
        /\ 3 \in DOMAIN r /\ r[3].type = "bytes"
    BY <1>7 DEF Accepts, readAssertion, readAuthData, field, Fits
  <2>2. QED
    BY <1>1, <1>7, <2>1, Telling
<1>8. QED
  BY <1>2, <1>3, <1>4, <1>5, <1>6, <1>7 DEF Calls, PlainCalls, CredentialCalls

(* A registration and an assertion are read from nothing else.                *)
LEMMA NotMisled ==
    ASSUME NEW of, NEW r, OfKind(of, r), NEW op \in CredentialCalls, NEW proto, Accepts(op, proto, r)
    PROVE  of = op
<1>1. CASE op = "MakeCredential"
  BY <1>1 DEF OfKind, Accepts
<1>2. CASE op = "GetAssertion"
  BY <1>2 DEF OfKind, Accepts
<1>3. QED
  BY <1>1, <1>2 DEF CredentialCalls

(* What keeps a reply to one call from being taken for a reply to another:    *)
(* the CBOR types of its members, and the length of a token.                  *)
LEMMA OnlyItsOwn ==
    ASSUME NEW of, NEW r, OfKind(of, r), NEW op \in Calls,
           NEW proto \in {PINProtocolOne, PINProtocolTwo}, Accepts(op, proto, r)
    PROVE  of = op \/ Misled(op, of, r)
<1>1. of \in Calls
  BY DEF OfKind
<1>2. CASE op \in CredentialCalls
  BY <1>2, NotMisled
<1>3. CASE op \in PlainCalls /\ ~Typed(of, r)
  BY <1>3 DEF OfKind, Misled
<1>4. CASE op \in PlainCalls /\ Typed(of, r)
  <2>1. SUFFICES ASSUME of # op PROVE Misled(op, of, r)
    OBVIOUS
  <2>2. op = "PINToken" /\ of \in CredentialCalls
    BY <1>1, <1>4, <2>1, ToldApart
  <2>3. readToken(proto, r)
    BY <2>2 DEF Accepts
  <2>4. 2 \in DOMAIN r
    BY <2>3 DEF readToken, field
  <2>5. Len(r[2].bytes) \in {16, 32, 48}
    BY <1>4, <2>3, <2>4, TokenLengths DEF Typed
  <2>6. QED
    BY <1>4, <2>2, <2>5 DEF OfKind, Misled
<1>5. QED
  BY <1>2, <1>3, <1>4 DEF Calls

----------------------------------------------------------------------------
(* The data that an authenticator signs, as ParseAuthData reads it.           *)
DataIs(d, uv, attested) ==
    LET a == ParseAuthData(d) IN
    /\ d \in Seq(Byte) /\ a.err = "none" /\ a.attested = attested
    /\ FlagHas(a.flags, FlagUV) <=> uv
    /\ FlagHas(a.flags, FlagAT) <=> attested # NoAttested
    /\ d # << >> /\ Len(d) = IF attested = NoAttested THEN 37 ELSE 58

Written(rpID, signCount, flags, attested) ==
    [err |-> "none", rpIDHash |-> Rep(rpIDHashLen, rpID), flags |-> flags, signCount |-> signCount,
     attested |-> attested, extensions |-> << >>]

LEMMA Repeats ==
    ASSUME NEW n \in Nat, NEW v \in Byte
    PROVE  Rep(n, v) \in Seq(Byte) /\ Len(Rep(n, v)) = n
<1>1. Rep(n, v) \in [1 .. n -> Byte]
  BY DEF Rep
<1>2. QED
  BY <1>1

LEMMA CredentialIs ==
    ASSUME NEW c \in Byte
    PROVE  LET att == NewCredential(c) IN
           /\ att = [aaguid |-> att.aaguid, id |-> att.id, key |-> att.key] /\ att # NoAttested
           /\ att.aaguid \in Seq(Byte) /\ Len(att.aaguid) = aaguidLen
           /\ att.id = <<c>> /\ att.key = <<65, c>>
           /\ att.id \in Seq(Byte) /\ Len(att.id) = 1 /\ Len(att.key) = 2 /\ IsItem(att.key)
<1>1. PICK g, att : g = Rep(aaguidLen, 187) /\ att = NewCredential(c)
  OBVIOUS
<1>2. g \in Seq(Byte) /\ Len(g) = 16
  <2>1. 187 \in Byte /\ aaguidLen = 16 /\ 16 \in Nat
    BY DEF Byte, aaguidLen
  <2>2. QED
    BY <1>1, <2>1, Repeats
<1>3. att = [aaguid |-> g, id |-> <<c>>, key |-> <<65, c>>]
  BY <1>1 DEF NewCredential
<1>4. /\ att.aaguid = g /\ att.id = <<c>> /\ att.key = <<65, c>>
      /\ att = [aaguid |-> att.aaguid, id |-> att.id, key |-> att.key]
  <2>1. PICK i, k : i = <<c>> /\ k = <<65, c>>
    OBVIOUS
  <2>2. att = [aaguid |-> g, id |-> i, key |-> k]
    BY <1>3, <2>1
  <2>3. att.aaguid = g /\ att.id = i /\ att.key = k
    BY <2>2
  <2>4. QED
    BY <2>1, <2>2, <2>3
<1>5. att # NoAttested
  <2>1. g # << >>
    <3>1. Len(<< >>) = 0
      OBVIOUS
    <3>2. Len(g) # Len(<< >>)
      BY <1>2, <3>1
    <3>3. QED
      BY <3>2, Zenon
  <2>2. att.aaguid = g /\ NoAttested.aaguid = << >>
    BY <1>4 DEF NoAttested
  <2>3. QED
    BY <2>1, <2>2
<1>6. <<c>> \in Seq(Byte) /\ <<65, c>> \in Seq(Byte) /\ Len(<<c>>) = 1 /\ Len(<<65, c>>) = 2
  BY DEF Byte
<1>7. IsItem(<<65, c>>)
  <2>1. PICK b : b = <<65, c>>
    OBVIOUS
  <2>2. b # << >> /\ b[1] = 65 /\ Len(b) = 2
    BY <2>1
  <2>3. ItemLen(b) = 2
    BY <2>2 DEF ItemLen
  <2>4. QED
    BY <1>6, <2>1, <2>2, <2>3 DEF IsItem
<1>8. QED
  BY <1>1, <1>2, <1>4, <1>5, <1>6, <1>7 DEF aaguidLen

LEMMA FlagBits ==
    ASSUME NEW uv \in BOOLEAN, NEW at \in BOOLEAN, NEW flags,
           flags = FlagUP + (IF uv THEN FlagUV ELSE 0) + (IF at THEN FlagAT ELSE 0)
    PROVE  /\ flags \in Byte /\ (FlagHas(flags, FlagUV) <=> uv) /\ (FlagHas(flags, FlagAT) <=> at)
           /\ ~FlagHas(flags, FlagED)
<1>1. flags = 1 + (IF uv THEN 4 ELSE 0) + (IF at THEN 64 ELSE 0)
  BY DEF FlagUP, FlagUV, FlagAT
<1>2. CASE uv /\ at
  BY <1>1, <1>2 DEF FlagHas, FlagUV, FlagAT, FlagED, Byte
<1>3. CASE uv /\ ~at
  BY <1>1, <1>3 DEF FlagHas, FlagUV, FlagAT, FlagED, Byte
<1>4. CASE ~uv /\ at
  BY <1>1, <1>4 DEF FlagHas, FlagUV, FlagAT, FlagED, Byte
<1>5. CASE ~uv /\ ~at
  BY <1>1, <1>5 DEF FlagHas, FlagUV, FlagAT, FlagED, Byte
<1>6. QED
  BY <1>2, <1>3, <1>4, <1>5

LEMMA Lengths ==
    ASSUME NEW s \in Seq(Byte), NEW t \in Seq(Byte)
    PROVE  Cat(s, t) \in Seq(Byte) /\ Len(Cat(s, t)) = Len(s) + Len(t)
BY ConcatProperties DEF Cat

FlagsFor(uv, attested) ==
    FlagUP + (IF uv THEN FlagUV ELSE 0) + (IF attested # NoAttested THEN FlagAT ELSE 0)

Attestable(attested) == attested = NoAttested \/ \E c \in Byte : attested = NewCredential(c)

AttestedIs(att) ==
    /\ att = [aaguid |-> att.aaguid, id |-> att.id, key |-> att.key]
    /\ att.aaguid \in Seq(Byte) /\ Len(att.aaguid) = aaguidLen
    /\ att.id \in Seq(Byte) /\ Len(att.id) = 1
    /\ IsItem(att.key) /\ Len(att.key) = 2

LEMMA AttestedAre == ASSUME NEW att, Attestable(att), att # NoAttested PROVE AttestedIs(att)
BY CredentialIs DEF Attestable, AttestedIs

LEMMA WrittenIs ==
    ASSUME NEW rpID \in Byte, NEW signCount \in Seq(Byte), Len(signCount) = 4, NEW uv \in BOOLEAN,
           NEW attested, Attestable(attested), NEW flags, flags = FlagsFor(uv, attested)
    PROVE  DataIs(EncodeAuthData(Written(rpID, signCount, flags, attested)), uv, attested)
<1>1. PICK a, hash : a = Written(rpID, signCount, flags, attested) /\ hash = Rep(rpIDHashLen, rpID)
  OBVIOUS
<1>2. hash \in Seq(Byte) /\ Len(hash) = 32
  BY <1>1, Repeats DEF rpIDHashLen
<1>3. /\ flags \in Byte /\ (FlagHas(flags, FlagUV) <=> uv)
      /\ (FlagHas(flags, FlagAT) <=> attested # NoAttested) /\ ~FlagHas(flags, FlagED)
  <2>1. PICK at \in BOOLEAN : at <=> attested # NoAttested
    OBVIOUS
  <2>2. flags = FlagUP + (IF uv THEN FlagUV ELSE 0) + (IF at THEN FlagAT ELSE 0)
    BY <2>1 DEF FlagsFor
  <2>3. QED
    BY <2>1, <2>2, FlagBits
<1>4. /\ a.err = "none" /\ a.rpIDHash = hash /\ a.flags = flags /\ a.signCount = signCount
      /\ a.attested = attested /\ a.extensions = << >>
  BY <1>1 DEF Written
<1>5. attested # NoAttested => AttestedIs(attested)
  BY AttestedAre
<1>6. WellFormed(a)
  <2>1. a = [err |-> "none", rpIDHash |-> a.rpIDHash, flags |-> a.flags, signCount |-> a.signCount,
             attested |-> a.attested, extensions |-> a.extensions]
    BY <1>1 DEF Written
  <2>2. /\ a.rpIDHash \in Seq(Byte) /\ Len(a.rpIDHash) = rpIDHashLen /\ a.flags \in Byte
        /\ a.signCount \in Seq(Byte) /\ Len(a.signCount) = signCountLen
        /\ ~FlagHas(a.flags, FlagED) /\ a.extensions = << >>
    BY <1>2, <1>3, <1>4 DEF rpIDHashLen, signCountLen
  <2>3. CASE attested = NoAttested
    <3>1. ~FlagHas(a.flags, FlagAT) /\ a.attested = NoAttested
      BY <1>3, <1>4, <2>3
    <3>2. QED
      BY <2>1, <2>2, <3>1 DEF WellFormed
  <2>4. CASE attested # NoAttested
    <3>1. FlagHas(a.flags, FlagAT) /\ AttestedIs(a.attested)
      BY <1>3, <1>4, <1>5, <2>4
    <3>2. Len(a.attested.id) < 65536
      BY <3>1 DEF AttestedIs
    <3>3. QED
      BY <2>1, <2>2, <3>1, <3>2 DEF WellFormed, AttestedIs
  <2>5. QED
    BY <2>3, <2>4
<1>7. ParseAuthData(EncodeAuthData(a)) = a
  BY <1>6, ReadAsWritten
<1>8. /\ EncodeAuthData(a) \in Seq(Byte)
      /\ Len(EncodeAuthData(a)) = IF attested = NoAttested THEN 37 ELSE 58
  <2>1. /\ Header(a) \in Seq(Byte) /\ Credential(a) \in Seq(Byte) /\ Extensions(a) \in Seq(Byte)
        /\ EncodeAuthData(a) = Cat(Cat(Header(a), Credential(a)), Extensions(a))
    BY <1>6, WrittenParts
  <2>2. Len(Header(a)) = 37
    <3>1. PICK f : f = <<flags>>
      OBVIOUS
    <3>2. f \in Seq(Byte) /\ Len(f) = 1
      BY <1>3, <3>1
    <3>3. Header(a) = Cat(Cat(hash, f), signCount)
      BY <1>4, <3>1 DEF Header, Cat
    <3>4. Cat(hash, f) \in Seq(Byte) /\ Len(Cat(hash, f)) = 33
      <4>1. Cat(hash, f) \in Seq(Byte) /\ Len(Cat(hash, f)) = Len(hash) + Len(f)
        BY <1>2, <3>2, Lengths
      <4>2. QED
        BY <1>2, <3>2, <4>1
    <3>5. PICK x : x = Cat(hash, f)
      OBVIOUS
    <3>6. Len(Cat(x, signCount)) = Len(x) + Len(signCount)
      BY <3>4, <3>5, Lengths
    <3>7. QED
      BY <3>3, <3>4, <3>5, <3>6
  <2>3. Len(Credential(a)) = IF attested = NoAttested THEN 0 ELSE 21
    <3>1. CASE attested = NoAttested
      BY <1>3, <1>4, <3>1 DEF Credential
    <3>2. CASE attested # NoAttested
      <4>1. PICK g, n, i, k : /\ g = attested.aaguid /\ i = attested.id /\ k = attested.key
                              /\ n = <<Len(i) \div 256, Len(i) % 256>>
        OBVIOUS
      <4>2. /\ g \in Seq(Byte) /\ Len(g) = 16 /\ i \in Seq(Byte) /\ Len(i) = 1
            /\ k \in Seq(Byte) /\ Len(k) = 2
        BY <1>5, <3>2, <4>1 DEF AttestedIs, aaguidLen, IsItem
      <4>3. n \in Seq(Byte) /\ Len(n) = 2
        <5>1. 1 \div 256 \in Byte /\ 1 % 256 \in Byte
          BY DEF Byte
        <5>2. QED
          BY <4>1, <4>2, <5>1
      <4>4. Credential(a) = Cat(Cat(Cat(g, n), i), k)
        BY <1>3, <1>4, <3>2, <4>1 DEF Credential, Cat
      <4>5. PICK x, y : x = Cat(g, n) /\ y = Cat(x, i)
        OBVIOUS
      <4>6. x \in Seq(Byte) /\ Len(x) = Len(g) + Len(n)
        BY <4>2, <4>3, <4>5, Lengths
      <4>7. y \in Seq(Byte) /\ Len(y) = Len(x) + Len(i)
        BY <4>2, <4>5, <4>6, Lengths
      <4>8. Len(Cat(y, k)) = Len(y) + Len(k)
        BY <4>2, <4>7, Lengths
      <4>9. Len(Credential(a)) = Len(Cat(y, k))
        BY <4>4, <4>5
      <4>10. QED
        BY <3>2, <4>2, <4>3, <4>6, <4>7, <4>8, <4>9
    <3>3. QED
      BY <3>1, <3>2
  <2>4. Len(Extensions(a)) = 0
    BY <1>3, <1>4 DEF Extensions
  <2>5. PICK h, i, e : h = Header(a) /\ i = Credential(a) /\ e = Extensions(a)
    OBVIOUS
  <2>6. PICK x : x = Cat(h, i)
    OBVIOUS
  <2>7. x \in Seq(Byte) /\ Len(x) = Len(h) + Len(i)
    BY <2>1, <2>5, <2>6, Lengths
  <2>8. Cat(x, e) \in Seq(Byte) /\ Len(Cat(x, e)) = Len(x) + Len(e)
    BY <2>1, <2>5, <2>7, Lengths
  <2>9. EncodeAuthData(a) = Cat(x, e)
    BY <2>1, <2>5, <2>6
  <2>10. Len(x) + Len(e) = IF attested = NoAttested THEN 37 ELSE 58
    BY <2>2, <2>3, <2>4, <2>5, <2>7
  <2>11. QED
    BY <2>8, <2>9, <2>10
<1>9. EncodeAuthData(a) # << >>
  <2>1. Len(EncodeAuthData(a)) # Len(<< >>)
    BY <1>8
  <2>2. QED
    BY <2>1, Zenon
<1>10. QED
  BY <1>1, <1>3, <1>4, <1>7, <1>8, <1>9 DEF DataIs

LEMMA DataRead ==
    ASSUME calls \in Nat, NEW rpID \in Byte, NEW uv \in BOOLEAN,
           NEW attested, Attestable(attested)
    PROVE  DataIs(AuthDataOf(rpID, uv, attested), uv, attested)
<1>1. PICK signCount, flags :
         /\ signCount = <<0, 0, 0, calls % 256>>
         /\ flags = FlagsFor(uv, attested)
  OBVIOUS
<1>2. signCount \in Seq(Byte) /\ Len(signCount) = 4
  <2>1. calls % 256 \in Byte /\ 0 \in Byte
    BY DEF Byte
  <2>2. QED
    BY <1>1, <2>1
<1>3. AuthDataOf(rpID, uv, attested) = EncodeAuthData(Written(rpID, signCount, flags, attested))
  <2>1. flags = FlagUP + (IF uv THEN FlagUV ELSE 0) + (IF attested = NoAttested THEN 0 ELSE FlagAT)
    BY <1>1 DEF FlagsFor
  <2>2. PICK a, b : /\ a = Written(rpID, signCount, flags, attested)
                    /\ b = [rpIDHash |-> Rep(rpIDHashLen, rpID), signCount |-> signCount,
                            flags |-> flags, attested |-> attested, extensions |-> << >>]
    OBVIOUS
  <2>3. /\ a.rpIDHash = b.rpIDHash /\ a.flags = b.flags /\ a.signCount = b.signCount
        /\ a.attested = b.attested /\ a.extensions = b.extensions
    BY <2>2 DEF Written
  <2>4. EncodeAuthData(a) = EncodeAuthData(b)
    <3> DEFINE Laid(h, f, s, t, e) ==
               h \o <<f>> \o s
                 \o (IF FlagHas(f, FlagAT)
                     THEN t.aaguid \o <<Len(t.id) \div 256, Len(t.id) % 256>> \o t.id \o t.key
                     ELSE << >>)
                 \o (IF FlagHas(f, FlagED) THEN e ELSE << >>)
    <3>1. EncodeAuthData(a) = Laid(a.rpIDHash, a.flags, a.signCount, a.attested, a.extensions)
      BY Zenon DEF EncodeAuthData
    <3>2. EncodeAuthData(b) = Laid(b.rpIDHash, b.flags, b.signCount, b.attested, b.extensions)
      BY Zenon DEF EncodeAuthData
    <3> HIDE DEF Laid
    <3>3. QED
      BY <2>3, <3>1, <3>2, Zenon
  <2>5. AuthDataOf(rpID, uv, attested) = EncodeAuthData(b)
    BY <1>1, <2>1, <2>2, Zenon DEF AuthDataOf
  <2>6. QED
    BY <2>2, <2>4, <2>5
<1>4. PICK d : d = EncodeAuthData(Written(rpID, signCount, flags, attested))
  OBVIOUS
<1>5. DataIs(d, uv, attested)
  BY <1>1, <1>2, <1>4, WrittenIs, Zenon
<1>6. QED
  BY <1>3, <1>4, <1>5

----------------------------------------------------------------------------
(* The numbers of the members.                                                *)
LEMMA RegistrationMap ==
    ASSUME NEW r
    PROVE  LET req == MakeCredentialMap(r) IN
           /\ {1, 2, 3, 4} \subseteq DOMAIN req /\ DOMAIN req \subseteq 1 .. 9
           /\ 5 \in DOMAIN req <=> r.exclude # << >>
           /\ 7 \in DOMAIN req <=> r.options # {}
           /\ 8 \in DOMAIN req <=> Valid(r.token)
           /\ 9 \in DOMAIN req <=> Valid(r.token)
           /\ req[1] = r.hash /\ req[2] = [id |-> r.rp.id, name |-> r.rp.name]
           /\ req[3] = userMap(r.user) /\ req[4] = credParams(r.algs)
           /\ r.exclude # << >> => req[5] = descriptors(r.exclude)
           /\ r.options # {} => req[7] = r.options
BY DEF MakeCredentialMap, mcClientDataHash, mcRP, mcUser, mcPubKeyCredParams, mcExcludeList, mcOptions,
       mcPinUvAuthParam, mcPinUvAuthProtocol

LEMMA AssertionMap ==
    ASSUME NEW r
    PROVE  LET req == GetAssertionMap(r) IN
           /\ {1, 2} \subseteq DOMAIN req /\ DOMAIN req \subseteq 1 .. 7
           /\ 3 \in DOMAIN req <=> r.allow # << >>
           /\ 5 \in DOMAIN req <=> r.options # {}
           /\ 6 \in DOMAIN req <=> Valid(r.token)
           /\ 7 \in DOMAIN req <=> Valid(r.token)
           /\ req[1] = r.rpID /\ req[2] = r.hash
           /\ r.allow # << >> => req[3] = descriptors(r.allow)
           /\ r.options # {} => req[5] = r.options
BY DEF GetAssertionMap, AssertionMembers, gaRPID, gaClientDataHash, gaAllowList, gaOptions,
       gaPinUvAuthParam, gaPinUvAuthProtocol

LEMMA Described ==
    ASSUME NEW s, IsSeq(s)
    PROVE  /\ DOMAIN descriptors(s) = 1 .. Len(s) /\ Len(s) \in Nat
           /\ Len(descriptors(s)) = Len(s)
           /\ s # << >> => descriptors(s) # << >> /\ Len(s) > 0
           /\ \A i \in 1 .. Len(s) :
                 /\ descriptors(s)[i].id = s[i].id
                 /\ s[i].type = "" => descriptors(s)[i].type = "public-key"
<1>1. PICK S : s \in Seq(S)
  BY DEF IsSeq
<1>2. DOMAIN s = 1 .. Len(s) /\ Len(s) \in Nat /\ (s # << >> => Len(s) > 0)
  BY <1>1
<1>3. DOMAIN descriptors(s) = 1 .. Len(s)
  BY <1>2 DEF descriptors
<1>4. s # << >> => descriptors(s) # << >>
  <2>1. s # << >> => 1 \in DOMAIN descriptors(s)
    BY <1>2, <1>3
  <2>2. DOMAIN << >> = {}
    OBVIOUS
  <2>3. QED
    BY <2>1, <2>2
<1>5. ASSUME NEW i \in 1 .. Len(s)
      PROVE  /\ descriptors(s)[i].id = s[i].id
             /\ s[i].type = "" => descriptors(s)[i].type = "public-key"
  <2>1. PICK type : type = IF s[i].type = "" THEN "public-key" ELSE s[i].type
    OBVIOUS
  <2>2. descriptors(s)[i] = Descriptor(s[i], type)
    BY <1>2, <2>1 DEF descriptors
  <2>3. Descriptor(s[i], type)["id"] = s[i]["id"] /\ Descriptor(s[i], type)["type"] = type
    BY DEF Descriptor
  <2>4. QED
    BY <2>1, <2>2, <2>3
<1>6. Len(descriptors(s)) = Len(s)
  <2>1. PICK d, n : d = descriptors(s) /\ n = Len(s)
    OBVIOUS
  <2>2. d = [i \in 1 .. n |-> d[i]]
    BY <1>2, <2>1 DEF descriptors
  <2>3. d \in Seq({d[i] : i \in 1 .. n}) /\ n \in Nat
    BY <1>2, <2>1, <2>2
  <2>4. QED
    BY <1>3, <2>1, <2>3
<1>7. QED
  BY <1>2, <1>3, <1>4, <1>5, <1>6

(* What was not given is left out, so only a relying party without a name is  *)
(* an empty member.                                                           *)
LEMMA RegistrationEmpty ==
    ASSUME NEW r, IsSeq(r.exclude), r.algs \in Seq(Int),
           EmptyMember(MakeCredentialMap(r), {4, 5}, {7}, {2, 3})
    PROVE  r.rp.name = 0
<1>1. PICK req : req = MakeCredentialMap(r)
  OBVIOUS
<1>2. req[4] # << >>
  <2>1. PICK asked : asked = IF r.algs = << >> THEN <<AlgES256>> ELSE r.algs
    OBVIOUS
  <2>2. 1 \in DOMAIN asked
    BY <2>1 DEF AlgES256
  <2>3. DOMAIN credParams(r.algs) = DOMAIN asked
    BY <2>1 DEF credParams
  <2>4. DOMAIN << >> = {}
    OBVIOUS
  <2>5. QED
    BY <1>1, <2>2, <2>3, <2>4, RegistrationMap
<1>3. 5 \in DOMAIN req => req[5] # << >>
  <2>1. 5 \in DOMAIN req => r.exclude # << >> /\ req[5] = descriptors(r.exclude)
    BY <1>1, RegistrationMap
  <2>2. r.exclude # << >> => descriptors(r.exclude) # << >>
    BY Described
  <2>3. QED
    BY <2>1, <2>2
<1>4. 7 \in DOMAIN req => req[7] # {}
  BY <1>1, RegistrationMap
<1>5. \A name \in DOMAIN req[3] \ {"id"} : req[3][name] # 0
  <2>1. \A name \in DOMAIN userMap(r.user) \ {"id"} : userMap(r.user)[name] # 0
    BY DEF userMap
  <2>2. QED
    BY <1>1, <2>1, RegistrationMap
<1>6. req[2] = [id |-> r.rp.id, name |-> r.rp.name]
  BY <1>1, RegistrationMap
<1>7. PICK name \in DOMAIN req[2] \ {"id"} : req[2][name] = 0
  <2>1. \/ \E m \in {4, 5} \cap DOMAIN req : req[m] = << >>
        \/ \E m \in {7} \cap DOMAIN req : req[m] = {}
        \/ \E m \in {2, 3} : \E name \in DOMAIN req[m] \ {"id"} : req[m][name] = 0
    BY <1>1, Zenon DEF EmptyMember
  <2>2. QED
    BY <1>2, <1>3, <1>4, <1>5, <2>1
<1>8. QED
  BY <1>6, <1>7

LEMMA AssertionEmpty ==
    ASSUME NEW r, IsSeq(r.allow) PROVE ~EmptyMember(GetAssertionMap(r), {3}, {5}, {})
<1>1. PICK req : req = GetAssertionMap(r)
  OBVIOUS
<1>2. 3 \in DOMAIN req => req[3] # << >>
  <2>1. 3 \in DOMAIN req => r.allow # << >> /\ req[3] = descriptors(r.allow)
    BY <1>1, AssertionMap
  <2>2. r.allow # << >> => descriptors(r.allow) # << >>
    BY Described
  <2>3. QED
    BY <2>1, <2>2
<1>3. 5 \in DOMAIN req => req[5] # {}
  BY <1>1, AssertionMap
<1>4. QED
  BY <1>1, <1>2, <1>3 DEF EmptyMember

----------------------------------------------------------------------------
(* What the authenticator makes of a request of this package.                 *)
Excluded(r) ==
    \E d \in Live(r.rp.id), i \in 1 .. Len(r.exclude) :
       /\ descriptors(r.exclude)[i].type = "public-key"
       /\ descriptors(r.exclude)[i].id = <<d>>

Attestation(rpID, uv, c) == <<Item("text"), ByteString(AuthDataOf(rpID, uv, NewCredential(c))), Item("statement")>>

MakesNew(r) ==
    \E uv \in BOOLEAN, rk \in BOOLEAN, alg \in {Chosen(credParams(r.algs))} :
       /\ uv <=> Valid(r.token)
       /\ made' = Stored(Len(made) + 1, r.rp.id, r.user.id, rk, alg)
       /\ Says("MakeCredential", "none", Attestation(r.rp.id, uv, Len(made) + 1))

LEMMA Makes ==
    ASSUME NEW r, IsSeq(r.exclude), r.algs \in Seq(Int), AuthenticatorMakes(MakeCredentialMap(r))
    PROVE  \/ \E status : /\ status # "none" /\ (status = "parameter" => r.rp.name = 0)
                          /\ Refuses("MakeCredential", status)
           \/ ~Excluded(r) /\ MakesNew(r)
<1>1. PICK req : req = MakeCredentialMap(r)
  OBVIOUS
<1> DEFINE token == TokenStatus(req, 8, 9, req[1])
           rk == 7 \in DOMAIN req /\ "rk" \in req[7]
           alg == Chosen(req[4])
           c == Len(made) + 1
<1>2. /\ req[2].id = r.rp.id /\ req[3].id = r.user.id /\ req[4] = credParams(r.algs)
      /\ 5 \in DOMAIN req <=> r.exclude # << >>
      /\ r.exclude # << >> => req[5] = descriptors(r.exclude)
      /\ 8 \in DOMAIN req <=> Valid(r.token)
      /\ 9 \in DOMAIN req <=> Valid(r.token)
  <2>1. userMap(r.user)["id"] = r.user["id"]
    BY DEF userMap
  <2>2. PICK u : u = userMap(r.user)
    OBVIOUS
  <2>3. req[3] = u /\ u.id = r.user.id
    BY <1>1, <2>1, <2>2, RegistrationMap
  <2>4. req[2] = [id |-> r.rp.id, name |-> r.rp.name]
    BY <1>1, RegistrationMap
  <2>5. req[2].id = r.rp.id
    BY <2>4
  <2>6. QED
    BY <1>1, <2>3, <2>5, RegistrationMap
<1>3. \/ EmptyMember(req, {4, 5}, {7}, {2, 3}) /\ Refuses("MakeCredential", "parameter")
      \/ token = "refused" /\ Refuses("MakeCredential", "pinAuthInvalid")
      \/ Refuses("MakeCredential", "excluded")
      \/ Refuses("MakeCredential", "algorithm")
      \/ /\ token # "refused" /\ ~(5 \in DOMAIN req /\ Named(req[5], req[2].id) # {})
         /\ made' = Stored(c, req[2].id, req[3].id, rk, alg)
         /\ Says("MakeCredential", "none", Attestation(req[2].id, token = "ok", c))
  BY <1>1, Zenon DEF AuthenticatorMakes, Attestation
<1>4. token # "refused" => (token = "ok" <=> Valid(r.token))
  BY <1>2 DEF TokenStatus
<1>5. CASE EmptyMember(req, {4, 5}, {7}, {2, 3}) /\ Refuses("MakeCredential", "parameter")
  BY <1>1, <1>5, RegistrationEmpty
<1>6. CASE /\ token # "refused" /\ ~(5 \in DOMAIN req /\ Named(req[5], req[2].id) # {})
           /\ made' = Stored(c, req[2].id, req[3].id, rk, alg)
           /\ Says("MakeCredential", "none", Attestation(req[2].id, token = "ok", c))
  <2>1. ~Excluded(r)
    <3>1. SUFFICES ASSUME NEW d \in Live(r.rp.id), NEW i \in 1 .. Len(r.exclude),
                          descriptors(r.exclude)[i].type = "public-key",
                          descriptors(r.exclude)[i].id = <<d>>
                   PROVE  FALSE
      BY DEF Excluded
    <3>2. /\ DOMAIN descriptors(r.exclude) = 1 .. Len(r.exclude)
          /\ r.exclude # << >>
      <4>1. DOMAIN descriptors(r.exclude) = 1 .. Len(r.exclude)
        BY Described
      <4>2. Len(<< >>) = 0
        OBVIOUS
      <4>3. QED
        BY <3>1, <4>1, <4>2
    <3>3. d \in Named(descriptors(r.exclude), r.rp.id)
      BY <3>1, <3>2 DEF Named
    <3>4. QED
      BY <1>2, <1>6, <3>2, <3>3
  <2>2. PICK uv \in BOOLEAN, k \in BOOLEAN : uv = (token = "ok") /\ k = rk
    OBVIOUS
  <2>3. uv <=> Valid(r.token)
    BY <1>4, <1>6, <2>2
  <2>4. /\ made' = Stored(Len(made) + 1, r.rp.id, r.user.id, k, Chosen(credParams(r.algs)))
        /\ Says("MakeCredential", "none", Attestation(r.rp.id, uv, Len(made) + 1))
    BY <1>2, <1>6, <2>2, Zenon
  <2>5. MakesNew(r)
    BY <2>3, <2>4 DEF MakesNew
  <2>6. QED
    BY <2>1, <2>5
<1> HIDE DEF token, rk, alg, c
<1>7. QED
  BY <1>3, <1>5, <1>6

SignsNew(r) ==
    \E c \in DOMAIN made, named \in BOOLEAN, counted \in BOOLEAN, uv \in BOOLEAN :
       /\ uv <=> Valid(r.token)
       /\ named \/ (Len(r.allow) = 1 /\ r.allow[1].id = <<c>>)
       /\ Says("GetAssertion", "none",
               AssertionOf(c, AuthDataOf(r.rpID, uv, NoAttested), r.hash, named, counted))
       /\ UNCHANGED made

LEMMA SignsIt ==
    ASSUME NEW r, IsSeq(r.allow), AuthenticatorSigns(GetAssertionMap(r))
    PROVE  \/ \E status : status \notin {"none", "parameter"} /\ Refuses("GetAssertion", status)
           \/ SignsNew(r)
<1>1. PICK req : req = GetAssertionMap(r)
  OBVIOUS
<1> DEFINE token == TokenStatus(req, 6, 7, req[2])
           able == IF 3 \in DOMAIN req THEN Named(req[3], req[1]) ELSE {c \in Live(req[1]) : made[c].rk}
<1>2. /\ req[1] = r.rpID /\ req[2] = r.hash
      /\ 3 \in DOMAIN req <=> r.allow # << >>
      /\ r.allow # << >> => req[3] = descriptors(r.allow)
      /\ 6 \in DOMAIN req <=> Valid(r.token)
      /\ 7 \in DOMAIN req <=> Valid(r.token)
  BY <1>1, AssertionMap
<1>3. ~EmptyMember(req, {3}, {5}, {})
  BY <1>1, AssertionEmpty
<1>4. \/ Refuses("GetAssertion", "pinAuthInvalid")
      \/ Refuses("GetAssertion", "noCredentials")
      \/ /\ token # "refused"
         /\ \E c \in able, named \in BOOLEAN :
              /\ named \/ (3 \in DOMAIN req /\ Len(req[3]) = 1)
              /\ Says("GetAssertion", "none",
                      AssertionOf(c, AuthDataOf(req[1], token = "ok", NoAttested), req[2], named,
                                  3 \notin DOMAIN req))
              /\ UNCHANGED made
  BY <1>1, <1>3, Zenon DEF AuthenticatorSigns
<1>5. token # "refused" => (token = "ok" <=> Valid(r.token))
  BY <1>2 DEF TokenStatus
<1>6. ASSUME token # "refused", NEW c \in able, NEW named \in BOOLEAN,
             named \/ (3 \in DOMAIN req /\ Len(req[3]) = 1),
             Says("GetAssertion", "none",
                  AssertionOf(c, AuthDataOf(req[1], token = "ok", NoAttested), req[2], named,
                              3 \notin DOMAIN req)),
             UNCHANGED made
      PROVE  SignsNew(r)
  <2>1. c \in DOMAIN made
    BY <1>6 DEF Named, Live
  <2>2. named \/ (Len(r.allow) = 1 /\ r.allow[1].id = <<c>>)
    <3>1. SUFFICES ASSUME ~named PROVE Len(r.allow) = 1 /\ r.allow[1].id = <<c>>
      OBVIOUS
    <3>2. PICK list : list = req[3]
      OBVIOUS
    <3>3. 3 \in DOMAIN req /\ Len(list) = 1 /\ list = descriptors(r.allow)
      BY <1>2, <1>6, <3>1, <3>2
    <3>4. Len(r.allow) = 1 /\ DOMAIN list = 1 .. 1
      BY <3>3, Described
    <3>5. PICK i \in DOMAIN list : list[i].id = <<c>>
      BY <1>6, <3>2, <3>3 DEF Named
    <3>6. i = 1
      BY <3>4, <3>5
    <3>7. list[1].id = r.allow[1].id
      <4>1. \A j \in 1 .. Len(r.allow) : descriptors(r.allow)[j].id = r.allow[j].id
        BY Described
      <4>2. 1 \in 1 .. Len(r.allow)
        BY <3>4
      <4>3. QED
        BY <3>3, <4>1, <4>2
    <3>8. QED
      BY <3>4, <3>5, <3>6, <3>7
  <2>3. PICK uv \in BOOLEAN, counted \in BOOLEAN : uv = (token = "ok") /\ counted = (3 \notin DOMAIN req)
    OBVIOUS
  <2>4. uv <=> Valid(r.token)
    BY <1>5, <1>6, <2>3
  <2>5. Says("GetAssertion", "none",
             AssertionOf(c, AuthDataOf(r.rpID, uv, NoAttested), r.hash, named, counted))
    BY <1>2, <1>6, <2>3, Zenon
  <2>6. QED
    BY <1>6, <2>1, <2>2, <2>4, <2>5 DEF SignsNew
<1> HIDE DEF token, able
<1>7. QED
  BY <1>4, <1>6

----------------------------------------------------------------------------
(* A late reply stays what it is.                                             *)
LEMMA Older ==
    ASSUME NEW e, NEW rq, NEW rq2, NEW creds, NEW creds2, Sound(e, rq, creds), rq.n \in Nat, rq2.n \in Nat,
           rq.n < rq2.n, DOMAIN creds \subseteq DOMAIN creds2
    PROVE  Sound(e, rq2, creds2)
<1>1. e.n \in 0 .. rq2.n /\ e.n # rq2.n
  BY DEF Sound
<1>2. Registers(e, rq, creds) => Registers(e, rq2, creds2)
  BY <1>1 DEF Registers
<1>3. Signs(e, rq, creds) => Signs(e, rq2, creds2)
  BY <1>1 DEF Signs
<1>4. QED
  BY <1>1, <1>2, <1>3, Zenon DEF Sound

(* And so does one that was read, whether its call took it or not.            *)
LEMMA WhenRead ==
    ASSUME NEW e, NEW rq, NEW creds, Sound(e, rq, creds), NEW err, err \in {e.err, "decode"}, NEW e2,
           e2 = [e EXCEPT !.err = err]
    PROVE  /\ Sound(e2, rq, creds) /\ e2.of = e.of /\ e2.n = e.n /\ e2.err = err /\ e2.reply = e.reply
<1>1. e = [of |-> e.of, n |-> e.n, err |-> e.err, reply |-> e.reply]
  BY DEF Sound
<1>2. PICK of, n, reply : of = e.of /\ n = e.n /\ reply = e.reply
  OBVIOUS
<1>3. e2 = [of |-> of, n |-> n, err |-> err, reply |-> reply]
  BY <1>1, <1>2
<1>4. e2.of = of /\ e2.n = n /\ e2.err = err /\ e2.reply = reply
  BY <1>3
<1>5. e2 = [of |-> e2.of, n |-> e2.n, err |-> e2.err, reply |-> e2.reply]
  BY <1>3, <1>4
<1>6. /\ Registers(e, rq, creds) => Registers(e2, rq, creds)
      /\ Signs(e, rq, creds) => Signs(e2, rq, creds)
  BY <1>2, <1>4, Zenon DEF Registers, Signs
<1>7. /\ e2.err = "none" => e.err = "none"
      /\ e2.err = "parameter" => e.err = "parameter"
  BY <1>4
<1>8. e2.n = e.n /\ e2.of = e.of /\ e2.reply = e.reply
  BY <1>2, <1>4
<1>9. Sound(e2, rq, creds)
  BY <1>5, <1>6, <1>7, <1>8 DEF Sound
<1>10. QED
  BY <1>4, <1>8, <1>9

Says1(e, of, n, err, reply) == e = [of |-> of, n |-> n, err |-> err, reply |-> reply]

LEMMA RefusalSound ==
    ASSUME NEW rq, rq.n \in Nat, NEW creds, NEW of, NEW status, status # "none",
           status = "parameter" => rq.op = "MakeCredential" /\ rq.rp.name = 0,
           NEW e, Says1(e, of, rq.n, status, << >>)
    PROVE  Sound(e, rq, creds)
BY DEF Sound, Says1

LEMMA PlainSound ==
    ASSUME NEW rq, rq.n \in Nat, NEW creds, NEW of \in PlainCalls, NEW r, Typed(of, r),
           NEW e, Says1(e, of, rq.n, "none", r)
    PROVE  Sound(e, rq, creds)
<1>1. of \notin CredentialCalls /\ of \in Calls
  BY DEF PlainCalls, CredentialCalls, Calls
<1>2. OfKind(of, r)
  <2>1. ~Accepts("MakeCredential", PINProtocolOne, r) /\ ~Accepts("GetAssertion", PINProtocolOne, r)
    BY <1>1, ToldApart DEF Calls, CredentialCalls
  <2>2. QED
    BY <1>1, <2>1 DEF OfKind, Accepts
<1>3. /\ e.of = of /\ e.n = rq.n /\ e.err = "none" /\ e.reply = r
      /\ e = [of |-> e.of, n |-> e.n, err |-> e.err, reply |-> e.reply]
  BY DEF Says1
<1>4. e.n \in 0 .. rq.n /\ e.of # "MakeCredential" /\ e.of # "GetAssertion"
  BY <1>1, <1>3 DEF CredentialCalls
<1>5. QED
  BY <1>1, <1>2, <1>3, <1>4 DEF Sound

(* A reply that should not be made is no registration and no assertion.       *)
LEMMA BadSound ==
    ASSUME NEW rq, rq.n \in Nat, NEW creds, NEW of \in Calls, NEW r \in BadShapes[of],
           NEW e, Says1(e, of, rq.n, "none", r)
    PROVE  Sound(e, rq, creds)
<1>1. ~readAttestation(r) /\ ~readAssertion(r)
  BY CredentialsAssumption DEF Calls
<1>2. of \in CredentialCalls => ~Accepts(of, PINProtocolOne, r)
  BY <1>1 DEF Accepts, CredentialCalls
<1>3. OfKind(of, r)
  BY <1>1, <1>2 DEF OfKind
<1>4. /\ e.of = of /\ e.n = rq.n /\ e.err = "none" /\ e.reply = r
      /\ e = [of |-> e.of, n |-> e.n, err |-> e.err, reply |-> e.reply]
  BY DEF Says1
<1>5. e.n \in 0 .. rq.n
  BY <1>4
<1>6. QED
  BY <1>1, <1>2, <1>3, <1>4, <1>5 DEF Sound

LEMMA Made ==
    ASSUME NEW rq, rq.n \in Nat, NEW creds, NEW c \in DOMAIN creds, c \in Byte,
           creds[c].rp = rq.rp.id, creds[c].user = rq.user.id,
           NEW uv, uv <=> Valid(rq.token), NEW d, DataIs(d, uv, NewCredential(c)),
           NEW e, Says1(e, "MakeCredential", rq.n, "none", <<Item("text"), ByteString(d), Item("statement")>>)
    PROVE  /\ Sound(e, rq, creds) /\ readAttestation(e.reply)
           /\ Data(e.reply).attested.id = <<c>>
<1>1. PICK r : r = <<Item("text"), ByteString(d), Item("statement")>>
  OBVIOUS
<1>2. /\ e.of = "MakeCredential" /\ e.n = rq.n /\ e.err = "none" /\ e.reply = r
      /\ e = [of |-> e.of, n |-> e.n, err |-> e.err, reply |-> e.reply]
  BY <1>1 DEF Says1
<1>3. DOMAIN r = {1, 2, 3} /\ r[1] = Item("text") /\ r[2] = ByteString(d) /\ r[3] = Item("statement")
  BY <1>1
<1>4. /\ r[1].type = "text" /\ r[1].bytes = << >> /\ r[2].type = "bytes" /\ r[2].bytes = d
      /\ r[3].type = "statement" /\ r[3].bytes = << >>
  BY <1>3 DEF Item, ByteString
<1>5. PICK a : a = ParseAuthData(d)
  OBVIOUS
<1>6. NewCredential(c) # NoAttested /\ NewCredential(c).id = <<c>> /\ NewCredential(c).key = <<65, c>>
  BY CredentialIs
<1>7. /\ d \in Seq(Byte) /\ a.err = "none" /\ a.attested = NewCredential(c)
      /\ FlagHas(a.flags, FlagUV) <=> uv
      /\ FlagHas(a.flags, FlagAT) /\ d # << >> /\ Len(d) = 58
  BY <1>5, <1>6 DEF DataIs
<1>8. OfKind("MakeCredential", r)
  <2>1. << >> \in Seq(Byte)
    OBVIOUS
  <2>2. LET types == MemberTypes("MakeCredential") IN
        /\ DOMAIN types = {1, 2, 3}
        /\ types[1] = "text" /\ types[2] = "bytes" /\ types[3] = "statement"
    BY DEF MemberTypes
  <2>3. PICK types : types = MemberTypes("MakeCredential")
    OBVIOUS
  <2>4. ASSUME NEW m \in DOMAIN r PROVE m \in DOMAIN types /\ r[m].type = types[m] /\ r[m].bytes \in Seq(Byte)
    <3>1. CASE m = 1
      BY <1>4, <2>1, <2>2, <2>3, <3>1
    <3>2. CASE m = 2
      BY <1>4, <1>7, <2>2, <2>3, <3>2
    <3>3. CASE m = 3
      BY <1>4, <2>1, <2>2, <2>3, <3>3
    <3>4. QED
      BY <1>3, <3>1, <3>2, <3>3
  <2>5. Typed("MakeCredential", r)
    BY <2>3, <2>4 DEF Typed
  <2>6. ~readAssertion(r)
    BY <1>3, <1>4 DEF readAssertion, field, Fits
  <2>7. QED
    BY <1>4, <1>7, <2>5, <2>6 DEF OfKind, Calls, CredentialCalls
<1>9. readAttestation(r)
  <2>1. field(r, 1, "string") /\ field(r, 2, "[]byte")
    BY <1>3, <1>4 DEF field, Fits
  <2>2. QED
    BY <1>4, <1>5, <1>7, <2>1 DEF readAttestation, readAuthData
<1>10. Data(r) = a
  BY <1>4, <1>5 DEF Data
<1>11. Data(e.reply).attested.id = <<c>> /\ Data(e.reply).attested.key = <<65, c>>
  BY <1>2, <1>6, <1>7, <1>10
<1>12. Registers(e, rq, creds)
  BY <1>11 DEF Registers
<1>13. FlagHas(Data(e.reply).flags, FlagUV) <=> Valid(rq.token)
  BY <1>2, <1>7, <1>10
<1>14. e.n \in 0 .. rq.n /\ e.of # "GetAssertion" /\ e.err # "parameter"
  BY <1>2
<1>15. Sound(e, rq, creds)
  BY <1>2, <1>8, <1>12, <1>13, <1>14 DEF Sound
<1>16. QED
  BY <1>2, <1>9, <1>11, <1>15

LEMMA Signed ==
    ASSUME NEW rq, rq.n \in Nat, NEW c \in DOMAIN made, rq.hash = rq.n,
           NEW named, NEW counted, named \/ (Len(rq.allow) = 1 /\ rq.allow[1].id = <<c>>), c \in Byte,
           NEW uv, uv <=> Valid(rq.token), NEW d, DataIs(d, uv, NoAttested),
           NEW e, Says1(e, "GetAssertion", rq.n, "none", AssertionOf(c, d, rq.hash, named, counted))
    PROVE  Sound(e, rq, made)
<1>1. PICK r : r = AssertionOf(c, d, rq.hash, named, counted)
  OBVIOUS
<1>2. /\ e.of = "GetAssertion" /\ e.n = rq.n /\ e.err = "none" /\ e.reply = r
      /\ e = [of |-> e.of, n |-> e.n, err |-> e.err, reply |-> e.reply]
  BY <1>1 DEF Says1
<1>3. /\ {2, 3} \subseteq DOMAIN r /\ DOMAIN r \subseteq 1 .. 5 /\ (1 \in DOMAIN r <=> named)
      /\ 1 \in DOMAIN r => r[1] = [type |-> "descriptor", bytes |-> <<c>>, val |-> 0]
      /\ r[2] = ByteString(d)
      /\ r[3] = [type |-> "bytes", bytes |-> <<9>>, val |-> 0,
                 sig |-> [key |-> Points[c], data |-> d, hash |-> rq.hash]]
      /\ 4 \in DOMAIN r => r[4] = [type |-> "user", bytes |-> << >>, val |-> made[c].user]
      /\ 5 \in DOMAIN r => r[5] = Item("int")
  BY <1>1 DEF AssertionOf
<1>4. /\ 1 \in DOMAIN r => r[1].type = "descriptor" /\ r[1].bytes = <<c>>
      /\ r[2].type = "bytes" /\ r[2].bytes = d
      /\ r[3].type = "bytes" /\ r[3].bytes = <<9>>
      /\ r[3].sig = [key |-> Points[c], data |-> d, hash |-> rq.hash]
      /\ 4 \in DOMAIN r => r[4].type = "user" /\ r[4].bytes = << >>
      /\ 5 \in DOMAIN r => r[5].type = "int" /\ r[5].bytes = << >>
  BY <1>3 DEF Item, ByteString
<1>5. PICK a : a = ParseAuthData(d)
  OBVIOUS
<1>6. d \in Seq(Byte) /\ (FlagHas(a.flags, FlagUV) <=> uv) /\ Len(d) = 37
  BY <1>5 DEF DataIs
<1>7. OfKind("GetAssertion", r)
  <2>1. << >> \in Seq(Byte) /\ <<c>> \in Seq(Byte) /\ <<9>> \in Seq(Byte)
    BY DEF Byte
  <2>2. LET types == MemberTypes("GetAssertion") IN
        /\ DOMAIN types = 1 .. 5
        /\ types[1] = "descriptor" /\ types[2] = "bytes" /\ types[3] = "bytes"
        /\ types[4] = "user" /\ types[5] = "int"
    BY DEF MemberTypes
  <2>3. PICK types : types = MemberTypes("GetAssertion")
    OBVIOUS
  <2>4. ASSUME NEW m \in DOMAIN r PROVE m \in DOMAIN types /\ r[m].type = types[m] /\ r[m].bytes \in Seq(Byte)
    <3>1. m \in DOMAIN types
      BY <1>3, <2>2, <2>3
    <3>2. CASE m = 1
      BY <1>4, <2>1, <2>2, <2>3, <3>1, <3>2
    <3>3. CASE m = 2
      BY <1>4, <1>6, <2>2, <2>3, <3>1, <3>3
    <3>4. CASE m = 3
      BY <1>4, <2>1, <2>2, <2>3, <3>1, <3>4
    <3>5. CASE m = 4
      BY <1>4, <2>1, <2>2, <2>3, <3>1, <3>5
    <3>6. CASE m = 5
      BY <1>4, <2>1, <2>2, <2>3, <3>1, <3>6
    <3>7. QED
      BY <1>3, <3>2, <3>3, <3>4, <3>5, <3>6
  <2>5. Typed("GetAssertion", r)
    BY <2>3, <2>4 DEF Typed
  <2>6. ~readAttestation(r)
    BY <1>4 DEF readAttestation, field, Fits
  <2>7. QED
    BY <1>4, <1>6, <2>5, <2>6 DEF OfKind, Calls, CredentialCalls
<1>8. Data(e.reply) = a
  BY <1>2, <1>4, <1>5 DEF Data
<1>9. Signs(e, rq, made)
  <2>1. AnsweredBy(r, rq) = <<c>>
    BY <1>3, <1>4 DEF AnsweredBy
  <2>2. e.reply[3].sig = [key |-> Points[c], data |-> e.reply[2].bytes, hash |-> e.n]
    BY <1>2, <1>4
  <2>3. QED
    BY <1>2, <2>1, <2>2 DEF Signs
<1>10. FlagHas(Data(e.reply).flags, FlagUV) <=> Valid(rq.token)
  BY <1>6, <1>8
<1>11. e.n \in 0 .. rq.n /\ e.of # "MakeCredential" /\ e.err # "parameter"
  BY <1>2
<1>12. QED
  BY <1>2, <1>7, <1>9, <1>10, <1>11 DEF Sound

----------------------------------------------------------------------------
(* A set of credentials as a list: each is in it.                             *)
Entry(k) == [type |-> "", id |-> k.id, transports |-> {}]

LEMMA Listed ==
    ASSUME NEW creds, IsFiniteSet(creds)
    PROVE  /\ IsSeq(ListOf(creds))
           /\ \A k \in creds : \E i \in 1 .. Len(ListOf(creds)) :
                 ListOf(creds)[i].type = "" /\ ListOf(creds)[i].id = k.id
<1> DEFINE T == {Entry(k) : k \in creds}
           n == Cardinality(T)
<1>1. IsFiniteSet(T)
  <2>1. [k \in creds |-> Entry(k)] \in Surjection(creds, T)
    BY DEF Surjection
  <2>2. QED
    BY <2>1, FS_Surjection
<1>2. n \in Nat /\ \E f : f \in [1 .. n -> T] /\ IsInjective(f)
  <2>1. n \in Nat /\ ExistsBijection(1 .. n, T)
    BY <1>1, FS_CardinalityType
  <2>2. QED
    BY <2>1 DEF ExistsBijection, Bijection, Injection
<1>3. PICK list : list = ListOf(creds)
  OBVIOUS
<1>4. list = CHOOSE f \in [1 .. n -> T] : IsInjective(f)
  BY <1>3, Zenon DEF ListOf, SetToSeq, Entry
<1> HIDE DEF T, n
<1>5. list \in [1 .. n -> T] /\ IsInjective(list)
  BY <1>2, <1>4, Zenon
<1>6. list \in Seq(T) /\ Len(list) = n
  BY <1>2, <1>5
<1>7. list \in Surjection(1 .. n, T)
  <2>1. list \in Injection(1 .. n, T)
    BY <1>5 DEF Injection
  <2>2. Cardinality(1 .. n) = n
    BY <1>2, FS_Interval
  <2>3. QED
    BY <1>1, <2>1, <2>2, FS_Injection DEF n
<1>8. ASSUME NEW k \in creds
      PROVE  \E i \in 1 .. Len(list) : list[i].type = "" /\ list[i].id = k.id
  <2>1. Entry(k) \in T
    BY DEF T
  <2>2. PICK i \in 1 .. n : list[i] = Entry(k)
    BY <1>7, <2>1 DEF Surjection
  <2>3. Entry(k).type = "" /\ Entry(k).id = k.id
    BY Zenon DEF Entry
  <2>4. QED
    BY <1>6, <2>2, <2>3, Zenon
<1>9. QED
  BY <1>3, <1>6, <1>8 DEF IsSeq

----------------------------------------------------------------------------
(* Append, Tail and the empty sequence, without naming a set of elements. *)
LEMMA AppendIs ==
    ASSUME NEW s, NEW e, IsSeq(s)
    PROVE  /\ IsSeq(Append(s, e)) /\ Len(s) \in Nat /\ Len(Append(s, e)) = Len(s) + 1
           /\ \A i \in 1 .. Len(s) : Append(s, e)[i] = s[i]
           /\ Append(s, e)[Len(s) + 1] = e /\ Append(s, e) # << >>
           /\ s = << >> => Head(Append(s, e)) = e /\ Len(Append(s, e)) = 1
<1>1. PICK S : s \in Seq(S)
  BY DEF IsSeq
<1>2. s \in Seq(S \cup {e}) /\ e \in S \cup {e}
  BY <1>1
<1>3. Append(s, e) \in Seq(S \cup {e})
  BY <1>2
<1>4. QED
  BY <1>2, <1>3 DEF IsSeq

LEMMA TailIs ==
    ASSUME NEW s, IsSeq(s), s # << >>
    PROVE  /\ IsSeq(Tail(s)) /\ Len(s) \in Nat /\ Len(s) > 0 /\ Len(Tail(s)) = Len(s) - 1
           /\ \A i \in 1 .. Len(s) - 1 : Tail(s)[i] = s[i + 1]
           /\ Head(s) = s[1] /\ (Tail(s) = << >> <=> Len(s) = 1)
<1>1. PICK S : s \in Seq(S)
  BY DEF IsSeq
<1>2. Tail(s) \in Seq(S) /\ Len(s) \in Nat /\ Len(s) > 0 /\ Len(Tail(s)) = Len(s) - 1
  BY <1>1
<1>3. Tail(s) = << >> <=> Len(Tail(s)) = 0
  BY <1>2
<1>4. QED
  BY <1>1, <1>2, <1>3 DEF IsSeq

LEMMA EmptyIs == IsSeq(<< >>) /\ Len(<< >>) = 0 /\ \A s : IsSeq(s) /\ Len(s) = 0 => s = << >>
<1>1. << >> \in Seq({})
  OBVIOUS
<1>2. QED
  BY <1>1 DEF IsSeq

(* No credential is lost or changes its account or its algorithm.             *)
Same(creds, creds2) ==
    \A c \in 1 .. Len(creds) :
       /\ creds2[c].rp = creds[c].rp /\ creds2[c].user = creds[c].user
       /\ creds2[c].alg = creds[c].alg
       /\ creds2[c].live => creds[c].live

LEMMA StoredIs ==
    ASSUME Shaped(made), NEW rpID, NEW user, NEW rk \in BOOLEAN, NEW alg, NEW creds,
           creds = Stored(Len(made) + 1, rpID, user, rk, alg)
    PROVE  /\ Shaped(creds) /\ Len(made) \in Nat /\ Len(creds) = Len(made) + 1 /\ Same(made, creds)
           /\ creds[Len(made) + 1] = [rp |-> rpID, user |-> user, rk |-> rk, alg |-> alg, live |-> TRUE]
<1>1. PICK S : made \in Seq(S)
  BY DEF Shaped, IsSeq
<1>2. PICK n : n = Len(made)
  OBVIOUS
<1>3. n \in Nat
  BY <1>1, <1>2
<1>4. PICK new : new = [rp |-> rpID, user |-> user, rk |-> rk, alg |-> alg, live |-> TRUE]
  OBVIOUS
<1> DEFINE off(i) == rk /\ made[i].rk /\ made[i].rp = rpID /\ made[i].user = user
           after(i) == [made[i] EXCEPT !.live = made[i].live /\ ~off(i)]
<1>5. creds = [i \in 1 .. n + 1 |-> IF i = n + 1 THEN new ELSE after(i)]
  BY <1>2, <1>4 DEF Stored
<1>6. ASSUME NEW i \in 1 .. n
      PROVE  /\ after(i) = [rp |-> made[i].rp, user |-> made[i].user, rk |-> made[i].rk, alg |-> made[i].alg,
                            live |-> made[i].live /\ ~off(i)]
  <2>1. made[i] = [rp |-> made[i].rp, user |-> made[i].user, rk |-> made[i].rk, alg |-> made[i].alg,
                   live |-> made[i].live]
    BY <1>2 DEF Shaped
  <2>2. PICK m : m = made[i]
    OBVIOUS
  <2>3. PICK on : on = (m.live /\ ~off(i))
    OBVIOUS
  <2>4. [m EXCEPT !.live = on] = [rp |-> m.rp, user |-> m.user, rk |-> m.rk, alg |-> m.alg, live |-> on]
    BY <2>1, <2>2
  <2>5. QED
    BY <2>2, <2>3, <2>4
<1>7. ASSUME NEW i \in 1 .. n
      PROVE  /\ creds[i].rp = made[i].rp /\ creds[i].user = made[i].user
             /\ creds[i].alg = made[i].alg /\ creds[i].rk = made[i].rk
             /\ creds[i].live = (made[i].live /\ ~off(i))
             /\ creds[i] = [rp |-> creds[i].rp, user |-> creds[i].user, rk |-> creds[i].rk,
                            alg |-> creds[i].alg, live |-> creds[i].live]
  <2>1. creds[i] = after(i)
    BY <1>3, <1>5
  <2>2. PICK on : on = (made[i].live /\ ~off(i))
    OBVIOUS
  <2>3. creds[i] = [rp |-> made[i].rp, user |-> made[i].user, rk |-> made[i].rk, alg |-> made[i].alg,
                    live |-> on]
    BY <1>6, <2>1, <2>2
  <2> HIDE DEF off, after
  <2>4. QED
    BY <2>2, <2>3
<1>8. creds[n + 1] = new
  BY <1>3, <1>5
<1>9. creds \in Seq({creds[i] : i \in 1 .. n + 1}) /\ Len(creds) = n + 1
  <2>1. creds = [i \in 1 .. n + 1 |-> creds[i]]
    BY <1>5
  <2>2. PICK m : m = n + 1
    OBVIOUS
  <2>3. m \in Nat /\ creds = [i \in 1 .. m |-> creds[i]]
    BY <1>3, <2>1, <2>2
  <2>4. creds \in Seq({creds[i] : i \in 1 .. m}) /\ Len(creds) = m
    BY <2>3
  <2>5. QED
    BY <2>2, <2>4
<1>10. Same(made, creds)
  BY <1>2, <1>7 DEF Same
<1>11. Shaped(creds)
  <2>1. IsSeq(creds)
    BY <1>9 DEF IsSeq
  <2>2. ASSUME NEW c \in 1 .. Len(creds)
        PROVE  creds[c] = [rp |-> creds[c].rp, user |-> creds[c].user, rk |-> creds[c].rk,
                           alg |-> creds[c].alg, live |-> creds[c].live]
    <3>1. CASE c = n + 1
      BY <1>4, <1>8, <3>1
    <3>2. CASE c # n + 1
      <4>1. c \in 1 .. n
        BY <1>3, <1>9, <2>2, <3>2
      <4>2. QED
        BY <1>7, <4>1
    <3>3. QED
      BY <3>1, <3>2
  <2>3. QED
    BY <2>1, <2>2 DEF Shaped
<1>12. QED
  BY <1>2, <1>3, <1>4, <1>8, <1>9, <1>10, <1>11

LEMMA ShapedIs ==
    ASSUME NEW creds, Shaped(creds)
    PROVE  DOMAIN creds = 1 .. Len(creds) /\ Len(creds) \in Nat
<1>1. PICK S : creds \in Seq(S)
  BY DEF Shaped, IsSeq
<1>2. QED
  BY <1>1

(* A key, once made, stays what it is.                                        *)
LEMMA KeptSame ==
    ASSUME Kept, Shaped(made), NEW creds, Shaped(creds), Len(made) <= Len(creds), Same(made, creds)
    PROVE  /\ IsFiniteSet(known) /\ DOMAIN made \subseteq DOMAIN creds
           /\ \A k \in known :
                 /\ k.account \in Accounts
                 /\ \E c \in DOMAIN creds : k.id = <<c>> /\ k.key = KeyOf(c, creds)
<1>1. /\ DOMAIN made = 1 .. Len(made) /\ Len(made) \in Nat
      /\ DOMAIN creds = 1 .. Len(creds) /\ Len(creds) \in Nat
  BY ShapedIs
<1>2. DOMAIN made \subseteq DOMAIN creds
  BY <1>1
<1>3. ASSUME NEW k \in known
      PROVE  k.account \in Accounts /\ \E c \in DOMAIN creds : k.id = <<c>> /\ k.key = KeyOf(c, creds)
  <2>1. PICK c \in DOMAIN made : k.id = <<c>> /\ k.key = KeyOf(c, made)
    BY DEF Kept
  <2>2. creds[c].alg = made[c].alg
    BY <1>1, <2>1 DEF Same
  <2>3. KeyOf(c, creds) = KeyOf(c, made)
    BY <2>2 DEF KeyOf
  <2>4. k.account \in Accounts
    BY DEF Kept
  <2>5. QED
    BY <1>2, <2>1, <2>3, <2>4
<1>4. QED
  BY <1>2, <1>3 DEF Kept

(* Nothing was received.                                                      *)
LEMMA NothingSound ==
    ASSUME NEW rq, rq.n \in Nat, NEW creds, NEW err, err # "parameter", NEW e,
           Says1(e, "none", 0, err, << >>)
    PROVE  Sound(e, rq, creds) /\ e.of = "none"
BY DEF Sound, Says1

----------------------------------------------------------------------------
(* The request r is sent, and its reply e is on its way.                      *)
Adds(r, e) ==
    /\ Begin /\ Sent(r) /\ r.n = calls + 1 /\ Request(r)
    /\ queue' = Append(queue, e) /\ e.of = r.op /\ e.n = r.n /\ Sound(e, r, made')
    /\ Shaped(made') /\ Len(made) <= Len(made') /\ Len(made') <= Len(made) + 1 /\ Same(made, made')

LEMMA Asks ==
    ASSUME CInv, NEW r, NEW e, Adds(r, e)
    PROVE  /\ Counting' /\ Asked' /\ Waiting' /\ Taken' /\ Kept'
           /\ clean => Len(queue') = 1 /\ queue'[1] = e
<1>1. /\ pc = "idle" /\ calls < MaxCalls /\ calls' = calls + 1 /\ known' = known /\ clean' = clean
      /\ call' = r /\ pc' = r.op /\ last' = NoReply
      /\ r.n = calls + 1 /\ Request(r)
  BY DEF Adds, Begin, Sent
<1>2. /\ calls \in Nat /\ call.n = calls /\ Shaped(made) /\ Len(made) <= calls
      /\ MaxCalls \in Nat /\ r.n \in Nat
  BY <1>1, CredentialsAssumption DEF CInv, Counting
<1>3. /\ Shaped(made') /\ Len(made) <= Len(made') /\ Len(made') <= Len(made) + 1 /\ Same(made, made')
      /\ queue' = Append(queue, e) /\ e.of = r.op /\ Sound(e, r, made')
  BY DEF Adds
<1>4. Counting'
  <2>1. Len(made) \in Nat /\ Len(made') \in Nat
    BY <1>2, <1>3, ShapedIs
  <2>2. calls' \in Nat /\ calls' <= MaxCalls /\ call'.n = calls' /\ Len(made') <= calls'
    BY <1>1, <1>2, <1>3, <2>1
  <2>3. QED
    BY <1>3, <2>2 DEF Counting
<1>5. Asked'
  BY <1>1 DEF Asked
<1>6. /\ IsFiniteSet(known) /\ DOMAIN made \subseteq DOMAIN made'
      /\ \A k \in known :
            /\ k.account \in Accounts
            /\ \E c \in DOMAIN made' : k.id = <<c>> /\ k.key = KeyOf(c, made')
  BY <1>2, <1>3, KeptSame DEF CInv
<1>7. Kept'
  BY <1>1, <1>6 DEF Kept
<1>8. IsSeq(queue) /\ \A i \in 1 .. Len(queue) : Sound(queue[i], call, made) /\ queue[i].of \in Calls
  BY DEF CInv, Waiting
<1>9. /\ IsSeq(queue') /\ Len(queue) \in Nat /\ Len(queue') = Len(queue) + 1
      /\ \A i \in 1 .. Len(queue) : queue'[i] = queue[i]
      /\ queue'[Len(queue) + 1] = e
  BY <1>3, <1>8, AppendIs
<1>10. ASSUME NEW i \in 1 .. Len(queue') PROVE Sound(queue'[i], r, made') /\ queue'[i].of \in Calls
  <2>1. CASE i = Len(queue) + 1
    BY <1>1, <1>3, <1>9, <2>1 DEF Request
  <2>2. CASE i # Len(queue) + 1
    <3>1. i \in 1 .. Len(queue) /\ queue'[i] = queue[i]
      BY <1>9, <2>2
    <3>2. Sound(queue[i], call, made) /\ queue[i].of \in Calls
      BY <1>8, <3>1
    <3>3. call.n \in Nat /\ call.n < r.n
      BY <1>1, <1>2
    <3>4. Sound(queue[i], r, made')
      BY <1>2, <1>6, <3>2, <3>3, Older
    <3>5. QED
      BY <3>1, <3>2, <3>4
  <2>3. QED
    BY <2>1, <2>2
<1>11. Sound(NoReply, r, made') /\ NoReply.of = "none"
  <2>1. Says1(NoReply, "none", 0, "none", << >>)
    BY DEF Says1, NoReply
  <2>2. QED
    BY <1>2, <2>1, NothingSound
<1>12. Waiting'
  BY <1>1, <1>9, <1>10, <1>11 DEF Waiting
<1>13. Taken'
  BY <1>1, <1>11 DEF Taken
<1>14. clean => Len(queue') = 1 /\ queue'[1] = e
  <2>1. clean => queue = << >>
    BY <1>1 DEF CInv, Tidy
  <2>2. clean => Len(queue) = 0
    BY <2>1, EmptyIs
  <2>3. QED
    BY <1>9, <2>2
<1>15. QED
  BY <1>4, <1>5, <1>7, <1>12, <1>13, <1>14

(* No credential is made.                                                     *)
LEMMA AsksOnly ==
    ASSUME CInv, NEW r, NEW e, Begin, Sent(r), r.n = calls + 1, Request(r),
           queue' = Append(queue, e), e.of = r.op, e.n = r.n, Sound(e, r, made), UNCHANGED made
    PROVE  CInv'
<1>1. Shaped(made) /\ made' = made
  BY DEF CInv, Counting
<1>2. Same(made, made) /\ Len(made) \in Nat
  BY <1>1, ShapedIs DEF Same
<1>3. Adds(r, e)
  BY <1>1, <1>2 DEF Adds
<1>4. /\ Counting' /\ Asked' /\ Waiting' /\ Taken' /\ Kept'
      /\ clean => Len(queue') = 1 /\ queue'[1] = e
  BY <1>3, Asks
<1>5. /\ pc = "idle" /\ pc' = r.op /\ call' = r /\ known' = known /\ clean' = clean
      /\ r.op \in Calls
  BY DEF Begin, Sent, Request
<1>6. Tidy'
  <2>1. SUFFICES ASSUME clean PROVE Tidy'
    BY <1>5 DEF Tidy
  <2>2. r.op # "idle"
    BY <1>5 DEF Calls, PlainCalls, CredentialCalls
  <2>3. /\ \A k \in known : made[k.id[1]].rp = k.account.rp.id /\ made[k.id[1]].user = k.account.user.id
        /\ \A c \in DOMAIN made : made[c].live => \E k \in known : k.id = <<c>>
        /\ \A c, d \in DOMAIN made :
              made[c].live /\ made[d].live /\ made[c].rp = made[d].rp /\ made[c].user = made[d].user => c = d
    BY <1>5, <2>1, Zenon DEF CInv, Tidy, Pending
  <2>4. /\ pc' # "idle" /\ Len(queue') = 1 /\ queue'[1].n = call'.n /\ queue'[1].of = call'.op
    BY <1>4, <1>5, <2>1, <2>2
  <2>5. QED
    BY <1>1, <1>5, <2>3, <2>4, Zenon DEF Tidy
<1>7. QED
  BY <1>4, <1>6 DEF CInv

----------------------------------------------------------------------------
LEMMA PlainKeeps ==
    ASSUME CInv, NEW op \in PlainCalls, NEW proto \in {PINProtocolOne, PINProtocolTwo}, Ask(op, proto)
    PROVE  CInv'
<1>1. PICK rq : rq = Plain(op, proto)
  OBVIOUS
<1>2. rq.op = op /\ rq.n = calls + 1 /\ rq.proto = proto
  BY <1>1 DEF Plain
<1>3. Begin /\ Sent(rq)
  BY <1>1 DEF Ask
<1>4. op \in Calls /\ op \notin CredentialCalls /\ op # "MakeCredential"
  BY DEF PlainCalls, CredentialCalls, Calls
<1>5. Request(rq)
  BY <1>2, <1>4 DEF Request
<1>6. rq.n \in Nat /\ calls' = rq.n
  BY <1>2, <1>3 DEF CInv, Counting, Begin
<1>7. UNCHANGED made /\ \E r \in Shapes[op] \cup BadShapes[op] : Says(op, "none", r)
  BY Zenon DEF Ask, Misbehaves
<1>8. PICK r \in Shapes[op] \cup BadShapes[op] : Says(op, "none", r)
  BY <1>7
<1>9. PICK e : e = [of |-> op, n |-> rq.n, err |-> "none", reply |-> r]
  OBVIOUS
<1>10. queue' = Append(queue, e) /\ Says1(e, op, rq.n, "none", r) /\ e.of = op /\ e.n = rq.n
  BY <1>6, <1>8, <1>9 DEF Says, Says1
<1>11. Sound(e, rq, made)
  <2>1. CASE r \in Shapes[op]
    <3>1. Typed(op, r)
      BY <2>1, CredentialsAssumption
    <3>2. QED
      BY <1>6, <1>10, <3>1, PlainSound
  <2>2. CASE r \in BadShapes[op]
    BY <1>4, <1>6, <1>10, <2>2, BadSound
  <2>3. QED
    BY <2>1, <2>2
<1>12. QED
  BY <1>2, <1>3, <1>5, <1>7, <1>10, <1>11, AsksOnly

LEMMA RefusedKeeps ==
    ASSUME CInv, NEW rq, NEW err, err \in {"hash", "rp", "user"}, Begin, Refused(rq, err)
    PROVE  CInv'
<1>1. /\ pc = "idle" /\ calls' = calls + 1 /\ calls < MaxCalls /\ UNCHANGED <<pc, queue, made, known, clean>>
      /\ call' = Plain(rq.op, rq.proto) /\ last' = [NoReply EXCEPT !.err = err]
  BY DEF Begin, Refused
<1>2. call'.n = calls + 1
  BY <1>1 DEF Plain
<1>3. calls \in Nat /\ MaxCalls \in Nat /\ call.n = calls /\ Shaped(made) /\ Len(made) <= calls
  BY CredentialsAssumption DEF CInv, Counting
<1>4. Counting'
  <2>1. Len(made) \in Nat
    BY <1>3, ShapedIs
  <2>2. QED
    BY <1>1, <1>2, <1>3, <2>1 DEF Counting
<1>5. Sound(last', call', made) /\ last'.of = "none"
  <2>1. PICK e : e = [of |-> "none", n |-> 0, err |-> err, reply |-> << >>]
    OBVIOUS
  <2>2. last' = e /\ Says1(e, "none", 0, err, << >>)
    BY <1>1, <2>1 DEF NoReply, Says1
  <2>3. call'.n \in Nat /\ err # "parameter"
    BY <1>2, <1>3
  <2>4. PICK r2 : r2 = call'
    OBVIOUS
  <2>5. Sound(e, r2, made) /\ e.of = "none"
    BY <2>2, <2>3, <2>4, NothingSound
  <2>6. QED
    BY <2>2, <2>4, <2>5
<1>6. Asked' /\ Taken'
  BY <1>1, <1>5 DEF Asked, Taken
<1>7. Waiting'
  <2>1. IsSeq(queue) /\ \A i \in 1 .. Len(queue) : Sound(queue[i], call, made) /\ queue[i].of \in Calls
    BY DEF CInv, Waiting
  <2>2. PICK r2 : r2 = call'
    OBVIOUS
  <2>3. call.n \in Nat /\ r2.n \in Nat /\ call.n < r2.n
    BY <1>2, <1>3, <2>2
  <2>4. ASSUME NEW i \in 1 .. Len(queue) PROVE Sound(queue[i], r2, made)
    BY <2>1, <2>3, Older
  <2>5. \A i \in 1 .. Len(queue) : Sound(queue[i], call', made) /\ queue[i].of \in Calls
    BY <2>1, <2>2, <2>4
  <2>6. QED
    BY <1>1, <1>5, <2>1, <2>5, Zenon DEF Waiting
<1>8. Kept'
  BY <1>1, Zenon DEF CInv, Kept, KeyOf
<1>9. Tidy'
  BY <1>1, Zenon DEF CInv, Tidy, Pending
<1>10. QED
  BY <1>4, <1>6, <1>7, <1>8, <1>9 DEF CInv

(* A reply that should not be made.                                           *)
LEMMA BadKeeps ==
    ASSUME CInv, NEW op \in CredentialCalls, NEW rq, rq.op = op, rq.n = calls + 1, Request(rq),
           Begin, Sent(rq), Misbehaves(op)
    PROVE  CInv'
<1>1. rq.n \in Nat /\ calls' = rq.n /\ op \in Calls
  BY DEF CInv, Counting, Begin, Calls
<1>2. PICK r \in BadShapes[op] : Says(op, "none", r)
  BY DEF Misbehaves
<1>3. PICK e : e = [of |-> op, n |-> rq.n, err |-> "none", reply |-> r]
  OBVIOUS
<1>4. queue' = Append(queue, e) /\ Says1(e, op, rq.n, "none", r) /\ e.of = op /\ e.n = rq.n
  BY <1>1, <1>2, <1>3 DEF Says, Says1
<1>5. Sound(e, rq, made)
  BY <1>1, <1>4, BadSound
<1>6. QED
  BY <1>4, <1>5, AsksOnly DEF Misbehaves

(* A status and nothing else.                                                 *)
LEMMA RefusesKeeps ==
    ASSUME CInv, NEW op \in CredentialCalls, NEW rq, rq.op = op, rq.n = calls + 1, Request(rq),
           Begin, Sent(rq), NEW status, status # "none",
           status = "parameter" => op = "MakeCredential" /\ rq.rp.name = 0, Refuses(op, status)
    PROVE  CInv'
<1>1. rq.n \in Nat /\ calls' = rq.n
  BY DEF CInv, Counting, Begin
<1>2. PICK e : e = [of |-> op, n |-> rq.n, err |-> status, reply |-> << >>]
  OBVIOUS
<1>3. /\ queue' = Append(queue, e) /\ Says1(e, op, rq.n, status, << >>) /\ e.of = op /\ e.n = rq.n
      /\ UNCHANGED made
  BY <1>1, <1>2 DEF Refuses, Says, Says1
<1>4. Sound(e, rq, made)
  BY <1>1, <1>3, RefusalSound
<1>5. QED
  BY <1>3, <1>4, AsksOnly

----------------------------------------------------------------------------
(* What of a registration's request the rest depends on.                      *)
Registering(rq) ==
    /\ rq.op = "MakeCredential" /\ rq.n = calls + 1 /\ Request(rq)
    /\ rq.account \in Accounts /\ rq.rp = rq.account.rp /\ rq.user = rq.account.user
    /\ rq.exclude = ListOf(Creds(rq.account)) /\ rq.algs \in Seq(Int)

(* Excluding what is kept of the account excludes all its live credentials.   *)
LEMMA NoneIsMissed ==
    ASSUME CInv, clean, pc = "idle", NEW rq, Registering(rq), ~Excluded(rq),
           NEW d \in DOMAIN made, made[d].live, made[d].rp = rq.rp.id, made[d].user = rq.user.id
    PROVE  FALSE
<1>1. d \in Live(rq.rp.id)
  BY DEF Live
<1>2. PICK k \in known : k.id = <<d>>
  BY DEF CInv, Tidy, Pending
<1>3. k.id[1] = d
  BY <1>2
<1>4. made[d].rp = k.account.rp.id /\ made[d].user = k.account.user.id /\ k.account \in Accounts
  BY <1>3 DEF CInv, Tidy, Kept
<1>5. k.account = rq.account
  <2>1. k.account.rp.id = rq.account.rp.id /\ k.account.user.id = rq.account.user.id /\ rq.account \in Accounts
    BY <1>4 DEF Registering
  <2>2. QED
    BY <1>4, <2>1, CredentialsAssumption
<1>6. PICK creds : creds = Creds(rq.account)
  OBVIOUS
<1>7. IsFiniteSet(creds) /\ k \in creds
  <2>1. creds \subseteq known /\ IsFiniteSet(known)
    BY <1>6 DEF Creds, CInv, Kept
  <2>2. k \in creds
    BY <1>5, <1>6 DEF Creds
  <2>3. QED
    BY <2>1, <2>2, FS_Subset
<1>8. rq.exclude = ListOf(creds)
  BY <1>6 DEF Registering
<1>9. IsSeq(rq.exclude) /\ \E i \in 1 .. Len(rq.exclude) : rq.exclude[i].type = "" /\ rq.exclude[i].id = k.id
  <2>1. /\ IsSeq(ListOf(creds))
        /\ \A b \in creds : \E i \in 1 .. Len(ListOf(creds)) :
              ListOf(creds)[i].type = "" /\ ListOf(creds)[i].id = b.id
    BY <1>7, Listed, Zenon
  <2>2. PICK list : list = ListOf(creds)
    OBVIOUS
  <2>3. IsSeq(list) /\ \E i \in 1 .. Len(list) : list[i].type = "" /\ list[i].id = k.id
    BY <1>7, <2>1, <2>2, Zenon
  <2>4. rq.exclude = list
    BY <1>8, <2>2
  <2>5. QED
    BY <2>3, <2>4, Zenon
<1>10. PICK i \in 1 .. Len(rq.exclude) : rq.exclude[i].type = "" /\ rq.exclude[i].id = k.id
  BY <1>9
<1>11. PICK list : list = rq.exclude
  OBVIOUS
<1>12. descriptors(list)[i].id = list[i].id /\ descriptors(list)[i].type = "public-key"
  BY <1>9, <1>10, <1>11, Described
<1>13. Excluded(rq)
  BY <1>1, <1>2, <1>10, <1>11, <1>12 DEF Excluded
<1>14. QED
  BY <1>13

LEMMA MakesKeeps ==
    ASSUME CInv, NEW rq, Registering(rq), Begin, Sent(rq), ~Excluded(rq), MakesNew(rq)
    PROVE  CInv'
<1>1. PICK uv \in BOOLEAN, rk \in BOOLEAN, alg \in {Chosen(credParams(rq.algs))} :
         /\ uv <=> Valid(rq.token)
         /\ made' = Stored(Len(made) + 1, rq.rp.id, rq.user.id, rk, alg)
         /\ Says("MakeCredential", "none", Attestation(rq.rp.id, uv, Len(made) + 1))
  BY DEF MakesNew
<1>2. PICK n, creds : n = Len(made) /\ creds = made'
  OBVIOUS
<1>3. /\ Shaped(made) /\ n \in Nat /\ DOMAIN made = 1 .. n
      /\ Shaped(creds) /\ Len(creds) = n + 1 /\ Same(made, creds) /\ DOMAIN creds = 1 .. n + 1
      /\ creds[n + 1] = [rp |-> rq.rp.id, user |-> rq.user.id, rk |-> rk, alg |-> alg, live |-> TRUE]
  <2>1. Shaped(made)
    BY DEF CInv, Counting
  <2>2. n \in Nat /\ DOMAIN made = 1 .. n
    BY <1>2, <2>1, ShapedIs
  <2>3. /\ Shaped(creds) /\ Len(creds) = n + 1 /\ Same(made, creds)
        /\ creds[n + 1] = [rp |-> rq.rp.id, user |-> rq.user.id, rk |-> rk, alg |-> alg, live |-> TRUE]
    BY <1>1, <1>2, <2>1, StoredIs
  <2>4. DOMAIN creds = 1 .. n + 1
    BY <2>3, ShapedIs
  <2>5. QED
    BY <2>1, <2>2, <2>3, <2>4
<1>4. /\ creds[n + 1].rp = rq.rp.id /\ creds[n + 1].user = rq.user.id /\ creds[n + 1].alg = alg
      /\ n + 1 \in DOMAIN creds
  BY <1>3
<1>5. calls \in Nat /\ rq.n \in Nat /\ calls' = rq.n /\ n + 1 \in Byte
  <2>1. calls \in Nat /\ n <= calls /\ calls < MaxCalls
    BY <1>2 DEF CInv, Counting, Begin
  <2>2. MaxCalls \in Nat /\ MaxCalls < 256
    BY CredentialsAssumption
  <2>3. QED
    BY <1>3, <2>1, <2>2 DEF Registering, Begin, Byte
<1>6. PICK d : d = AuthDataOf(rq.rp.id, uv, NewCredential(n + 1))
  OBVIOUS
<1>7. DataIs(d, uv, NewCredential(n + 1))
  <2>1. rq.rp.id \in Byte
    BY CredentialsAssumption DEF Registering
  <2>2. Attestable(NewCredential(n + 1))
    BY <1>5 DEF Attestable
  <2>3. QED
    BY <1>5, <1>6, <2>1, <2>2, DataRead
<1>8. PICK e : Says1(e, "MakeCredential", rq.n, "none", <<Item("text"), ByteString(d), Item("statement")>>)
  BY DEF Says1
<1>9. queue' = Append(queue, e) /\ e.of = "MakeCredential" /\ e.n = rq.n /\ e.err = "none"
  BY <1>1, <1>2, <1>5, <1>6, <1>8 DEF Says, Says1, Attestation
<1>10. /\ Sound(e, rq, creds) /\ readAttestation(e.reply)
       /\ Data(e.reply).attested.id = <<n + 1>>
  <2>1. PICK c : c = n + 1
    OBVIOUS
  <2>2. /\ c \in DOMAIN creds /\ c \in Byte /\ creds[c].rp = rq.rp.id /\ creds[c].user = rq.user.id
        /\ DataIs(d, uv, NewCredential(c))
    BY <1>4, <1>5, <1>7, <2>1
  <2>3. Sound(e, rq, creds) /\ readAttestation(e.reply) /\ Data(e.reply).attested.id = <<c>>
    BY <1>1, <1>5, <1>8, <2>2, Made
  <2>4. QED
    BY <2>1, <2>3
<1>11. Adds(rq, e)
  <2>1. Len(made) <= Len(creds) /\ Len(creds) <= Len(made) + 1
    BY <1>2, <1>3
  <2>2. rq.op = "MakeCredential" /\ rq.n = calls + 1 /\ Request(rq)
    BY DEF Registering
  <2>3. QED
    BY <1>2, <1>3, <1>9, <1>10, <2>1, <2>2 DEF Adds
<1>12. /\ Counting' /\ Asked' /\ Waiting' /\ Taken' /\ Kept'
       /\ clean => Len(queue') = 1 /\ queue'[1] = e
  BY <1>11, Asks
<1>13. /\ pc = "idle" /\ pc' = "MakeCredential" /\ call' = rq /\ known' = known /\ clean' = clean
       /\ rq.op = "MakeCredential"
  BY DEF Begin, Sent, Registering
<1>14. Tidy'
  <2>1. SUFFICES ASSUME clean PROVE Tidy'
    BY <1>13 DEF Tidy
  <2>2. pc' # "idle" /\ Len(queue') = 1 /\ queue'[1].n = call'.n /\ queue'[1].of = call'.op
    BY <1>9, <1>12, <1>13, <2>1
  <2>3. ASSUME NEW k \in known
        PROVE  creds[k.id[1]].rp = k.account.rp.id /\ creds[k.id[1]].user = k.account.user.id
    <3>1. PICK c \in DOMAIN made : k.id = <<c>>
      BY DEF CInv, Kept
    <3>2. k.id[1] = c
      BY <3>1
    <3>3. made[c].rp = k.account.rp.id /\ made[c].user = k.account.user.id
      BY <2>1, <3>2 DEF CInv, Tidy
    <3>4. QED
      BY <1>2, <1>3, <3>2, <3>3 DEF Same
  <2>4. ASSUME NEW c \in DOMAIN creds, creds[c].live PROVE Pending(c)' \/ \E k \in known : k.id = <<c>>
    <3>1. CASE c = n + 1
      BY <1>9, <1>10, <1>12, <1>13, <2>1, <3>1 DEF Pending
    <3>2. CASE c # n + 1
      <4>1. c \in DOMAIN made /\ c \in 1 .. Len(made)
        BY <1>2, <1>3, <2>4, <3>2
      <4>2. made[c].live
        BY <1>3, <2>4, <4>1 DEF Same
      <4>3. QED
        BY <1>13, <2>1, <4>1, <4>2 DEF CInv, Tidy, Pending
    <3>3. QED
      BY <3>1, <3>2
  <2>5. ASSUME NEW c \in DOMAIN creds, c # n + 1, creds[c].live
        PROVE  /\ c \in DOMAIN made /\ made[c].live
               /\ creds[c].rp = made[c].rp /\ creds[c].user = made[c].user
    <3>1. c \in DOMAIN made /\ c \in 1 .. Len(made)
      BY <1>2, <1>3, <2>5
    <3>2. QED
      BY <1>3, <2>5, <3>1 DEF Same
  <2>6. ASSUME NEW c \in DOMAIN creds, c # n + 1, creds[c].live
        PROVE  ~(creds[c].rp = rq.rp.id /\ creds[c].user = rq.user.id)
    BY <1>13, <2>1, <2>5, <2>6, NoneIsMissed
  <2>7. ASSUME NEW c \in DOMAIN creds, NEW b \in DOMAIN creds, creds[c].live, creds[b].live,
               creds[c].rp = creds[b].rp, creds[c].user = creds[b].user
        PROVE  c = b
    <3>1. CASE c # n + 1 /\ b # n + 1
      <4>1. /\ c \in DOMAIN made /\ b \in DOMAIN made /\ made[c].live /\ made[b].live
            /\ made[c].rp = made[b].rp /\ made[c].user = made[b].user
        BY <2>5, <2>7, <3>1
      <4>2. QED
        BY <2>1, <4>1 DEF CInv, Tidy
    <3>2. CASE c = n + 1 \/ b = n + 1
      BY <1>4, <2>6, <2>7, <3>2
    <3>3. QED
      BY <3>1, <3>2
  <2>8. QED
    BY <1>2, <1>13, <2>1, <2>2, <2>3, <2>4, <2>7, Zenon DEF Tidy
<1>15. QED
  BY <1>12, <1>14 DEF CInv

LEMMA RegistrationKeeps ==
    ASSUME CInv, NEW account \in Accounts, NEW algs \in AlgLists, NEW options \in OptionSets,
           NEW token \in Tokens, NEW hash \in {0, calls + 1},
           MakeCredential(account, algs, options, token, hash)
    PROVE  CInv'
<1>1. PICK rq : rq = [op |-> "MakeCredential", n |-> calls + 1, proto |-> PINProtocolOne,
                      account |-> account, hash |-> hash, rp |-> account.rp, user |-> account.user,
                      algs |-> algs, exclude |-> ListOf(Creds(account)), options |-> options,
                      token |-> token]
  OBVIOUS
<1>2. /\ rq.op = "MakeCredential" /\ rq.n = calls + 1 /\ rq.proto = PINProtocolOne /\ rq.account = account
      /\ rq.hash = hash /\ rq.rp = account.rp /\ rq.user = account.user /\ rq.algs = algs
      /\ rq.exclude = ListOf(Creds(account)) /\ rq.token = token
  BY <1>1
<1>3. /\ Begin
      /\ IF MakeCredentialError(rq) # "none" THEN Refused(rq, MakeCredentialError(rq))
         ELSE /\ Sent(rq)
              /\ \/ AuthenticatorMakes(MakeCredentialMap(rq))
                 \/ Misbehaves("MakeCredential")
  BY <1>1, Zenon DEF MakeCredential
<1>4. CASE MakeCredentialError(rq) # "none"
  <2>1. PICK err : err = MakeCredentialError(rq)
    OBVIOUS
  <2>2. err \in {"hash", "rp", "user"}
    BY <1>4, <2>1 DEF MakeCredentialError
  <2>3. Refused(rq, err)
    BY <1>3, <1>4, <2>1
  <2>4. QED
    BY <1>3, <2>2, <2>3, RefusedKeeps
<1>5. CASE MakeCredentialError(rq) = "none"
  <2>1. rq.hash = rq.n
    BY <1>2, <1>5 DEF MakeCredentialError
  <2>2. Request(rq)
    BY <1>2, <2>1 DEF Request, Calls, CredentialCalls
  <2>3. rq.algs \in Seq(Int)
    BY <1>2, CredentialsAssumption
  <2>4. Registering(rq)
    BY <1>2, <2>2, <2>3 DEF Registering
  <2>5. IsSeq(rq.exclude)
    <3>1. Creds(account) \subseteq known /\ IsFiniteSet(known)
      BY DEF Creds, CInv, Kept
    <3>2. IsFiniteSet(Creds(account))
      BY <3>1, FS_Subset
    <3>3. QED
      BY <1>2, <3>2, Listed
  <2>6. Begin /\ Sent(rq) /\ (AuthenticatorMakes(MakeCredentialMap(rq)) \/ Misbehaves("MakeCredential"))
    BY <1>3, <1>5
  <2>7. "MakeCredential" \in CredentialCalls
    BY DEF CredentialCalls
  <2>8. CASE Misbehaves("MakeCredential")
    BY <1>2, <2>2, <2>6, <2>7, <2>8, BadKeeps
  <2>9. CASE AuthenticatorMakes(MakeCredentialMap(rq))
    <3>1. \/ \E status : /\ status # "none" /\ (status = "parameter" => rq.rp.name = 0)
                         /\ Refuses("MakeCredential", status)
          \/ ~Excluded(rq) /\ MakesNew(rq)
      BY <2>3, <2>5, <2>9, Makes
    <3>2. ASSUME NEW status, status # "none", status = "parameter" => rq.rp.name = 0,
                 Refuses("MakeCredential", status)
          PROVE  CInv'
      BY <1>2, <2>2, <2>6, <2>7, <3>2, RefusesKeeps
    <3>3. CASE ~Excluded(rq) /\ MakesNew(rq)
      BY <2>4, <2>6, <3>3, MakesKeeps
    <3>4. QED
      BY <3>1, <3>2, <3>3
  <2>10. QED
    BY <2>6, <2>8, <2>9
<1>6. QED
  BY <1>4, <1>5

LEMMA SignsKeeps ==
    ASSUME CInv, NEW rq, rq.op = "GetAssertion", rq.n = calls + 1, rq.hash = rq.n, rq.rpID \in Byte, Request(rq),
           Begin, Sent(rq), SignsNew(rq)
    PROVE  CInv'
<1>1. PICK c \in DOMAIN made, named \in BOOLEAN, counted \in BOOLEAN, uv \in BOOLEAN :
         /\ uv <=> Valid(rq.token)
         /\ named \/ (Len(rq.allow) = 1 /\ rq.allow[1].id = <<c>>)
         /\ Says("GetAssertion", "none",
                 AssertionOf(c, AuthDataOf(rq.rpID, uv, NoAttested), rq.hash, named, counted))
         /\ UNCHANGED made
  BY Zenon DEF SignsNew
<1>2. calls \in Nat /\ rq.n \in Nat /\ calls' = rq.n /\ c \in Byte
  <2>1. Shaped(made) /\ calls \in Nat /\ Len(made) <= calls /\ calls < MaxCalls
    BY DEF CInv, Counting, Begin
  <2>2. MaxCalls \in Nat /\ MaxCalls < 256
    BY CredentialsAssumption
  <2>3. c \in 1 .. Len(made) /\ Len(made) \in Nat
    BY <2>1, ShapedIs
  <2>4. QED
    BY <2>1, <2>2, <2>3 DEF Begin, Byte
<1>3. PICK d : d = AuthDataOf(rq.rpID, uv, NoAttested)
  OBVIOUS
<1>4. DataIs(d, uv, NoAttested)
  BY <1>2, <1>3, DataRead DEF Attestable
<1>5. PICK e : Says1(e, "GetAssertion", rq.n, "none", AssertionOf(c, d, rq.hash, named, counted))
  BY DEF Says1
<1>6. queue' = Append(queue, e) /\ e.of = "GetAssertion" /\ e.n = rq.n
  BY <1>1, <1>2, <1>3, <1>5 DEF Says, Says1
<1>7. Sound(e, rq, made)
  BY <1>1, <1>2, <1>4, <1>5, Signed
<1>8. QED
  BY <1>1, <1>6, <1>7, AsksOnly

LEMMA AssertionKeeps ==
    ASSUME CInv, NEW account \in Accounts, NEW named \in BOOLEAN, NEW token \in Tokens,
           NEW hash \in {0, calls + 1}, GetAssertion(account, named, token, hash)
    PROVE  CInv'
<1>1. PICK allow : allow = IF named THEN ListOf(Creds(account)) ELSE << >>
  OBVIOUS
<1>2. PICK rq : rq = [op |-> "GetAssertion", n |-> calls + 1, proto |-> PINProtocolOne,
                      account |-> account, hash |-> hash, rpID |-> account.rp.id, options |-> {},
                      token |-> token, allow |-> allow]
  OBVIOUS
<1>3. /\ rq.op = "GetAssertion" /\ rq.n = calls + 1 /\ rq.proto = PINProtocolOne /\ rq.account = account
      /\ rq.hash = hash /\ rq.rpID = account.rp.id /\ rq.allow = allow /\ rq.token = token
  BY <1>2
<1>4. /\ Begin
      /\ IF GetAssertionError(rq) # "none" THEN Refused(rq, GetAssertionError(rq))
         ELSE /\ Sent(rq)
              /\ \/ AuthenticatorSigns(GetAssertionMap(rq))
                 \/ Misbehaves("GetAssertion")
  BY <1>1, <1>2, Zenon DEF GetAssertion
<1>5. CASE GetAssertionError(rq) # "none"
  <2>1. PICK err : err = GetAssertionError(rq)
    OBVIOUS
  <2>2. err \in {"hash", "rp", "user"}
    BY <1>5, <2>1 DEF GetAssertionError
  <2>3. Refused(rq, err)
    BY <1>4, <1>5, <2>1
  <2>4. QED
    BY <1>4, <2>2, <2>3, RefusedKeeps
<1>6. CASE GetAssertionError(rq) = "none"
  <2>1. rq.hash = rq.n
    BY <1>3, <1>6 DEF GetAssertionError
  <2>2. Request(rq)
    BY <1>3, <2>1 DEF Request, Calls, CredentialCalls
  <2>3. IsSeq(rq.allow)
    <3>1. Creds(account) \subseteq known /\ IsFiniteSet(known)
      BY DEF Creds, CInv, Kept
    <3>2. IsFiniteSet(Creds(account))
      BY <3>1, FS_Subset
    <3>3. IsSeq(ListOf(Creds(account)))
      BY <3>2, Listed
    <3>4. QED
      BY <1>1, <1>3, <3>3, EmptyIs
  <2>4. rq.rpID \in Byte
    BY <1>3, CredentialsAssumption
  <2>5. Begin /\ Sent(rq) /\ (AuthenticatorSigns(GetAssertionMap(rq)) \/ Misbehaves("GetAssertion"))
    BY <1>4, <1>6
  <2>6. "GetAssertion" \in CredentialCalls
    BY DEF CredentialCalls
  <2>7. CASE Misbehaves("GetAssertion")
    BY <1>3, <2>2, <2>5, <2>6, <2>7, BadKeeps
  <2>8. CASE AuthenticatorSigns(GetAssertionMap(rq))
    <3>1. \/ \E status : status \notin {"none", "parameter"} /\ Refuses("GetAssertion", status)
          \/ SignsNew(rq)
      BY <2>3, <2>8, SignsIt
    <3>2. ASSUME NEW status, status \notin {"none", "parameter"}, Refuses("GetAssertion", status)
          PROVE  CInv'
      BY <1>3, <2>2, <2>5, <2>6, <3>2, RefusesKeeps
    <3>3. CASE SignsNew(rq)
      BY <1>3, <2>1, <2>2, <2>4, <2>5, <3>3, SignsKeeps
    <3>4. QED
      BY <3>1, <3>2, <3>3
  <2>9. QED
    BY <2>5, <2>7, <2>8
<1>7. QED
  BY <1>5, <1>6

----------------------------------------------------------------------------
(* The reply that Read takes, and what is left.                               *)
LEMMA Taking ==
    ASSUME CInv, Read
    PROVE  /\ IsSeq(queue) /\ Sound(queue[1], call, made) /\ queue[1].of \in Calls
           /\ Request(call) /\ pc = call.op
           /\ Sound(last', call, made) /\ last'.of = queue[1].of /\ last'.n = queue[1].n
           /\ last'.reply = queue[1].reply /\ last'.err = ReadError(queue[1])
           /\ last'.err = "none" =>
                 /\ queue[1].err = "none" /\ Accepts(call.op, call.proto, last'.reply)
                 /\ call.op \in CredentialCalls => last'.of = call.op
<1>1. IsSeq(queue) /\ queue # << >> /\ pc # "idle"
  BY DEF CInv, Waiting, Read
<1>2. Len(queue) \in Nat /\ Len(queue) > 0 /\ Head(queue) = queue[1]
  BY <1>1, TailIs
<1>3. PICK e : e = queue[1]
  OBVIOUS
<1>4. Sound(e, call, made) /\ e.of \in Calls
  BY <1>2, <1>3 DEF CInv, Waiting
<1>5. Request(call) /\ pc = call.op
  BY <1>1 DEF CInv, Asked, Waiting
<1>6. PICK err : err = ReadError(e)
  OBVIOUS
<1>7. last' = [e EXCEPT !.err = err]
  BY <1>2, <1>3, <1>6 DEF Read
<1>8. /\ err \in {e.err, "decode"}
      /\ err = "none" => e.err = "none" /\ Accepts(pc, call.proto, e.reply)
  BY <1>6 DEF ReadError
<1>9. /\ Sound(last', call, made) /\ last'.of = e.of /\ last'.n = e.n /\ last'.err = err /\ last'.reply = e.reply
  <2>1. PICK e2 : e2 = [e EXCEPT !.err = err]
    OBVIOUS
  <2>2. Sound(e2, call, made) /\ e2.of = e.of /\ e2.n = e.n /\ e2.err = err /\ e2.reply = e.reply
    BY <1>4, <1>8, <2>1, WhenRead
  <2>3. QED
    BY <1>7, <2>1, <2>2
<1>10. err = "none" /\ call.op \in CredentialCalls => e.of = call.op
  <2>1. SUFFICES ASSUME err = "none", call.op \in CredentialCalls PROVE e.of = call.op
    OBVIOUS
  <2>2. OfKind(e.of, e.reply)
    <3>1. e.err = "none" /\ e.of # "none"
      BY <1>4, <1>8, <2>1 DEF Calls, PlainCalls, CredentialCalls
    <3>2. QED
      BY <1>4, <3>1 DEF Sound
  <2>3. Accepts(call.op, call.proto, e.reply)
    BY <1>5, <1>8, <2>1
  <2>4. PICK of, r, op, proto : of = e.of /\ r = e.reply /\ op = call.op /\ proto = call.proto
    OBVIOUS
  <2>5. QED
    BY <2>1, <2>2, <2>3, <2>4, NotMisled
<1>11. QED
  BY <1>1, <1>3, <1>4, <1>5, <1>6, <1>8, <1>9, <1>10

(* What a registration keeps is the authenticator's.                          *)
LEMMA Keeping ==
    ASSUME CInv, Read, pc = "MakeCredential", last'.err = "none"
    PROVE  \E c \in DOMAIN made :
              /\ Registered(last'.reply) = [account |-> call.account, id |-> <<c>>, key |-> KeyOf(c, made)]
              /\ Data(last'.reply).attested.id = <<c>>
              /\ last'.n = call.n => made[c].rp = call.account.rp.id /\ made[c].user = call.account.user.id
<1>1. PICK e : e = last'
  OBVIOUS
<1>2. /\ Sound(e, call, made) /\ e.err = "none" /\ e.of = "MakeCredential" /\ call.op = "MakeCredential"
      /\ Accepts("MakeCredential", call.proto, e.reply) /\ Request(call)
  BY <1>1, Taking DEF CredentialCalls
<1>3. readAttestation(e.reply)
  BY <1>2 DEF Accepts
<1>4. Registers(e, call, made)
  BY <1>2, <1>3 DEF Sound
<1>5. PICK c \in DOMAIN made :
         /\ Data(e.reply).attested.id = <<c>> /\ Data(e.reply).attested.key = <<65, c>>
         /\ e.n = call.n => made[c].rp = call.rp.id /\ made[c].user = call.user.id
  BY <1>4 DEF Registers
<1>6. call.rp = call.account.rp /\ call.user = call.account.user
  BY <1>2 DEF Request
<1>7. PICK att : att = Data(e.reply).attested
  OBVIOUS
<1>8. att.id = <<c>> /\ att.key # << >> /\ att.key[2] = c
  <2>1. PICK key : key = <<65, c>>
    OBVIOUS
  <2>2. key # << >> /\ key[2] = c
    BY <2>1
  <2>3. QED
    BY <1>5, <1>7, <2>1, <2>2
<1>9. Registered(e.reply) = [account |-> call.account, id |-> att.id, key |-> KeyOf(att.key[2], made)]
  BY <1>7, <1>8, Zenon DEF Registered, Data, KeyOf, CoseOf
<1>10. Registered(e.reply) = [account |-> call.account, id |-> <<c>>, key |-> KeyOf(c, made)]
  BY <1>8, <1>9
<1>11. QED
  BY <1>1, <1>5, <1>6, <1>10

LEMMA ReadKeeps == ASSUME CInv, Read PROVE CInv'
<1>1. /\ pc # "idle" /\ queue # << >> /\ pc' = "idle" /\ queue' = Tail(queue)
      /\ known' = IF pc = "MakeCredential" /\ last'.err = "none"
                  THEN known \cup {Registered(last'.reply)} ELSE known
      /\ UNCHANGED <<call, calls, made, bad, clean>>
  BY DEF Read
<1>2. /\ IsSeq(queue) /\ Sound(queue[1], call, made) /\ queue[1].of \in Calls
      /\ Request(call) /\ pc = call.op
      /\ Sound(last', call, made) /\ last'.of = queue[1].of /\ last'.n = queue[1].n
      /\ last'.reply = queue[1].reply /\ last'.err = ReadError(queue[1])
      /\ last'.err = "none" =>
            /\ queue[1].err = "none" /\ Accepts(call.op, call.proto, last'.reply)
            /\ call.op \in CredentialCalls => last'.of = call.op
  BY Taking
<1>3. /\ IsSeq(queue') /\ Len(queue) \in Nat /\ Len(queue) > 0 /\ Len(queue') = Len(queue) - 1
      /\ \A i \in 1 .. Len(queue) - 1 : queue'[i] = queue[i + 1]
      /\ queue' = << >> <=> Len(queue) = 1
  BY <1>1, <1>2, TailIs
<1>4. Counting'
  BY <1>1 DEF CInv, Counting
<1>5. Asked'
  BY <1>1, <1>2 DEF Asked
<1>6. Waiting'
  <2>1. \A i \in 1 .. Len(queue') : Sound(queue'[i], call, made) /\ queue'[i].of \in Calls
    <3>1. \A i \in 1 .. Len(queue) : Sound(queue[i], call, made) /\ queue[i].of \in Calls
      BY DEF CInv, Waiting
    <3>2. ASSUME NEW i \in 1 .. Len(queue')
          PROVE  i + 1 \in 1 .. Len(queue) /\ queue'[i] = queue[i + 1]
      BY <1>3
    <3>3. QED
      BY <3>1, <3>2
  <2>2. QED
    BY <1>1, <1>2, <1>3, <2>1 DEF Waiting
<1>7. Taken'
  BY <1>1, <1>2 DEF Taken
<1>8. ASSUME pc = "MakeCredential", last'.err = "none"
      PROVE  \E c \in DOMAIN made :
                /\ known' = known \cup {[account |-> call.account, id |-> <<c>>, key |-> KeyOf(c, made)]}
                /\ Data(last'.reply).attested.id = <<c>>
                /\ last'.n = call.n =>
                      made[c].rp = call.account.rp.id /\ made[c].user = call.account.user.id
  BY <1>1, <1>8, Keeping
<1>9. Kept'
  <2>1. CASE pc = "MakeCredential" /\ last'.err = "none"
    <3>1. PICK c \in DOMAIN made :
             known' = known \cup {[account |-> call.account, id |-> <<c>>, key |-> KeyOf(c, made)]}
      BY <1>8, <2>1
    <3>2. PICK k : k = [account |-> call.account, id |-> <<c>>, key |-> KeyOf(c, made)]
      OBVIOUS
    <3>3. k.account = call.account /\ k.id = <<c>> /\ k.key = KeyOf(c, made)
      <4>1. PICK a, i, key : a = call.account /\ i = <<c>> /\ key = KeyOf(c, made)
        OBVIOUS
      <4>2. k = [account |-> a, id |-> i, key |-> key]
        BY <3>2, <4>1
      <4>3. k.account = a /\ k.id = i /\ k.key = key
        BY <4>2
      <4>4. QED
        BY <4>1, <4>3
    <3>4. call.account \in Accounts
      BY <1>2, <2>1 DEF Request, CredentialCalls
    <3>5. known' = known \cup {k} /\ IsFiniteSet(known')
      <4>1. known' = known \cup {k}
        BY <3>1, <3>2
      <4>2. IsFiniteSet(known)
        BY DEF CInv, Kept
      <4>3. QED
        BY <4>1, <4>2, FS_AddElement
    <3>6. ASSUME NEW b \in known'
          PROVE  b.account \in Accounts /\ \E x \in DOMAIN made : b.id = <<x>> /\ b.key = KeyOf(x, made)
      <4>1. CASE b = k
        BY <3>3, <3>4, <4>1
      <4>2. CASE b \in known
        BY <4>2 DEF CInv, Kept
      <4>3. QED
        BY <3>5, <4>1, <4>2
    <3>7. QED
      BY <1>1, <3>5, <3>6 DEF Kept, KeyOf
  <2>2. CASE ~(pc = "MakeCredential" /\ last'.err = "none")
    <3>1. known' = known /\ made' = made
      BY <1>1, <2>2
    <3>2. QED
      BY <3>1, Zenon DEF CInv, Kept, KeyOf
  <2>3. QED
    BY <2>1, <2>2
<1>10. Tidy'
  <2>1. SUFFICES ASSUME clean PROVE Tidy'
    BY <1>1 DEF Tidy
  <2>2. /\ Len(queue) = 1 /\ queue[1].n = call.n /\ queue[1].of = call.op
        /\ \A k \in known : made[k.id[1]].rp = k.account.rp.id /\ made[k.id[1]].user = k.account.user.id
        /\ \A c \in DOMAIN made : made[c].live => Pending(c) \/ \E k \in known : k.id = <<c>>
        /\ \A c, d \in DOMAIN made :
              made[c].live /\ made[d].live /\ made[c].rp = made[d].rp /\ made[c].user = made[d].user => c = d
    BY <1>1, <2>1, Zenon DEF CInv, Tidy
  <2>3. queue' = << >> /\ pc' = "idle"
    BY <1>1, <1>3, <2>2
  <2>4. known \subseteq known'
    BY <1>1
  <2>5. \A k \in known' : made[k.id[1]].rp = k.account.rp.id /\ made[k.id[1]].user = k.account.user.id
    <3>1. CASE pc = "MakeCredential" /\ last'.err = "none"
      <4>1. PICK c \in DOMAIN made :
               /\ known' = known \cup {[account |-> call.account, id |-> <<c>>, key |-> KeyOf(c, made)]}
               /\ last'.n = call.n => made[c].rp = call.account.rp.id /\ made[c].user = call.account.user.id
        BY <1>8, <3>1
      <4>2. PICK a, i, key : a = call.account /\ i = <<c>> /\ key = KeyOf(c, made)
        OBVIOUS
      <4>3. PICK k : k = [account |-> a, id |-> i, key |-> key]
        OBVIOUS
      <4>4. k.account = a /\ k.id = i /\ known' = known \cup {k}
        BY <4>1, <4>2, <4>3
      <4>5. k.id[1] = c
        BY <4>2, <4>4
      <4>6. made[c].rp = a.rp.id /\ made[c].user = a.user.id
        BY <1>2, <2>2, <4>1, <4>2
      <4>7. QED
        BY <2>2, <4>4, <4>5, <4>6
    <3>2. CASE ~(pc = "MakeCredential" /\ last'.err = "none")
      <4>1. known' = known
        BY <1>1, <3>2
      <4>2. QED
        BY <2>2, <4>1
    <3>3. QED
      BY <3>1, <3>2
  <2>6. ASSUME NEW c \in DOMAIN made, made[c].live PROVE \E k \in known' : k.id = <<c>>
    <3>1. CASE \E k \in known : k.id = <<c>>
      BY <2>4, <3>1
    <3>2. CASE Pending(c)
      <4>1. /\ pc = "MakeCredential" /\ queue[1].err = "none" /\ readAttestation(queue[1].reply)
            /\ Data(queue[1].reply).attested.id = <<c>>
        BY <3>2 DEF Pending
      <4>2. last'.err = "none"
        BY <1>2, <4>1 DEF ReadError, Accepts
      <4>3. PICK x \in DOMAIN made :
               /\ known' = known \cup {[account |-> call.account, id |-> <<x>>, key |-> KeyOf(x, made)]}
               /\ Data(last'.reply).attested.id = <<x>>
        BY <1>8, <4>1, <4>2
      <4>4. <<x>> = <<c>>
        BY <1>2, <4>1, <4>3
      <4>5. PICK a, i, key : a = call.account /\ i = <<x>> /\ key = KeyOf(x, made)
        OBVIOUS
      <4>6. PICK k : k = [account |-> a, id |-> i, key |-> key]
        OBVIOUS
      <4>7. k.id = i /\ k \in known'
        BY <4>3, <4>5, <4>6
      <4>8. QED
        BY <4>4, <4>5, <4>7
    <3>3. QED
      BY <2>2, <2>6, <3>1, <3>2
  <2>7. QED
    BY <1>1, <2>1, <2>2, <2>3, <2>5, <2>6, Zenon DEF Tidy
<1>11. QED
  BY <1>4, <1>5, <1>6, <1>7, <1>9, <1>10 DEF CInv

LEMMA GiveUpKeeps == ASSUME CInv, GiveUp PROVE CInv'
<1>1. /\ pc # "idle" /\ pc' = "idle" /\ last' = [NoReply EXCEPT !.err = "receive"]
      /\ \/ queue' = << >> /\ clean' = (clean /\ pc # "MakeCredential")
         \/ queue' = queue /\ clean' = FALSE
      /\ UNCHANGED <<call, calls, made, known, bad>>
  BY DEF GiveUp
<1>2. calls \in Nat /\ call.n = calls
  BY DEF CInv, Counting
<1>3. Sound(last', call, made) /\ last'.of = "none"
  <2>1. PICK e : e = [of |-> "none", n |-> 0, err |-> "receive", reply |-> << >>]
    OBVIOUS
  <2>2. last' = e /\ Says1(e, "none", 0, "receive", << >>)
    BY <1>1, <2>1 DEF NoReply, Says1
  <2>3. Sound(e, call, made) /\ e.of = "none"
    BY <1>2, <2>2, NothingSound
  <2>4. QED
    BY <2>2, <2>3
<1>4. Counting'
  BY <1>1 DEF CInv, Counting
<1>5. Asked' /\ Taken'
  BY <1>1, <1>3 DEF Asked, Taken
<1>6. Waiting'
  <2>1. IsSeq(queue) /\ \A i \in 1 .. Len(queue) : Sound(queue[i], call, made) /\ queue[i].of \in Calls
    BY DEF CInv, Waiting
  <2>2. CASE queue' = queue
    BY <1>1, <1>3, <2>1, <2>2, Zenon DEF Waiting
  <2>3. CASE queue' = << >>
    <3>1. IsSeq(queue') /\ Len(queue') = 0
      BY <2>3, EmptyIs
    <3>2. \A i \in 1 .. Len(queue') : FALSE
      BY <3>1
    <3>3. QED
      BY <1>1, <1>3, <3>1, <3>2, Zenon DEF Waiting
  <2>4. QED
    BY <1>1, <2>2, <2>3
<1>7. Kept'
  BY <1>1, Zenon DEF CInv, Kept, KeyOf
<1>8. Tidy'
  <2>1. SUFFICES ASSUME clean' PROVE Tidy'
    BY DEF Tidy
  <2>2. queue' = << >> /\ clean /\ pc # "MakeCredential"
    BY <1>1, <2>1
  <2>3. \A c : ~Pending(c)
    BY <2>2 DEF Pending
  <2>4. QED
    BY <1>1, <2>2, <2>3, Zenon DEF CInv, Tidy
<1>9. QED
  BY <1>4, <1>5, <1>6, <1>7, <1>8 DEF CInv

LEMMA Starting == ASSUME Init PROVE CInv
<1>1. /\ pc = "idle" /\ call = [op |-> "none", n |-> 0, proto |-> PINProtocolOne]
      /\ queue = << >> /\ last = NoReply /\ calls = 0 /\ made = << >> /\ known = {}
  BY DEF Init
<1>2. call.n = 0
  BY <1>1
<1>3. IsSeq(<< >>) /\ Len(<< >>) = 0 /\ DOMAIN << >> = {} /\ \A i \in 1 .. Len(<< >>) : FALSE
  <2>1. IsSeq(<< >>) /\ Len(<< >>) = 0
    BY EmptyIs
  <2>2. \A i \in 1 .. Len(<< >>) : FALSE
    BY <2>1
  <2>3. QED
    BY <2>1, <2>2
<1>4. Counting
  <2>1. Shaped(made)
    BY <1>1, <1>3, Zenon DEF Shaped
  <2>2. MaxCalls \in Nat
    BY CredentialsAssumption
  <2>3. QED
    BY <1>1, <1>2, <1>3, <2>1, <2>2 DEF Counting
<1>5. Sound(last, call, made) /\ last.of = "none"
  <2>1. PICK rq : rq = call
    OBVIOUS
  <2>2. rq.n \in Nat /\ Says1(last, "none", 0, "none", << >>)
    BY <1>1, <1>2, <2>1 DEF Says1, NoReply
  <2>3. Sound(last, rq, made) /\ last.of = "none"
    BY <2>2, NothingSound
  <2>4. QED
    BY <2>1, <2>3
<1>6. Asked /\ Taken
  BY <1>1, <1>5 DEF Asked, Taken
<1>7. Waiting
  BY <1>1, <1>3, <1>5, Zenon DEF Waiting
<1>8. Kept
  BY <1>1, FS_EmptySet DEF Kept
<1>9. Tidy
  BY <1>1, <1>3 DEF Tidy
<1>10. QED
  BY <1>4, <1>6, <1>7, <1>8, <1>9 DEF CInv

LEMMA Steps == ASSUME CInv, [Next]_vars PROVE CInv'
<1>1. ASSUME NEW op \in DOMAIN Shapes, Ask(op, PINProtocolOne) PROVE CInv'
  <2>1. op \in PlainCalls
    BY CredentialsAssumption
  <2>2. QED
    BY <1>1, <2>1, PlainKeeps
<1>2. CASE Ask("PINToken", PINProtocolTwo)
  <2>1. "PINToken" \in PlainCalls
    BY DEF PlainCalls
  <2>2. QED
    BY <1>2, <2>1, PlainKeeps
<1>3. ASSUME NEW account \in Accounts, NEW algs \in AlgLists, NEW options \in OptionSets,
             NEW token \in Tokens, NEW hash \in {0, calls + 1},
             MakeCredential(account, algs, options, token, hash)
      PROVE  CInv'
  BY <1>3, RegistrationKeeps
<1>4. ASSUME NEW account \in Accounts, NEW named \in BOOLEAN, NEW token \in Tokens,
             NEW hash \in {0, calls + 1}, GetAssertion(account, named, token, hash)
      PROVE  CInv'
  BY <1>4, AssertionKeeps
<1>5. CASE Read
  BY <1>5, ReadKeeps
<1>6. CASE GiveUp
  BY <1>6, GiveUpKeeps
<1>7. CASE UNCHANGED vars
  BY <1>7, Zenon DEF vars, CInv, Counting, Asked, Waiting, Taken, Kept, Tidy, Pending, KeyOf
<1>8. QED
  BY <1>1, <1>2, <1>3, <1>4, <1>5, <1>6, <1>7, Zenon DEF Next

(* Every reply, waiting or read, was made for the call it is numbered for,    *)
(* what the program keeps of its registrations is the authenticator's, and    *)
(* while nothing is lost every live credential is among it (MakeCredential,   *)
(* GetAssertion and the other calls over one Key, credential.go).             *)
THEOREM Invariance == Spec => []CInv
<1>1. Init => CInv
  BY Starting
<1>2. CInv /\ [Next]_vars => CInv'
  BY Steps
<1>3. QED
  BY <1>1, <1>2, PTL DEF Spec

----------------------------------------------------------------------------
(* What is known of a reply that a call succeeded on.                         *)
LEMMA Succeeded ==
    ASSUME CInv, pc = "idle", last.of # "none", last.err = "none"
    PROVE  /\ last.of = call.op \/ Misled(call.op, last.of, last.reply)
           /\ Accepts(call.op, call.proto, last.reply) /\ Sound(last, call, made) /\ Request(call)
<1>1. Accepts(call.op, call.proto, last.reply) /\ Sound(last, call, made) /\ Request(call)
  BY DEF CInv, Taken, Waiting, Asked
<1>2. OfKind(last.of, last.reply)
  BY <1>1 DEF Sound
<1>3. call.op \in Calls /\ call.proto \in {PINProtocolOne, PINProtocolTwo}
  BY <1>1 DEF Request
<1>4. PICK of, r, op, proto : of = last.of /\ r = last.reply /\ op = call.op /\ proto = call.proto
  OBVIOUS
<1>5. of = op \/ Misled(op, of, r)
  BY <1>1, <1>2, <1>3, <1>4, OnlyItsOwn
<1>6. QED
  BY <1>1, <1>4, <1>5

(* Every credential has a point of its own.                                   *)
LEMMA PointOf == ASSUME CInv, NEW c \in DOMAIN made PROVE Points[c] \in Curve
<1>1. Shaped(made) /\ Len(made) <= calls /\ calls <= MaxCalls /\ calls \in Nat
  BY DEF CInv, Counting
<1>2. c \in 1 .. Len(made) /\ Len(made) \in Nat
  BY <1>1, ShapedIs
<1>3. Points \in Seq(Curve) /\ MaxCalls \in Nat /\ MaxCalls <= Len(Points)
  BY CredentialsAssumption
<1>4. c \in 1 .. Len(Points)
  BY <1>1, <1>2, <1>3
<1>5. QED
  BY <1>3, <1>4

(* A call that succeeds does so on a reply to a call of its own kind, however *)
(* many calls were given up before it: what each decodes (parseInfo,          *)
(* PINRetries, KeyAgreement, PINToken, MakeCredential, GetAssertion) tells    *)
(* them apart.  The exceptions are in OwnKind: a registration and an          *)
(* assertion have none, and what is one, without extensions, is taken for     *)
(* nothing else.                                                              *)
THEOREM SucceedsOnItsOwn == Spec => []OwnKind
<1>1. CInv => OwnKind
  BY Succeeded DEF OwnKind, Misled
<1>2. QED
  BY <1>1, Invariance, PTL

(* What is kept of a registration is a credential of the authenticator and    *)
(* the key it has there (MakeCredential, ParseAuthData, PublicKey).           *)
THEOREM KeepsWhatWasMade == Spec => []KeptIsMade
<1>1. ASSUME CInv, NEW k \in known
      PROVE  \E c \in DOMAIN made :
                k.id = <<c>> /\ k.key = IF made[c].alg = AlgES256 THEN Points[c] ELSE NoPoint
  <2>1. PICK c \in DOMAIN made : k.id = <<c>> /\ k.key = KeyOf(c, made)
    BY <1>1 DEF CInv, Kept
  <2>2. PICK p, alg : p = Points[c] /\ alg = made[c].alg
    OBVIOUS
  <2>3. k.key = PublicKey(COSEKey(alg, p)).point
    BY <2>1, <2>2 DEF KeyOf
  <2>4. p \in Curve
    BY <1>1, <2>2, PointOf
  <2>5. PublicKey(COSEKey(alg, p)).point = IF alg = AlgES256 THEN p ELSE NoPoint
    BY <2>4, KeyRead DEF KeyError
  <2>6. QED
    BY <2>1, <2>2, <2>3, <2>5
<1>2. CInv => KeptIsMade
  BY <1>1 DEF KeptIsMade
<1>3. QED
  BY <1>2, Invariance, PTL

(* The verified bit of a registration or an assertion says that the request's *)
(* own token knew the PIN, and an assertion that verifies was made for the    *)
(* request (MakeCredentialRequest.Token, GetAssertionRequest.Token).          *)
THEOREM VerifiedByPIN == Spec => []VerifiedMeansPIN
<1>1. ASSUME CInv PROVE VerifiedMeansPIN
  <2>1. SUFFICES ASSUME \/ Returned("MakeCredential") /\ last.n = call.n
                        \/ Returned("GetAssertion") /\ Verifies
                 PROVE  /\ last.n = call.n
                        /\ FlagHas(ParseAuthData(last.reply[2].bytes).flags, FlagUV) <=> Valid(call.token)
    BY Zenon DEF VerifiedMeansPIN
  <2>2. pc = "idle" /\ last.of # "none" /\ last.err = "none" /\ call.op \in CredentialCalls
    BY <2>1 DEF Returned, CredentialCalls
  <2>3. /\ last.of = call.op /\ Accepts(call.op, call.proto, last.reply)
        /\ Sound(last, call, made) /\ Request(call)
    BY <1>1, <2>2, Succeeded DEF Misled, PlainCalls, CredentialCalls
  <2>4. call.proto = PINProtocolOne /\ call.hash = call.n
    BY <2>2, <2>3 DEF Request
  <2>5. last.n = call.n
    <3>1. CASE Returned("GetAssertion") /\ Verifies
      <4>1. call.op = "GetAssertion"
        BY <3>1 DEF Returned
      <4>2. readAssertion(last.reply)
        BY <2>3, <4>1 DEF Accepts
      <4>3. Signs(last, call, made)
        BY <2>2, <2>3, <4>1, <4>2 DEF Sound
      <4>4. last.reply[3].sig.hash = last.n
        BY <4>3 DEF Signs
      <4>5. last.reply[3].sig.hash = call.hash
        BY <3>1 DEF Verifies
      <4>6. QED
        BY <2>4, <4>4, <4>5
    <3>2. QED
      BY <2>1, <3>1
  <2>6. FlagHas(Data(last.reply).flags, FlagUV) <=> Valid(call.token)
    BY <2>2, <2>3, <2>4, <2>5 DEF Sound
  <2>7. QED
    BY <2>5, <2>6 DEF Data
<1>2. QED
  BY <1>1, Invariance, PTL

(* An assertion made for the request verifies with the key that its           *)
(* registration gave (GetAssertion, AuthData.PublicKey, cose.go).             *)
THEOREM AssertionsVerify == Spec => []AssertionVerifies
<1>1. ASSUME CInv PROVE AssertionVerifies
  <2>1. SUFFICES ASSUME Returned("GetAssertion"), last.n = call.n, NEW k \in known,
                        k.id = Answered, made[k.id[1]].alg = AlgES256
                 PROVE  Verifies
    BY DEF AssertionVerifies
  <2>2. pc = "idle" /\ last.of # "none" /\ last.err = "none" /\ call.op = "GetAssertion"
    BY <2>1 DEF Returned
  <2>3. /\ last.of = call.op /\ Accepts(call.op, call.proto, last.reply)
        /\ Sound(last, call, made) /\ Request(call)
    BY <1>1, <2>2, Succeeded DEF Misled, PlainCalls, CredentialCalls
  <2>4. readAssertion(last.reply)
    BY <2>2, <2>3 DEF Accepts
  <2>5. Signs(last, call, made)
    BY <2>2, <2>3, <2>4 DEF Sound
  <2>6. PICK c \in DOMAIN made :
           /\ last.reply[3].sig = [key |-> Points[c], data |-> last.reply[2].bytes, hash |-> last.n]
           /\ AnsweredBy(last.reply, call) = <<c>>
    BY <2>1, <2>5 DEF Signs
  <2>7. call.hash = call.n
    BY <2>2, <2>3 DEF Request, CredentialCalls
  <2>8. PICK d \in DOMAIN made : k.id = <<d>> /\ k.key = KeyOf(d, made)
    BY <1>1, <2>1 DEF CInv, Kept
  <2>9. d = c
    <3>1. Answered = AnsweredBy(last.reply, call)
      BY DEF Answered, AnsweredBy
    <3>2. <<d>> = <<c>>
      BY <2>1, <2>6, <2>8, <3>1
    <3>3. QED
      BY <3>2
  <2>10. made[c].alg = AlgES256
    <3>1. k.id[1] = c
      BY <2>8, <2>9
    <3>2. QED
      BY <2>1, <3>1
  <2>11. Points[c] \in Curve
    BY <1>1, PointOf
  <2>12. k.key = Points[c] /\ Points[c] # NoPoint
    <3>1. k.key = PublicKey(COSEKey(AlgES256, Points[c])).point
      BY <2>8, <2>9, <2>10 DEF KeyOf
    <3>2. PICK p : p = Points[c]
      OBVIOUS
    <3>3. PublicKey(COSEKey(AlgES256, p)).point = p
      BY <2>11, <3>2, KeyRead
    <3>4. QED
      BY <2>11, <3>1, <3>2, <3>3, COSEAssumption
  <2>13. last.reply[3].sig = [key |-> k.key, data |-> last.reply[2].bytes, hash |-> call.hash]
    BY <2>1, <2>6, <2>7, <2>12
  <2>14. QED
    BY <2>1, <2>12, <2>13, Zenon DEF Verifies
<1>2. QED
  BY <1>1, Invariance, PTL

(* While no registration was given up and no late reply left behind, an       *)
(* account has one credential that lives, and what is kept of it is kept      *)
(* under that account (MakeCredentialRequest.Exclude).                        *)
THEOREM NoSecondCredential == Spec => []OneCredentialEach
<1>1. CInv => OneCredentialEach
  BY DEF CInv, Tidy, OneCredentialEach
<1>2. QED
  BY <1>1, Invariance, PTL

(* An authenticator that refuses empty names and lists refuses a request only *)
(* where the relying party has no name (userMap, MakeCredential,              *)
(* GetAssertion).                                                             *)
THEOREM NothingEmpty == Spec => []NothingEmptySent
<1>1. CInv => NothingEmptySent
  BY DEF CInv, Waiting, Sound, NothingEmptySent
<1>2. QED
  BY <1>1, Invariance, PTL
=============================================================================
