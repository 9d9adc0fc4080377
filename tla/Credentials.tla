---------------------------- MODULE Credentials ----------------------------
(***************************************************************************)
(* A relying party's program that registers credentials and asks for       *)
(* assertions (credential.go), with the other CTAP2 calls mixed in, over a *)
(* Key whose late replies may answer the next call.  It keeps what its     *)
(* registrations returned, excludes those of the same account from the     *)
(* next, and verifies each assertion as cose.go describes: the key of the  *)
(* registration, over the authenticator data and the client data hash.     *)
(*                                                                         *)
(* The authenticator is external: modelled from what the code sends and    *)
(* decodes.  A signature is known by its key and what it covers.           *)
(***************************************************************************)
EXTENDS Requests, Replies, SequencesExt

CONSTANTS
    Accounts,   \* [rp, user] that the program registers
    AlgLists,   \* the algorithms it may ask for, most preferred first
    Supported,  \* the algorithms of the authenticator
    OptionSets, \* the options it may give
    Tokens,     \* the tokens it may hold, NoToken for none
    tok,        \* the token that the authenticator knows
    Points,     \* the points of the credentials' keys, in the order they are made
    Shapes,     \* the replies to the other calls: call |-> set of replies
    BadShapes,  \* replies an authenticator should not make: call |-> set of replies
    MaxCalls,   \* bound on the calls
    MaxBad      \* bound on the replies it should not make

(* The CBOR types of the members of each call's reply. *)
MemberTypes(op) ==
    CASE op = "GetInfo"        -> <<"texts", "texts", "bytes", "options", "int", "ints", "none", "none", "texts">>
      [] op = "PINRetries"     -> <<"none", "none", "int", "bool">>
      [] op = "KeyAgreement"   -> <<"cose">>
      [] op = "PINToken"       -> <<"none", "bytes">>
      [] op = "MakeCredential" -> <<"text", "bytes", "statement">>
      [] op = "GetAssertion"   -> <<"descriptor", "bytes", "bytes", "user", "int">>

(* The members of the reply are of the types its call has. *)
Typed(op, r) ==
    \A m \in DOMAIN r :
        /\ m \in DOMAIN MemberTypes(op) /\ r[m].type = MemberTypes(op)[m]
        /\ r[m].bytes \in Seq(Byte)

PlainCalls == {"GetInfo", "PINRetries", "KeyAgreement", "PINToken"}
CredentialCalls == {"MakeCredential", "GetAssertion"}

(* A user has one account at a relying party.  Of the replies that should not *)
(* be made none reads as a registration or an assertion, which would be that  *)
(* of a credential nobody made; otherwise they may be anything.  A            *)
(* credential's id and the hash of an id are made of one byte.                *)
ASSUME CredentialsAssumption ==
    /\ MaxCalls \in Nat /\ MaxCalls < 256 /\ MaxCalls <= Len(Points)
    /\ Points \in Seq(Curve)
    /\ \A a \in Accounts : a.rp.id \in Byte
    /\ \A a, b \in Accounts : a.rp.id = b.rp.id /\ a.user.id = b.user.id => a = b
    /\ AlgLists \subseteq Seq(Int)
    /\ DOMAIN Shapes = PlainCalls /\ DOMAIN BadShapes = PlainCalls \cup CredentialCalls
    /\ \A op \in PlainCalls : \A r \in Shapes[op] : Typed(op, r)
    /\ \A op \in PlainCalls \cup CredentialCalls : \A r \in BadShapes[op] :
          ~readAttestation(r) /\ ~readAssertion(r)

VARIABLES
    pc,      \* "idle", or the call under way
    call,    \* its request; the client data hash also numbers it
    queue,   \* replies that were not read, oldest first
    last,    \* between calls, what the last one read: err, reply, and the ghosts of, n
    calls,   \* calls made
    made,    \* the credentials of the authenticator: rp, user, rk, alg, and live
    known,   \* what the program keeps of its registrations: account, id, key
    bad,     \* replies made that should not be
    clean    \* ghost: no registration was given up, and no late reply left behind

vars == <<pc, call, queue, last, calls, made, known, bad, clean>>

NoReply == [of |-> "none", n |-> 0, err |-> "none", reply |-> << >>]

Init ==
    /\ pc = "idle" /\ call = [op |-> "none", n |-> 0, proto |-> PINProtocolOne]
    /\ queue = << >> /\ last = NoReply /\ calls = 0
    /\ made = << >> /\ known = {} /\ bad = 0 /\ clean = TRUE

----------------------------------------------------------------------------
(***************************************************************************)
(* The authenticator (external).                                           *)
(***************************************************************************)
FlagUP == 1
FlagUV == 4

Rep(n, v) == [i \in 1 .. n |-> v]

(* The item <<65, c>> stands for the COSE key of credential c. *)
CoseOf(c) == COSEKey(made[c].alg, Points[c])

AuthDataOf(rpID, uv, attested) ==
    EncodeAuthData(
        [rpIDHash |-> Rep(rpIDHashLen, rpID), signCount |-> <<0, 0, 0, calls % 256>>,
         flags |-> FlagUP + (IF uv THEN FlagUV ELSE 0) + (IF attested = NoAttested THEN 0 ELSE FlagAT),
         attested |-> attested, extensions |-> << >>])

NewCredential(c) == [aaguid |-> Rep(aaguidLen, 187), id |-> <<c>>, key |-> <<65, c>>]

(* An empty name or list, which some authenticators refuse. *)
EmptyMember(req, lists, sets, entities) ==
    \/ \E m \in lists \cap DOMAIN req : req[m] = << >>
    \/ \E m \in sets \cap DOMAIN req : req[m] = {}
    \/ \E m \in entities : \E name \in DOMAIN req[m] \ {"id"} : req[m][name] = 0

(* The pinUvAuthParam among the members: was none sent, or is it the token's? *)
TokenStatus(req, param, protocol, hash) ==
    IF {param, protocol} \cap DOMAIN req = {} THEN "none"
    ELSE IF /\ {param, protocol} \subseteq DOMAIN req
            /\ req[protocol] = tok.proto /\ req[param] = Mac(tok.proto, tok.raw, hash) THEN "ok"
    ELSE "refused"

Live(rpID) == {c \in DOMAIN made : made[c].live /\ made[c].rp = rpID}

Named(list, rpID) ==
    {c \in Live(rpID) : \E i \in DOMAIN list : list[i].type = "public-key" /\ list[i].id = <<c>>}

Chosen(params) ==
    LET ok == {i \in DOMAIN params : params[i].alg \in Supported} IN
    IF ok = {} THEN 0 ELSE params[CHOOSE i \in ok : \A j \in ok : i <= j].alg

Says(op, err, reply) == queue' = Append(queue, [of |-> op, n |-> calls', err |-> err, reply |-> reply])

Refuses(op, status) == Says(op, status, << >>) /\ UNCHANGED made

(* A discoverable credential replaces the one of the same account. *)
Stored(c, rpID, user, rk, alg) ==
    [i \in 1 .. c |->
        IF i = c THEN [rp |-> rpID, user |-> user, rk |-> rk, alg |-> alg, live |-> TRUE]
        ELSE [made[i] EXCEPT !.live = @ /\ ~(rk /\ made[i].rk /\ made[i].rp = rpID /\ made[i].user = user)]]

AuthenticatorMakes(req) ==
    LET rpID == req[2].id
        hash == req[1]
        token == TokenStatus(req, 8, 9, hash)
        rk == 7 \in DOMAIN req /\ "rk" \in req[7]
        alg == Chosen(req[4])
        c == Len(made) + 1 IN
    \/ EmptyMember(req, {4, 5}, {7}, {2, 3}) /\ Refuses("MakeCredential", "parameter")
    \/ IF token = "refused" THEN Refuses("MakeCredential", "pinAuthInvalid")
       ELSE IF 5 \in DOMAIN req /\ Named(req[5], rpID) # {} THEN Refuses("MakeCredential", "excluded")
       ELSE IF alg = 0 THEN Refuses("MakeCredential", "algorithm")
       ELSE /\ made' = Stored(c, rpID, req[3].id, rk, alg)
            /\ Says("MakeCredential", "none",
                    <<Item("text"), ByteString(AuthDataOf(rpID, token = "ok", NewCredential(c))),
                      Item("statement")>>)

(* Who answers may be said, and is when it is not the one that was named; the *)
(* user of a discoverable credential; how many there are, when none was named. *)
AssertionOf(c, data, hash, named, counted) ==
    [m \in {2, 3} \cup {x \in {1} : named} \cup {x \in {4} : made[c].rk} \cup {x \in {5} : counted} |->
        CASE m = 1 -> [type |-> "descriptor", bytes |-> <<c>>, val |-> 0]
          [] m = 2 -> ByteString(data)
          [] m = 3 -> [type |-> "bytes", bytes |-> <<9>>, val |-> 0,
                       sig |-> [key |-> Points[c], data |-> data, hash |-> hash]]
          [] m = 4 -> [type |-> "user", bytes |-> << >>, val |-> made[c].user]
          [] m = 5 -> Item("int")]

(* It may leave out the credential when the request named exactly one. *)
AuthenticatorSigns(req) ==
    LET rpID == req[1]
        hash == req[2]
        token == TokenStatus(req, 6, 7, hash)
        able == IF 3 \in DOMAIN req THEN Named(req[3], rpID) ELSE {c \in Live(rpID) : made[c].rk} IN
    \/ EmptyMember(req, {3}, {5}, {}) /\ Refuses("GetAssertion", "parameter")
    \/ IF token = "refused" THEN Refuses("GetAssertion", "pinAuthInvalid")
       ELSE IF able = {} THEN Refuses("GetAssertion", "noCredentials")
       ELSE \E c \in able, named \in BOOLEAN :
              /\ named \/ (3 \in DOMAIN req /\ Len(req[3]) = 1)
              /\ Says("GetAssertion", "none",
                      AssertionOf(c, AuthDataOf(rpID, token = "ok", NoAttested), hash,
                                  named, 3 \notin DOMAIN req))
              /\ UNCHANGED made

----------------------------------------------------------------------------
(***************************************************************************)
(* Calls.  The authenticator answers sooner or later.                      *)
(***************************************************************************)
Begin == pc = "idle" /\ calls < MaxCalls /\ calls' = calls + 1 /\ UNCHANGED <<known, clean>>

Plain(op, proto) == [op |-> op, n |-> calls + 1, proto |-> proto]

(* Refused before anything is sent. *)
Refused(r, err) ==
    /\ call' = Plain(r.op, r.proto) /\ last' = [NoReply EXCEPT !.err = err]
    /\ UNCHANGED <<pc, queue, made, bad>>

Sent(r) == call' = r /\ pc' = r.op /\ last' = NoReply

(* A reply that should not be made, and changes nothing. *)
Misbehaves(op) ==
    /\ bad < MaxBad /\ bad' = bad + 1
    /\ \E r \in BadShapes[op] : Says(op, "none", r)
    /\ UNCHANGED made

(* The code's PINToken is two of these: its KeyAgreement, and its own request. *)
Ask(op, proto) ==
    /\ Begin /\ Sent(Plain(op, proto))
    /\ \/ (\E r \in Shapes[op] : Says(op, "none", r)) /\ UNCHANGED <<made, bad>>
       \/ Misbehaves(op)

Creds(account) == {k \in known : k.account = account}

(* The caller names a credential by its id; the type is filled in later. *)
ListOf(creds) == SetToSeq({[type |-> "", id |-> k.id, transports |-> {}] : k \in creds})

MakeCredential(account, algs, options, token, hash) ==
    LET r == [op |-> "MakeCredential", n |-> calls + 1, proto |-> PINProtocolOne, account |-> account,
              hash |-> hash, rp |-> account.rp, user |-> account.user, algs |-> algs,
              exclude |-> ListOf(Creds(account)), options |-> options, token |-> token] IN
    /\ Begin
    /\ IF MakeCredentialError(r) # "none" THEN Refused(r, MakeCredentialError(r))
       ELSE /\ Sent(r)
            /\ \/ AuthenticatorMakes(MakeCredentialMap(r)) /\ UNCHANGED bad
               \/ Misbehaves("MakeCredential")

GetAssertion(account, named, token, hash) ==
    LET r == [op |-> "GetAssertion", n |-> calls + 1, proto |-> PINProtocolOne, account |-> account,
              hash |-> hash, rpID |-> account.rp.id, options |-> {}, token |-> token,
              allow |-> IF named THEN ListOf(Creds(account)) ELSE << >>] IN
    /\ Begin
    /\ IF GetAssertionError(r) # "none" THEN Refused(r, GetAssertionError(r))
       ELSE /\ Sent(r)
            /\ \/ AuthenticatorSigns(GetAssertionMap(r)) /\ UNCHANGED bad
               \/ Misbehaves("GetAssertion")

----------------------------------------------------------------------------
(* Mutant: a registration need not have a credential. *)
ReadErrorBare(got) ==
    IF got.err # "none" THEN got.err
    ELSE IF \/ Accepts(pc, call.proto, got.reply)
            \/ /\ pc = "MakeCredential"
               /\ field(got.reply, 1, "string") /\ readAuthData(got.reply) THEN "none"
    ELSE "decode"

ReadError(got) ==
    IF got.err # "none" THEN got.err
    ELSE IF Accepts(pc, call.proto, got.reply) THEN "none"
    ELSE "decode"

(* What the program keeps of a registration; PublicKey is for it to call. *)
Registered(reply) ==
    LET att == ParseAuthData(reply[2].bytes).attested IN
    [account |-> call.account, id |-> att.id,
     key |-> IF att.key = << >> THEN NoPoint ELSE PublicKey(CoseOf(att.key[2])).point]

Read ==
    /\ pc # "idle" /\ queue # << >> /\ pc' = "idle" /\ queue' = Tail(queue)
    /\ last' = [Head(queue) EXCEPT !.err = ReadError(Head(queue))]
    /\ known' = IF pc = "MakeCredential" /\ last'.err = "none"
                THEN known \cup {Registered(last'.reply)} ELSE known
    /\ UNCHANGED <<call, calls, made, bad, clean>>

(* The context ended first.  The program opens the device again and never     *)
(* sees the reply, or goes on with the Key, and the reply stays.              *)
GiveUp ==
    /\ pc # "idle" /\ pc' = "idle"
    /\ last' = [NoReply EXCEPT !.err = "receive"]
    /\ \/ queue' = << >> /\ clean' = (clean /\ pc # "MakeCredential")
       \/ queue' = queue /\ clean' = FALSE
    /\ UNCHANGED <<call, calls, made, known, bad>>

Next ==
    \/ \E op \in DOMAIN Shapes : Ask(op, PINProtocolOne)
    \/ Ask("PINToken", PINProtocolTwo)
    \/ \E account \in Accounts, algs \in AlgLists, options \in OptionSets, token \in Tokens,
          hash \in {0, calls + 1} : MakeCredential(account, algs, options, token, hash)
    \/ \E account \in Accounts, named \in BOOLEAN, token \in Tokens, hash \in {0, calls + 1} :
          GetAssertion(account, named, token, hash)
    \/ Read \/ GiveUp

Spec == Init /\ [][Next]_vars

----------------------------------------------------------------------------
Returned(op) == pc = "idle" /\ call.op = op /\ last.of # "none" /\ last.err = "none"

(* A call only ever succeeds on a reply to a call of its own kind, even when  *)
(* late replies have shifted the session: no registration is read out of an   *)
(* assertion, no token out of either, no retry count out of a description.    *)
(* Replies that should not be made may mislead the calls that are none of     *)
(* those two: one with members of types that its call does not have, and, as  *)
(* PINToken knows a token by its length, authenticator data that is none.     *)
OwnKind ==
    pc = "idle" /\ last.of # "none" /\ last.err = "none" =>
        \/ last.of = call.op
        \/ /\ call.op \in PlainCalls
           /\ last.of \in CredentialCalls => ~Accepts(last.of, PINProtocolOne, last.reply)
           /\ \/ ~Typed(last.of, last.reply)
              \/ call.op = "PINToken" /\ last.of \in CredentialCalls

(* What the program keeps of a registration is a credential that the          *)
(* authenticator made, its id and, if it can be read, its key: never nothing, *)
(* although authenticator data without a credential parses (MakeCredential).  *)
KeptIsMade ==
    \A k \in known : \E c \in DOMAIN made :
        k.id = <<c>> /\ k.key = IF made[c].alg = AlgES256 THEN Points[c] ELSE NoPoint

(* The credential that answered, which the authenticator may leave out when   *)
(* one was named; and the check of cose.go.                                   *)
Answered ==
    IF 1 \in DOMAIN last.reply THEN last.reply[1].bytes
    ELSE IF Len(call.allow) = 1 THEN call.allow[1].id ELSE << >>

Verifies ==
    \E k \in known :
        /\ k.id = Answered /\ k.key # NoPoint
        /\ last.reply[3].sig = [key |-> k.key, data |-> last.reply[2].bytes, hash |-> call.hash]

(* The verified bit of a registration or of an assertion says that this       *)
(* request's token knew the PIN (MakeCredentialRequest.Token), and an         *)
(* assertion that verifies was made for this request, even when late replies  *)
(* have shifted the session.                                                  *)
VerifiedMeansPIN ==
    (Returned("MakeCredential") /\ last.n = call.n) \/ (Returned("GetAssertion") /\ Verifies) =>
        /\ last.n = call.n
        /\ FlagHas(ParseAuthData(last.reply[2].bytes).flags, FlagUV) <=> Valid(call.token)

(* The assertion made for this request verifies with the key of the           *)
(* registration, whatever was read, kept and converted in between: the key is *)
(* taken out of the registration's bytes, the authenticator data is returned  *)
(* as it was signed.                                                          *)
AssertionVerifies ==
    Returned("GetAssertion") /\ last.n = call.n =>
        \A k \in known : k.id = Answered /\ made[k.id[1]].alg = AlgES256 => Verifies

(* One account, one credential (MakeCredentialRequest.Exclude), and each is   *)
(* kept under the account it was made for, provided that no registration was  *)
(* given up and no late reply was left behind.                                *)
OneCredentialEach ==
    clean =>
        /\ \A c, d \in {i \in DOMAIN made : made[i].live} :
              made[c].rp = made[d].rp /\ made[c].user = made[d].user => c = d
        /\ \A k \in known : made[k.id[1]].rp = k.account.rp.id /\ made[k.id[1]].user = k.account.user.id

(* An authenticator that refuses an empty name or list refuses no request but *)
(* one whose relying party has no name: what was not given is left out        *)
(* (userMap, and the optional members).                                       *)
NothingEmptySent ==
    pc = "idle" /\ last.err = "parameter" /\ last.n = call.n =>
        call.op = "MakeCredential" /\ call.rp.name = 0
============================================================================
