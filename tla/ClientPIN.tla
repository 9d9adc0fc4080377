----------------------------- MODULE ClientPIN -----------------------------
(***************************************************************************)
(* The PIN exchange (clientpin.go) and the requests a token authorises     *)
(* (credential.go): PINRetries, KeyAgreement and PINToken, which is two    *)
(* CTAP2 calls with an ECDH exchange in between, and MakeCredential and    *)
(* GetAssertion as far as their pinUvAuthParam goes.  A call sends one     *)
(* request and reads the next reply; Session shows why that is not always  *)
(* the reply to this request.                                              *)
(*                                                                         *)
(* The authenticator is external: modelled from the replies the code       *)
(* decodes, the statuses it names and the fake that its tests run against. *)
(* So is what happens to it outside this program, at any moment: another   *)
(* program tries PINs, the token expires, the plug is pulled.              *)
(***************************************************************************)
EXTENDS PinProto, Sequences

CONSTANTS
    Pins,           \* PINs a person may type; 0 is the empty string
    RightPin,       \* the authenticator's PIN
    Protocols,      \* protocols a caller may ask for
    PermSets,       \* permissions a caller may ask for (bits; 0: the older exchange)
    TokenRPs,       \* relying parties a token may be narrowed to; 0: to none
    UseRPs,         \* relying parties it is used with
    PinUvAuthToken, \* does the authenticator list "pinUvAuthToken" (CTAP 2.1)?
    TokenLens,      \* lengths of the tokens it may make
    BadKeys,        \* may it offer something that is no P-256 point?
    MaxRetries,     \* PIN attempts before it locks
    AtStart,        \* attempts left and misses in a row that it may start with
    KeepsKey,       \* does the caller go on with the same Key after a call it gave up?
    MaxCalls,       \* bound on the calls
    MaxTimeouts,    \* bound on the calls given up
    MaxOutside      \* bound on what happens outside this program

ASSUME ClientPINAssumption ==
    /\ MaxRetries \in Nat \ {0}
    /\ \A start \in AtStart : start[1] \in 0 .. MaxRetries
    /\ TokenLens \subseteq Nat \ {0}
    /\ KeepsKey \in BOOLEAN

ASSUME BoundsAssumption ==
    /\ \A start \in AtStart : start[2] \in 0 .. 3
    /\ MaxCalls \in Nat /\ MaxTimeouts \in Nat /\ MaxOutside \in Nat

PermMakeCredential == 1
PermGetAssertion == 2

VARIABLES
    pc,         \* "idle", or the reply that is waited for
    call,       \* the call under way: op, pin, proto, perms, rp, and the ghosts n, at
    keys,       \* pinKeys of the exchange under way
    token,      \* the last Token returned: keys, raw, and the ghost asked, its call
    last,       \* between calls, what the last one returned: op, err, val, cycle
    calls,      \* calls made; also numbers the platform keys
    timeouts,   \* calls given up
    session,    \* which Key the caller uses
    wire,       \* requests the authenticator has not handled
    replies,    \* replies not yet read, oldest first
    retries, misses, priv, tok,     \* the authenticator
    issued,     \* ghost: the last platform key it made a token for
    outside     \* ghost: what has happened outside this program

caller == <<pc, call, keys, token, last, calls, timeouts, session>>
counters == <<retries, misses>>
authenticator == <<retries, misses, priv, tok, issued>>

vars == <<pc, call, keys, token, last, calls, timeouts, session, wire, replies,
          retries, misses, priv, tok, issued, outside>>

NoCall == [op |-> "none", pin |-> 0, proto |-> 0, perms |-> 0, rp |-> 0, n |-> 0, at |-> 0]

NoToken == [keys |-> NoKeys, raw |-> Noise(0), asked |-> NoCall]
Valid(t) == t.raw.len > 0
Protocol(t) == t.keys.proto

Result(op, err, val, cycle) == [op |-> op, err |-> err, val |-> val, cycle |-> cycle]
NoResult == Result("none", "none", 0, FALSE)

NoGrant == [raw |-> Noise(0), proto |-> 0, perms |-> 0, rp |-> 0]

Init ==
    /\ pc = "idle" /\ call = NoCall /\ keys = NoKeys /\ token = NoToken
    /\ last = NoResult
    /\ calls = 0 /\ timeouts = 0 /\ session = 0
    /\ wire = << >> /\ replies = << >>
    /\ \E start \in AtStart : retries = start[1] /\ misses = start[2]
    /\ priv = -1 /\ tok = NoGrant
    /\ issued = 0 /\ outside = 0

----------------------------------------------------------------------------
(***************************************************************************)
(* Requests and replies, as the maps they are encoded from: the members    *)
(* that are sent, by name.                                                 *)
(***************************************************************************)
NoMac == Mac(0, Noise(0), 0)

Request(sub, proto) ==
    [sub |-> sub, proto |-> proto, session |-> session, peer |-> 0, hash |-> NoCiphertext,
     perms |-> 0, rp |-> 0, mac |-> NoMac, at |-> 0]

(* Without permissions the older exchange is asked for, and the relying party *)
(* is not sent either.                                                        *)
TokenRequest(peer, hash) ==
    [sub |-> IF call.perms = 0 THEN "getPINToken" ELSE "getTokenUsingPIN",
     proto |-> call.proto, session |-> session, peer |-> peer, hash |-> hash,
     perms |-> call.perms, rp |-> IF call.perms = 0 THEN 0 ELSE call.rp,
     mac |-> NoMac, at |-> call.at]

TokenSubs == {"getPINToken", "getTokenUsingPIN"}

(* A reply: its status, which member its map has, and whether the optional   *)
(* power-cycle state is set.                                                 *)
Reply(status, member, val, cycle, cipher) ==
    [status |-> status, member |-> member, val |-> val, cycle |-> cycle, cipher |-> cipher]

Refusal(status) == Reply(status, "none", 0, FALSE, NoCiphertext)

(* An agreement key that coseToECDH refuses. *)
NoPoint == 0

----------------------------------------------------------------------------
(***************************************************************************)
(* The authenticator (external).                                           *)
(***************************************************************************)
Known(proto) == proto \in {PINProtocolOne, PINProtocolTwo}

Secret(req) == deriveKeys(req.proto, ECDH(req.peer, priv)).keys

(* A wrong PIN, and one hidden under a key that is no longer its own, cost an *)
(* attempt and change the key; three in a row block it until it is unplugged. *)
Opens(req) ==
    req.hash = Ciphertext(16 + Prefix(Secret(req)), Secret(req).aes, Bytes(16, "pin", RightPin))

BlockedBy(left, row) ==
    IF left = 0 THEN "pinBlocked" ELSE IF row = 3 THEN "pinAuthBlocked" ELSE "none"

Blocked == BlockedBy(retries, misses)

TokenFor(peer, len) == Bytes(len, "token", peer)

IssueToken(req, len) ==
    Reply("ok", "token", 0, FALSE,
          Ciphertext(len + Prefix(Secret(req)), Secret(req).aes, TokenFor(req.peer, len)))

(* The permission bit is in perms; a token without permissions may do        *)
(* everything, and one without a relying party may do it anywhere.           *)
Covers(grant, perm, rp) ==
    /\ grant.perms = 0 \/ (grant.perms \div perm) % 2 = 1
    /\ grant.rp = 0 \/ grant.rp = rp

Authorised(req) ==
    /\ tok.raw.len > 0 /\ req.proto = tok.proto
    /\ req.mac = Mac(req.proto, tok.raw, 0)
    /\ Covers(tok, req.perms, req.rp)

Misses ==
    /\ retries' = retries - 1 /\ misses' = misses + 1 /\ priv' = priv - 1
    /\ UNCHANGED <<tok, issued>>

(* It takes the oldest request; its reply reaches the caller unless the       *)
(* session has ended meanwhile.                                               *)
Req == Head(wire)

Asked(subs) == wire # << >> /\ Req.sub \in subs

Takes == wire' = Tail(wire) /\ UNCHANGED <<caller, outside>>

Respond(reply) ==
    replies' = IF Req.session = session THEN Append(replies, reply) ELSE replies

Answers(reply) == Takes /\ Respond(reply) /\ UNCHANGED authenticator

TellsRetries ==
    /\ Asked({"getPINRetries"})
    /\ Answers(Reply("ok", "retries", retries, misses = 3, NoCiphertext))

RefusesProtocol ==
    /\ Asked({"getKeyAgreement", "use"} \cup TokenSubs) /\ ~Known(Req.proto)
    /\ Answers(Refusal("parameter"))

OffersKey ==
    /\ Asked({"getKeyAgreement"}) /\ Known(Req.proto)
    /\ \E key \in {priv} \cup (IF BadKeys THEN {NoPoint} ELSE {}) :
          Answers(Reply("ok", "key", key, FALSE, NoCiphertext))

ChecksUse ==
    /\ Asked({"use"}) /\ Known(Req.proto)
    /\ Answers(IF Authorised(Req) THEN Reply("ok", "use", 0, FALSE, NoCiphertext)
               ELSE Refusal("pinAuthInvalid"))

(* Does it know this way of asking for a token? *)
Knows(req) == PinUvAuthToken \/ req.sub = "getPINToken"

RefusesToken ==
    /\ Asked(TokenSubs) /\ Known(Req.proto)
    /\ \/ ~Knows(Req) /\ Answers(Refusal("subcommand"))
       \/ Knows(Req) /\ Blocked # "none" /\ Answers(Refusal(Blocked))

JudgesPIN ==
    Asked(TokenSubs) /\ Known(Req.proto) /\ Knows(Req) /\ Blocked = "none" /\ Takes

FindsRight ==
    /\ JudgesPIN /\ Opens(Req)
    /\ retries' = MaxRetries /\ misses' = 0 /\ issued' = Req.peer
    /\ \E len \in TokenLens :
          /\ Respond(IssueToken(Req, len))
          /\ tok' = [raw |-> TokenFor(Req.peer, len), proto |-> Req.proto,
                     perms |-> Req.perms, rp |-> Req.rp]
    /\ UNCHANGED priv

FindsWrong ==
    /\ JudgesPIN /\ ~Opens(Req) /\ Misses
    /\ Respond(Refusal(LET b == BlockedBy(retries', misses') IN
                       IF b = "none" THEN "pinInvalid" ELSE b))

Authenticator ==
    \/ TellsRetries \/ RefusesProtocol \/ OffersKey \/ ChecksUse
    \/ RefusesToken \/ FindsRight \/ FindsWrong

Outside == outside < MaxOutside /\ outside' = outside + 1

(* Another program tries a PIN, or obtains a token of its own. *)
OtherMisses == Outside /\ Blocked = "none" /\ Misses /\ UNCHANGED <<caller, wire, replies>>

OtherToken ==
    /\ Outside /\ Blocked = "none"
    /\ retries' = MaxRetries /\ misses' = 0
    /\ tok' = [raw |-> TokenFor(-outside', 32), proto |-> PINProtocolOne, perms |-> 0, rp |-> 0]
    /\ UNCHANGED <<caller, wire, replies, priv, issued>>

(* A token lasts for a while. *)
TokenExpires ==
    /\ Outside /\ tok # NoGrant /\ tok' = NoGrant
    /\ UNCHANGED <<caller, wire, replies, counters, priv, issued>>

----------------------------------------------------------------------------
(***************************************************************************)
(* Calls: what each does up to its (first) request.                        *)
(***************************************************************************)
Begin(op, pin, proto, perms, rp) ==
    /\ pc = "idle" /\ calls < MaxCalls
    /\ calls' = calls + 1
    /\ call' = [op |-> op, pin |-> pin, proto |-> proto, perms |-> perms, rp |-> rp,
                n |-> calls', at |-> outside]
    /\ UNCHANGED <<keys, token, timeouts, session, replies, authenticator, outside>>

Sends(req, waitFor) == wire' = Append(wire, req) /\ pc' = waitFor /\ last' = NoResult

PINRetries ==
    /\ Begin("PINRetries", 0, PINProtocolOne, 0, 0)
    /\ Sends(Request("getPINRetries", PINProtocolOne), "retries")

KeyAgreement(proto) ==
    /\ Begin("KeyAgreement", 0, proto, 0, 0)
    /\ Sends(Request("getKeyAgreement", proto), "key")

PINToken(pin, proto, perms, rp) ==
    /\ Begin("PINToken", pin, proto, perms, rp)
    /\ IF pin = 0
       THEN last' = Result("PINToken", "empty", 0, FALSE) /\ UNCHANGED <<pc, wire>>
       ELSE Sends(Request("getKeyAgreement", proto), "key")

(* Mutant: every HMAC is truncated. *)
authParamShort(t) == Mac(PINProtocolOne, t.raw, 0)

(* Token.authParam over the client data hash. *)
authParam(t) == Mac(Protocol(t), t.raw, 0)

(* MakeCredential or GetAssertion with a valid token. *)
UseToken(perm, rp) ==
    /\ Valid(token)
    /\ Begin("Use", 0, Protocol(token), perm, rp)
    /\ Sends([sub |-> "use", proto |-> Protocol(token), session |-> session, peer |-> 0,
              hash |-> NoCiphertext, perms |-> perm, rp |-> rp, mac |-> authParam(token),
              at |-> 0], "use")

----------------------------------------------------------------------------
(***************************************************************************)
(* Reading the reply.                                                      *)
(***************************************************************************)
(* Mutant: the two sentences are swapped. *)
adviceSwapped(status) ==
    CASE status = "pinBlocked"     -> "unplug"
      [] status = "pinAuthBlocked" -> "reset"
      [] status = "pinInvalid"     -> "another PIN"
      [] OTHER                     -> "none"

(* What a status tells the person to do. *)
advice(status) ==
    CASE status = "pinBlocked"     -> "reset"
      [] status = "pinAuthBlocked" -> "unplug"
      [] status = "pinInvalid"     -> "another PIN"
      [] OTHER                     -> "none"

Ends(err, val, cycle) ==
    /\ pc' = "idle" /\ keys' = NoKeys /\ last' = Result(call.op, err, val, cycle)
    /\ UNCHANGED wire

Fails(err) == Ends(err, 0, FALSE)

Got == Head(replies)

Reading ==
    /\ pc # "idle" /\ replies # << >>
    /\ replies' = Tail(replies)
    /\ UNCHANGED <<call, calls, timeouts, session, authenticator, outside>>

(* CBOR's status check, field's lookup of the member, and coseToECDH. *)
ReplyError ==
    IF Got.status # "ok" THEN Got.status
    ELSE IF Got.member # pc THEN "missing"
    ELSE IF pc = "key" /\ Got.val = NoPoint THEN "point"
    ELSE "none"

(* Mutant: a PIN that was found wrong is offered again. *)
BadReplyAgain ==
    /\ Reading /\ ReplyError # "none"
    /\ IF Got.status = "pinInvalid"
       THEN Sends(Request("getKeyAgreement", call.proto), "key") /\ UNCHANGED keys
       ELSE Fails(ReplyError)
    /\ UNCHANGED token

BadReply ==
    /\ Reading /\ ReplyError # "none"
    /\ Fails(ReplyError)
    /\ UNCHANGED token

GoodReply == Reading /\ ReplyError = "none"

(* Mutant: the power-cycle state is dropped. *)
PlainReturnsCount ==
    /\ GoodReply /\ call.op \in {"PINRetries", "KeyAgreement", "Use"}
    /\ Ends("none", Got.val, FALSE)
    /\ UNCHANGED token

(* The calls of one request return what the reply says. *)
PlainReturns ==
    /\ GoodReply /\ call.op \in {"PINRetries", "KeyAgreement", "Use"}
    /\ Ends("none", Got.val, Got.cycle)
    /\ UNCHANGED token

(* Mutant: the secret behind the last token is used again. *)
ExchangeOnce ==
    IF Protocol(token) = call.proto THEN [err |-> "none", keys |-> token.keys]
    ELSE agree(call.proto, calls, Got.val)

(* The exchange with the authenticator's key; the platform key is new. *)
Exchange == agree(call.proto, calls, Got.val)

(* PINToken has the authenticator's key: agree, hash, and ask for the token. *)
Agreed ==
    /\ GoodReply /\ call.op = "PINToken" /\ pc = "key"
    /\ LET hash == pinHash(Exchange.keys, call.pin) IN
       IF Exchange.err # "none" THEN Fails(Exchange.err)
       ELSE IF hash.err # "none" THEN Fails(hash.err)
       ELSE keys' = Exchange.keys /\ Sends(TokenRequest(calls, hash.out), "token")
    /\ UNCHANGED token

TokenReturns ==
    /\ GoodReply /\ pc = "token"
    /\ LET plain == decrypt(keys, Got.cipher) IN
       IF plain.err # "none" THEN Fails(plain.err) /\ UNCHANGED token
       ELSE IF ~TokenLength(call.proto, plain.out.len) THEN Fails("length") /\ UNCHANGED token
       ELSE /\ Ends("none", 0, FALSE)
            /\ token' = [keys |-> keys, raw |-> plain.out, asked |-> call]

(* The context ended.  A caller that then closes the Key and opens the device *)
(* again never sees the late reply; one that does not reads it as the answer  *)
(* to its next call.                                                          *)
GivesUp ==
    /\ pc # "idle" /\ timeouts < MaxTimeouts
    /\ timeouts' = timeouts + 1
    /\ Fails("receive")
    /\ IF KeepsKey THEN UNCHANGED <<session, replies>>
       ELSE session' = session + 1 /\ replies' = << >>
    /\ UNCHANGED <<call, token, calls, authenticator, outside>>

(* The key is unplugged and plugged in again: a call under way fails in       *)
(* Receive, and the device has to be opened again.                            *)
Replug ==
    /\ Outside /\ session' = session + 1
    /\ wire' = << >> /\ replies' = << >>
    /\ IF pc = "idle" THEN UNCHANGED last
       ELSE last' = Result(call.op, "receive", 0, FALSE)
    /\ pc' = "idle" /\ keys' = NoKeys
    /\ misses' = 0 /\ priv' = priv - 1 /\ tok' = NoGrant
    /\ UNCHANGED <<call, token, calls, timeouts, retries, issued>>

Next ==
    \/ PINRetries
    \/ \E proto \in Protocols : KeyAgreement(proto)
    \/ \E pin \in Pins, proto \in Protocols, perms \in PermSets, rp \in TokenRPs :
          PINToken(pin, proto, perms, rp)
    \/ \E perm \in {PermMakeCredential, PermGetAssertion}, rp \in UseRPs : UseToken(perm, rp)
    \/ BadReply \/ PlainReturns \/ Agreed \/ TokenReturns \/ GivesUp
    \/ Authenticator \/ OtherMisses \/ OtherToken \/ TokenExpires \/ Replug

Spec == Init /\ [][Next]_vars

----------------------------------------------------------------------------
TypeOK ==
    /\ pc \in {"idle", "retries", "key", "token", "use"}
    /\ call.op \in {"none", "PINRetries", "KeyAgreement", "PINToken", "Use"}
    /\ keys.proto \in {0, 1, 2} /\ Protocol(token) \in {0, 1, 2}
    /\ retries \in 0 .. MaxRetries /\ misses \in 0 .. 3
    /\ calls \in 0 .. MaxCalls /\ timeouts \in 0 .. MaxTimeouts /\ outside \in 0 .. MaxOutside
    /\ token.raw.len \in {0, 32} \cup (IF Protocol(token) = PINProtocolOne THEN {16} ELSE {})

Returned(op) == pc = "idle" /\ last.op = op /\ last.err = "none"

(* A right PIN costs an attempt only when something happened to the           *)
(* authenticator outside this program while the call was under way: PINToken  *)
(* asks for the key to agree on each time, so a key that changed before, by a *)
(* wrong PIN or a call that was given up, is never used again.                *)
RightPINIsFree ==
    [][retries' < retries =>
         \/ outside' > outside \/ outside > Head(wire).at
         \/ \E pin \in Pins \ {0, RightPin} : Head(wire).hash.plain = Bytes(16, "pin", pin)]_vars

(* What a call's token is good for: everything when it asked for no permissions. *)
Scope(asked) == [perms |-> asked.perms, rp |-> IF asked.perms = 0 THEN 0 ELSE asked.rp]

(* PINToken returns the token that the authenticator made for this exchange,  *)
(* with the protocol, the permissions and the relying party asked for; never  *)
(* bytes that are not a token.                                                *)
TokenOfThisExchange ==
    Returned("PINToken") =>
        /\ token.raw.what = "token" /\ token.raw.of = calls /\ Protocol(token) = call.proto
        /\ token.raw = tok.raw =>
              tok.proto = call.proto /\ tok.perms = call.perms /\ tok.rp = Scope(call).rp

(* What the authenticator lets through is what the token's PINToken was asked *)
(* for, and it turns down nothing else while it knows the token: a token is   *)
(* paired with its protocol, and keys the HMAC itself.                        *)
TokenAuthorises ==
    pc = "idle" /\ last.op = "Use" =>
        /\ last.err = "none" => Covers(Scope(token.asked), call.perms, call.rp)
        /\ last.err = "pinAuthInvalid" =>
              token.raw # tok.raw \/ ~Covers(Scope(token.asked), call.perms, call.rp)

(* What PINRetries returns is the count at that moment, unless it changed     *)
(* outside this program, so that a prompt is never unknowingly the last one.  *)
RetriesAreCurrent ==
    Returned("PINRetries") /\ outside = call.at =>
        last.val = retries /\ last.cycle = (misses = 3)

(* A person is told to reset the key, which erases its credentials, only when *)
(* no attempt is left, and to unplug it only when that lets the next PIN be   *)
(* looked at (statusNames).                                                   *)
AdviceHelps ==
    [][pc # "idle" /\ pc' = "idle" =>
         /\ advice(last'.err) = "reset" => retries = 0
         /\ advice(last'.err) = "unplug" => retries > 0 /\ misses = 3]_vars

(* One prompt, one attempt, and a token only for a PIN that was found right:  *)
(* PINToken implements PinPrompt.                                             *)
Prompts == {i \in DOMAIN wire : wire[i].sub \in TokenSubs}

PP == INSTANCE PinPrompt WITH
    now     <- calls,
    typed   <- IF pc # "idle" /\ call.op = "PINToken" THEN call.pin ELSE 0,
    offered <- {[prompt |-> wire[i].peer, pin |-> wire[i].hash.plain.of] : i \in Prompts},
    spent   <- pc = "token",
    left    <- retries,
    right   <- issued,
    granted <- token.asked.n

OneAttemptEach == PP!Spec

(* An authenticator that does not list "pinUvAuthToken" is asked the CTAP 2.0 *)
(* way (PINToken).                                                            *)
AskedItsWay ==
    \A i \in DOMAIN wire : wire[i].sub = "getTokenUsingPIN" => PinUvAuthToken

(* An unimplemented protocol given to PINToken never reaches the wire (the    *)
(* test of PINToken says so).                                                 *)
OnlyImplementedSent ==
    pc # "idle" /\ call.op = "PINToken" => \A i \in DOMAIN wire : Known(wire[i].proto)
============================================================================
