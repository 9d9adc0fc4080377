-------------------------- MODULE ClientPINProofs --------------------------
(***************************************************************************)
(* What the PIN exchange keeps under every interleaving with the           *)
(* authenticator, other programs, expiry and the plug, for a caller who    *)
(* opens the device again after a call that was given up.                  *)
(*                                                                         *)
(* The invariant says that such a caller never has two requests under way, *)
(* and what the oldest request, the reply that waits and the token that is *)
(* kept each know of the authenticator as it is now.                       *)
(***************************************************************************)
EXTENDS ClientPIN, SequenceTheorems, TLAPS

IsSeq(s) == \E S : s \in Seq(S)

Shared(req, p) == deriveKeys(req.proto, ECDH(req.peer, p)).keys

Counters == retries \in 0 .. MaxRetries /\ outside \in Nat /\ calls \in Nat /\ session \in Nat

Calling ==
    /\ pc \in {"idle", "retries", "key", "token", "use"}
    /\ call.at \in Nat /\ call.at <= outside
    /\ pc # "idle" => call.n = calls /\ token.asked.n < calls /\ last = NoResult
    /\ pc = "retries" => call.op = "PINRetries"
    /\ pc = "key" => call.op \in {"KeyAgreement", "PINToken"}
    /\ pc = "token" => call.op = "PINToken" /\ keys.proto = call.proto /\ Known(call.proto)
    /\ pc = "use" => call.op = "Use" /\ Valid(token)
    /\ pc # "idle" /\ call.op = "PINToken" => call.pin \in Pins \ {0}

(* Requests of an earlier session are followed by at most one of this one,   *)
(* and a reply waits only when all of them were handled.                     *)
OneAtATime ==
    /\ IsSeq(wire) /\ IsSeq(replies)
    /\ \A i \in 1 .. Len(wire) :
          /\ wire[i].session \in Nat /\ wire[i].session <= session
          /\ wire[i].session = session => i = Len(wire) /\ pc # "idle" /\ replies = << >>
    /\ replies # << >> => wire = << >> /\ pc # "idle" /\ Len(replies) = 1
    /\ pc = "idle" /\ last.op # "none" /\ last.err \notin {"receive", "empty"} => wire = << >>

(* The request of this session is the one the call waits for. *)
Asking ==
    \A i \in 1 .. Len(wire) : wire[i].session = session =>
        /\ wire[i].sub \in {"getPINRetries", "getKeyAgreement", "use"} \cup TokenSubs
        /\ wire[i].sub = "getPINRetries" => pc = "retries"
        /\ wire[i].sub = "getKeyAgreement" => pc = "key"
        /\ wire[i].sub = "use" =>
              /\ pc = "use" /\ wire[i].proto = Protocol(token) /\ wire[i].mac = authParam(token)
              /\ wire[i].perms = call.perms /\ wire[i].rp = call.rp
        /\ wire[i].sub \in TokenSubs =>
              /\ pc = "token" /\ wire[i].peer = calls /\ wire[i].proto = call.proto
              /\ wire[i].perms = call.perms /\ wire[i].rp = Scope(call).rp
              /\ wire[i].hash.key = keys.aes

(* A PIN was hidden under the authenticator's key, which changes before the   *)
(* PIN is judged only by something outside this program: the request was made *)
(* when there was no other.                                                   *)
Offering ==
    \A i \in 1 .. Len(wire) : wire[i].sub \in TokenSubs =>
        /\ i = 1 /\ Known(wire[i].proto)
        /\ wire[i].peer \in Nat /\ token.asked.n < wire[i].peer /\ wire[i].peer <= calls
        /\ wire[i].at \in Nat /\ wire[i].at <= outside
        /\ \E pin, p :
              /\ pin \in Pins \ {0}
              /\ wire[i].hash = Ciphertext(16 + Prefix(Shared(wire[i], p)),
                                           Shared(wire[i], p).aes, Bytes(16, "pin", pin))
              /\ p = priv \/ outside > wire[i].at

(* The authenticator's token, where it is the one this call asked for. *)
Fits(asked) == tok.proto = asked.proto /\ tok.perms = asked.perms /\ tok.rp = Scope(asked).rp

Holding ==
    /\ token.asked.n \in Nat /\ token.asked.n <= calls
    /\ Valid(token) =>
          /\ token.asked.n > 0 /\ token.raw = TokenFor(token.asked.n, token.raw.len)
          /\ Protocol(token) = token.asked.proto
          /\ tok.raw = token.raw => Fits(token.asked)

InScope == Covers(Scope(token.asked), call.perms, call.rp)

(* What a reply says is still so. *)
StillSo(r) ==
    /\ r.status \in {"ok", "parameter", "subcommand", "pinBlocked", "pinAuthBlocked",
                     "pinInvalid", "pinAuthInvalid"}
    /\ r.status = "pinBlocked" => retries = 0
    /\ r.status = "pinAuthBlocked" => retries > 0 /\ misses = 3
    /\ r.status = "pinAuthInvalid" => pc = "use" /\ (token.raw # tok.raw \/ ~InScope)
    /\ r.status = "ok" =>
          /\ pc = "retries" /\ outside = call.at => r.val = retries /\ r.cycle = (misses = 3)
          /\ pc = "key" => r.val \in {priv, NoPoint} \/ outside > call.at
          /\ pc = "use" => InScope
          /\ pc = "token" =>
                /\ issued = calls
                /\ \E len \in TokenLens :
                      /\ r.cipher = Ciphertext(len + Prefix(keys), keys.aes, TokenFor(calls, len))
                      /\ tok.raw = TokenFor(calls, len) => Fits(call)

Replied == replies # << >> => StillSo(Got)

Returning ==
    /\ Returned("PINToken") => Valid(token) /\ token.asked = call /\ call.n = calls
    /\ pc = "idle" /\ last.op = "Use" => Valid(token)
    /\ TokenAuthorises /\ RetriesAreCurrent

IInv ==
    /\ Counters /\ Calling /\ OneAtATime /\ Asking /\ Offering
    /\ Holding /\ Replied /\ Returning

----------------------------------------------------------------------------
(* Append, Tail and the empty sequence, without naming a set of elements. *)
LEMMA AppendIs ==
    ASSUME NEW s, NEW e, IsSeq(s)
    PROVE  /\ IsSeq(Append(s, e)) /\ Len(s) \in Nat /\ Len(Append(s, e)) = Len(s) + 1
           /\ \A i \in 1 .. Len(s) : Append(s, e)[i] = s[i]
           /\ Append(s, e)[Len(s) + 1] = e /\ Append(s, e) # << >>
           /\ s = << >> => Head(Append(s, e)) = e /\ Len(Append(s, e)) = 1
<1>1. PICK S : s \in Seq(S)
  BY DEF IsSeq
<1>2. s \in Seq(S \cup {e}) /\ e \in S \cup {e}
  BY <1>1
<1>3. Append(s, e) \in Seq(S \cup {e})
  BY <1>2
<1>4. QED
  BY <1>2, <1>3 DEF IsSeq

LEMMA TailIs ==
    ASSUME NEW s, IsSeq(s), s # << >>
    PROVE  /\ IsSeq(Tail(s)) /\ Len(s) \in Nat /\ Len(s) > 0 /\ Len(Tail(s)) = Len(s) - 1
           /\ \A i \in 1 .. Len(s) - 1 : Tail(s)[i] = s[i + 1]
           /\ Head(s) = s[1] /\ (Tail(s) = << >> <=> Len(s) = 1)
<1>1. PICK S : s \in Seq(S)
  BY DEF IsSeq
<1>2. Tail(s) \in Seq(S) /\ Len(s) \in Nat /\ Len(s) > 0 /\ Len(Tail(s)) = Len(s) - 1
  BY <1>1
<1>3. Tail(s) = << >> <=> Len(Tail(s)) = 0
  BY <1>2
<1>4. QED
  BY <1>1, <1>2, <1>3 DEF IsSeq

LEMMA EmptyIs == IsSeq(<< >>) /\ Len(<< >>) = 0 /\ \A s : IsSeq(s) /\ Len(s) = 0 => s = << >>
<1>1. << >> \in Seq({})
  OBVIOUS
<1>2. QED
  BY <1>1 DEF IsSeq

LEMMA Start == ASSUME ClientPINAssumption, Init PROVE IInv
<1>1. Counters /\ outside = 0 /\ calls = 0
  BY DEF ClientPINAssumption, Init, Counters
<1>2. Calling
  BY DEF Init, Calling, NoCall
<1>3. OneAtATime
  BY EmptyIs DEF Init, OneAtATime
<1>4. Asking /\ Offering /\ Replied
  BY EmptyIs DEF Init, Asking, Offering, Replied
<1>5. Holding
  BY DEF Init, Holding, NoToken, NoCall, Valid, Noise, Bytes
<1>6. Returning
  BY DEF Init, Returning, Returned, NoResult, Result, TokenAuthorises, RetriesAreCurrent
<1>7. QED
  BY <1>1, <1>2, <1>3, <1>4, <1>5, <1>6 DEF IInv

----------------------------------------------------------------------------
(* A call that begins with a request. *)
LEMMA BeginKeeps ==
    ASSUME IInv, NEW op, NEW pin, NEW proto, NEW perms, NEW rp, NEW req, NEW waitFor,
           Begin(op, pin, proto, perms, rp), Sends(req, waitFor),
           req.session = session,
           \/ req.sub = "getPINRetries" /\ waitFor = "retries" /\ op = "PINRetries"
           \/ req.sub = "getKeyAgreement" /\ waitFor = "key" /\ op = "KeyAgreement"
           \/ req.sub = "getKeyAgreement" /\ waitFor = "key" /\ op = "PINToken" /\ pin \in Pins \ {0}
           \/ /\ req.sub = "use" /\ waitFor = "use" /\ op = "Use" /\ Valid(token)
              /\ req.proto = Protocol(token) /\ req.mac = authParam(token)
              /\ req.perms = perms /\ req.rp = rp
    PROVE  IInv'
<1>1. /\ pc = "idle" /\ pc' = waitFor /\ pc' # "idle" /\ replies = << >> /\ replies' = << >>
      /\ calls' = calls + 1 /\ last' = NoResult
      /\ call' = [op |-> op, pin |-> pin, proto |-> proto, perms |-> perms, rp |-> rp,
                  n |-> calls', at |-> outside]
      /\ wire' = Append(wire, req)
      /\ UNCHANGED <<keys, token, timeouts, session, retries, misses, priv, tok, issued, outside>>
  BY DEF IInv, OneAtATime, Begin, Sends, authenticator
<1>2. /\ call'.op = op /\ call'.pin = pin /\ call'.perms = perms /\ call'.rp = rp
      /\ call'.n = calls' /\ call'.at = outside
  BY <1>1
<1>3. /\ IsSeq(wire') /\ Len(wire) \in Nat /\ Len(wire') = Len(wire) + 1
      /\ \A i \in 1 .. Len(wire) : wire'[i] = wire[i]
      /\ wire'[Len(wire) + 1] = req
  BY <1>1, AppendIs DEF IInv, OneAtATime
<1>4. Counters'
  BY <1>1 DEF IInv, Counters
<1>5. Calling'
  BY <1>1, <1>2 DEF IInv, Calling, Counters, Holding, Valid
<1>6. OneAtATime'
  BY <1>1, <1>3, EmptyIs DEF IInv, OneAtATime, Counters
<1>7. Asking'
  <2> SUFFICES ASSUME NEW i \in 1 .. Len(wire'), wire'[i].session = session
               PROVE  Asking!(i)!2'
    BY <1>1 DEF Asking
  <2>1. i = Len(wire) + 1 /\ wire'[i] = req
    BY <1>1, <1>3 DEF IInv, OneAtATime
  <2>2. QED
    BY <1>1, <1>2, <2>1 DEF TokenSubs, Protocol, authParam
<1>8. Offering'
  <2> SUFFICES ASSUME NEW i \in 1 .. Len(wire'), wire'[i].sub \in TokenSubs
               PROVE  Offering!(i)!2'
    BY DEF Offering
  <2>1. i \in 1 .. Len(wire) /\ wire'[i] = wire[i]
    BY <1>3 DEF TokenSubs
  <2>2. Offering!(i)!2
    BY <2>1 DEF IInv, Offering
  <2>3. calls \in Nat /\ calls' = calls + 1
    BY <1>1 DEF IInv, Counters
  <2>4. QED
    BY <1>1, <2>1, <2>2, <2>3 DEF Shared
<1>9. Holding'
  BY <1>1 DEF IInv, Holding, Counters, Valid, Fits, Scope, Protocol
<1>10. Replied'
  BY <1>1 DEF Replied
<1>11. Returning'
  BY <1>1 DEF Returning, Returned, TokenAuthorises, RetriesAreCurrent
<1>12. QED
  BY <1>4, <1>5, <1>6, <1>7, <1>8, <1>9, <1>10, <1>11 DEF IInv

----------------------------------------------------------------------------
(* Another program, or the time that passes: the authenticator changes, and   *)
(* what was said about it was said before.  Only a PIN that is not blocked is *)
(* looked at.                                                                 *)
LEMMA OutsideKeeps ==
    ASSUME ClientPINAssumption, IInv, outside' = outside + 1, UNCHANGED <<caller, wire, replies, issued>>,
           retries' \in 0 .. MaxRetries, tok'.raw # token.raw \/ tok' = tok \/ ~Valid(token),
           pc = "token" => \A len \in TokenLens : tok'.raw # TokenFor(calls, len) \/ tok' = tok,
           (retries = 0 \/ misses = 3) => UNCHANGED counters,
           pc = "use" \/ (pc = "idle" /\ last.op = "Use") => tok'.raw # token.raw \/ tok' = tok
    PROVE  IInv'
<1>1. /\ UNCHANGED <<pc, call, keys, token, last, calls, timeouts, session, wire, replies, issued>>
      /\ UNCHANGED Got
  BY DEF caller, Got
<1>2. Counters' /\ outside < outside'
  BY <1>1 DEF IInv, Counters
<1>3. Calling'
  BY <1>1, <1>2 DEF IInv, Calling, Counters, Valid
<1>4. OneAtATime'
  BY <1>1 DEF IInv, OneAtATime
<1>5. Asking'
  BY <1>1 DEF IInv, Asking, Protocol, authParam, Scope
<1>6. Offering'
  BY <1>1, <1>2 DEF IInv, Offering, Counters, Shared
<1>7. Holding'
  BY <1>1 DEF IInv, Holding, Valid, Fits, Scope, Protocol
<1>8. InScope' <=> InScope
  BY <1>1 DEF InScope, Scope
<1>9. Replied'
  <2> SUFFICES ASSUME replies' # << >> PROVE StillSo(Got)'
    BY DEF Replied
  <2>1. pc # "idle" /\ call.at <= outside /\ call.at \in Nat
    BY <1>1 DEF IInv, OneAtATime, Calling
  <2>2. outside' > call.at /\ outside' # call.at
    BY <2>1, <1>2 DEF IInv, Counters
  <2>3. StillSo(Got)
    BY <1>1 DEF IInv, Replied, caller
  <2>4. /\ Got.status = "pinBlocked" => retries' = 0
        /\ Got.status = "pinAuthBlocked" => retries' > 0 /\ misses' = 3
    BY <2>3 DEF counters, StillSo
  <2>5. Got.status = "pinAuthInvalid" => pc = "use" /\ (token.raw # tok'.raw \/ ~InScope)
    BY <2>3 DEF StillSo
  <2>6. ASSUME Got.status = "ok", pc = "token"
        PROVE  /\ issued = calls
               /\ \E len \in TokenLens :
                     /\ Got.cipher = Ciphertext(len + Prefix(keys), keys.aes, TokenFor(calls, len))
                     /\ tok'.raw = TokenFor(calls, len) => Fits(call)'
    <3>1. PICK len \in TokenLens :
             /\ Got.cipher = Ciphertext(len + Prefix(keys), keys.aes, TokenFor(calls, len))
             /\ tok.raw = TokenFor(calls, len) => Fits(call)
      BY <2>3, <2>6 DEF StillSo
    <3>2. tok'.raw = TokenFor(calls, len) => Fits(call)'
      BY <1>1, <2>6, <3>1 DEF Fits, Scope
    <3>3. QED
      BY <2>3, <2>6, <3>1, <3>2 DEF StillSo
  <2>7. QED
    BY <1>1, <1>8, <2>2, <2>3, <2>4, <2>5, <2>6 DEF StillSo
<1>10. Returning'
  <2>1. RetriesAreCurrent'
    BY <1>1, <1>2 DEF IInv, Calling, Counters, RetriesAreCurrent
  <2>2. TokenAuthorises'
    BY <1>1, <1>8 DEF IInv, Returning, TokenAuthorises, InScope
  <2>3. QED
    BY <1>1, <2>1, <2>2 DEF IInv, Returning, Returned, Valid
<1>11. QED
  BY <1>2, <1>3, <1>4, <1>5, <1>6, <1>7, <1>9, <1>10 DEF IInv

LEMMA OtherMissesKeeps == ASSUME ClientPINAssumption, IInv, OtherMisses PROVE IInv'
<1>1. /\ retries # 0 /\ misses # 3 /\ retries' = retries - 1 /\ outside' = outside + 1
      /\ UNCHANGED <<caller, wire, replies, tok, issued>>
  BY DEF OtherMisses, Outside, Blocked, BlockedBy, Misses
<1>2. retries' \in 0 .. MaxRetries
  BY <1>1 DEF IInv, Counters
<1>3. QED
  BY <1>1, <1>2, OutsideKeeps

(* No token of this caller's is numbered below zero. *)
LEMMA OtherTokenKeeps == ASSUME ClientPINAssumption, IInv, OtherToken PROVE IInv'
<1>1. /\ retries # 0 /\ misses # 3 /\ retries' = MaxRetries /\ outside' = outside + 1
      /\ tok'.raw = TokenFor(-outside', 32) /\ tok'.raw.of = -outside'
      /\ UNCHANGED <<caller, wire, replies, issued>>
  BY DEF OtherToken, Outside, Blocked, BlockedBy, TokenFor, Bytes
<1>2. retries' \in 0 .. MaxRetries
  BY <1>1 DEF ClientPINAssumption
<1>3. -outside' < 0
  BY <1>1 DEF IInv, Counters
<1>4. Valid(token) => tok'.raw # token.raw
  <2>1. ASSUME Valid(token) PROVE token.raw.of = token.asked.n /\ token.asked.n > 0 /\ token.asked.n \in Nat
    BY <2>1 DEF IInv, Holding, TokenFor, Bytes
  <2>2. QED
    BY <1>1, <1>3, <2>1
<1>5. ASSUME NEW len \in TokenLens PROVE tok'.raw # TokenFor(calls, len)
  <2>1. TokenFor(calls, len).of = calls /\ calls \in Nat
    BY DEF TokenFor, Bytes, IInv, Counters
  <2>2. QED
    BY <1>1, <1>3, <2>1
<1>6. pc = "use" \/ (pc = "idle" /\ last.op = "Use") => Valid(token)
  BY DEF IInv, Calling, Returning
<1>7. QED
  BY <1>1, <1>2, <1>4, <1>5, <1>6, OutsideKeeps

LEMMA TokenExpiresKeeps == ASSUME ClientPINAssumption, IInv, TokenExpires PROVE IInv'
<1>1. /\ UNCHANGED <<caller, wire, replies, issued>> /\ UNCHANGED counters /\ retries' = retries
      /\ outside' = outside + 1 /\ tok'.raw.what = "noise"
  BY DEF TokenExpires, Outside, counters, NoGrant, Noise, Bytes
<1>2. retries' \in 0 .. MaxRetries
  BY <1>1 DEF IInv, Counters
<1>3. Valid(token) => token.raw.what = "token"
  BY DEF IInv, Holding, TokenFor, Bytes
<1>4. \A len \in TokenLens : TokenFor(calls, len).what = "token"
  BY DEF TokenFor, Bytes
<1>5. pc = "use" \/ (pc = "idle" /\ last.op = "Use") => Valid(token)
  BY DEF IInv, Calling, Returning
<1>6. QED
  BY <1>1, <1>2, <1>3, <1>4, <1>5, OutsideKeeps

----------------------------------------------------------------------------
(* The oldest request is taken, with whatever the reply to the call would be. *)
LEMMA TakesKeeps ==
    ASSUME IInv, wire # << >>, Takes
    PROVE  /\ Calling' /\ Asking' /\ Offering' /\ Prompts' = {}
           /\ IsSeq(wire') /\ Req = wire[1] /\ Len(wire) \in Nat /\ Len(wire) > 0
           /\ \A i \in 1 .. Len(wire') : i + 1 \in 1 .. Len(wire) /\ wire'[i] = wire[i + 1]
           /\ Req.session = session => wire' = << >> /\ pc # "idle" /\ replies = << >>
<1>1. /\ UNCHANGED <<pc, call, keys, token, last, calls, timeouts, session>>
      /\ outside' = outside /\ wire' = Tail(wire)
  BY DEF Takes, caller
<1>2. /\ IsSeq(wire') /\ Req = wire[1] /\ Len(wire) \in Nat /\ Len(wire) > 0
      /\ Len(wire') = Len(wire) - 1
      /\ \A i \in 1 .. Len(wire') : i + 1 \in 1 .. Len(wire) /\ wire'[i] = wire[i + 1] /\ i + 1 # 1
      /\ wire' = << >> <=> Len(wire) = 1
  BY <1>1, TailIs DEF IInv, OneAtATime, Req
<1>3. Calling'
  BY <1>1 DEF IInv, Calling, Valid
<1>4. Asking'
  BY <1>1, <1>2 DEF IInv, Asking, Protocol, authParam, Scope
<1>5. \A i \in 1 .. Len(wire') : wire'[i].sub \notin TokenSubs
  BY <1>2 DEF IInv, Offering
<1>6. Offering'
  BY <1>5 DEF Offering, TokenSubs
<1>7. DOMAIN wire' = 1 .. Len(wire')
  BY <1>2 DEF IsSeq
<1>8. Prompts' = {}
  BY <1>5, <1>7 DEF Prompts, TokenSubs
<1>9. Req.session = session => wire' = << >> /\ pc # "idle" /\ replies = << >>
  BY <1>2 DEF IInv, OneAtATime
<1>10. QED
  BY <1>2, <1>3, <1>4, <1>6, <1>8, <1>9

(* And the reply says what is so when it is made. *)
LEMMA RespondKeeps ==
    ASSUME IInv, wire # << >>, Takes, NEW reply, Respond(reply),
           retries' \in 0 .. MaxRetries, Holding', Req.session = session => StillSo(reply)'
    PROVE  IInv'
<1>1. /\ UNCHANGED <<pc, call, keys, token, last, calls, timeouts, session>> /\ outside' = outside
      /\ replies = << >> /\ replies' = IF Req.session = session THEN Append(replies, reply) ELSE replies
  BY DEF Takes, caller, Respond, IInv, OneAtATime
<1>2. /\ Calling' /\ Asking' /\ Offering'
      /\ IsSeq(wire') /\ Len(wire) \in Nat /\ Len(wire) > 0
      /\ \A i \in 1 .. Len(wire') : i + 1 \in 1 .. Len(wire) /\ wire'[i] = wire[i + 1]
      /\ Req.session = session => wire' = << >> /\ pc # "idle"
  BY TakesKeeps
<1>3. Len(wire') = Len(wire) - 1
  BY TailIs DEF Takes, IInv, OneAtATime
<1>4. /\ IsSeq(replies')
      /\ replies' # << >> => Req.session = session /\ Len(replies') = 1 /\ Got' = reply
  BY <1>1, AppendIs DEF IInv, OneAtATime, Got
<1>5. Counters'
  BY <1>1 DEF IInv, Counters
<1>6. OneAtATime'
  BY <1>1, <1>2, <1>3, <1>4, EmptyIs DEF IInv, OneAtATime
<1>7. Replied'
  BY <1>1, <1>4 DEF Replied
<1>8. pc = "idle" => last.op = "none" \/ last.err \in {"receive", "empty"}
  BY DEF IInv, OneAtATime
<1>9. Returning'
  BY <1>1, <1>8 DEF IInv, Returning, Returned, TokenAuthorises, RetriesAreCurrent, Valid
<1>10. QED
  BY <1>2, <1>5, <1>6, <1>7, <1>9 DEF IInv

LEMMA AnswersKeep ==
    ASSUME IInv, wire # << >>, NEW reply, Answers(reply), Req.session = session => StillSo(reply)
    PROVE  IInv'
<1>1. /\ UNCHANGED <<pc, call, keys, token, last, calls, timeouts, session>> /\ outside' = outside
      /\ UNCHANGED <<retries, misses, priv, tok, issued>>
      /\ Takes /\ Respond(reply)
  BY DEF Answers, Takes, caller, authenticator
<1>2. retries' \in 0 .. MaxRetries
  BY <1>1 DEF IInv, Counters
<1>3. Holding'
  BY <1>1 DEF IInv, Holding, Valid, Fits, Scope, Protocol
<1>4. Req.session = session => StillSo(reply)'
  BY <1>1 DEF StillSo, InScope, Fits, Scope
<1>5. QED
  BY <1>1, <1>2, <1>3, <1>4, RespondKeeps

----------------------------------------------------------------------------
(* The authenticator's steps. *)
LEMMA FirstRequest ==
    ASSUME IInv, wire # << >>
    PROVE  /\ Req = wire[1] /\ 1 \in 1 .. Len(wire)
           /\ Req.session = session => Asking!(1)!2
           /\ Req.sub \in TokenSubs => Offering!(1)!2
<1>1. Req = wire[1] /\ Len(wire) \in Nat /\ Len(wire) > 0
  BY TailIs DEF IInv, OneAtATime, Req
<1>2. QED
  BY <1>1 DEF IInv, Asking, Offering

(* A refusal of the protocol or of the subcommand says nothing. *)
LEMMA RefusalSaysNothing ==
    ASSUME NEW status \in {"parameter", "subcommand"}
    PROVE  StillSo(Refusal(status))
BY DEF StillSo, Refusal, Reply

LEMMA TellsRetriesKeeps == ASSUME IInv, TellsRetries PROVE IInv'
<1> DEFINE cycle == misses = 3
           reply == Reply("ok", "retries", retries, cycle, NoCiphertext)
<1>1. wire # << >> /\ Req.sub = "getPINRetries" /\ Answers(reply)
  BY DEF TellsRetries, Asked
<1>2. reply.status = "ok" /\ reply.val = retries /\ reply.cycle = cycle
  BY DEF Reply
<1>3. Req.session = session => pc = "retries"
  BY <1>1, FirstRequest
<1>4. Req.session = session => StillSo(reply)
  <2> HIDE DEF reply
  <2> QED
    BY <1>2, <1>3 DEF StillSo
<1> HIDE DEF reply
<1>5. QED
  BY <1>1, <1>4, AnswersKeep

LEMMA RefusesProtocolKeeps == ASSUME IInv, RefusesProtocol PROVE IInv'
BY RefusalSaysNothing, AnswersKeep DEF RefusesProtocol, Asked

LEMMA OffersKeyKeeps == ASSUME IInv, OffersKey PROVE IInv'
<1>1. PICK key \in {priv, NoPoint} : Answers(Reply("ok", "key", key, FALSE, NoCiphertext))
  BY DEF OffersKey
<1>2. wire # << >> /\ (Req.session = session => pc = "key")
  BY FirstRequest DEF OffersKey, Asked
<1>3. Req.session = session => StillSo(Reply("ok", "key", key, FALSE, NoCiphertext))
  BY <1>2 DEF StillSo, Reply
<1>4. QED
  BY <1>1, <1>2, <1>3, AnswersKeep

LEMMA ChecksUseKeeps == ASSUME IInv, ChecksUse PROVE IInv'
<1> DEFINE reply == IF Authorised(Req) THEN Reply("ok", "use", 0, FALSE, NoCiphertext)
                    ELSE Refusal("pinAuthInvalid")
<1>1. wire # << >> /\ Req.sub = "use" /\ Answers(reply)
  BY DEF ChecksUse, Asked
<1>2. ASSUME Req.session = session PROVE StillSo(reply)
  <2>1. /\ pc = "use" /\ Req.proto = Protocol(token) /\ Req.mac = Mac(Protocol(token), token.raw, 0)
        /\ Req.perms = call.perms /\ Req.rp = call.rp /\ Valid(token)
    BY <1>1, <1>2, FirstRequest DEF authParam, IInv, Calling
  <2>2. tok.raw = token.raw =>
           tok.proto = Protocol(token) /\ tok.perms = Scope(token.asked).perms
             /\ tok.rp = Scope(token.asked).rp
    BY <2>1 DEF IInv, Holding, Fits, Scope
  <2>3. tok.raw = token.raw => (Covers(tok, Req.perms, Req.rp) <=> InScope)
    BY <2>1, <2>2 DEF Covers, InScope
  <2>4. Req.mac.key = token.raw
    BY <2>1 DEF Mac
  <2>5. Authorised(Req) => tok.raw = token.raw /\ InScope
    BY <2>3, <2>4 DEF Authorised, Mac
  <2>6. tok.raw = token.raw /\ InScope => Authorised(Req)
    BY <2>1, <2>2, <2>3 DEF Authorised, Valid
  <2>7. CASE Authorised(Req)
    BY <2>1, <2>5, <2>7 DEF StillSo, Reply
  <2>8. CASE ~Authorised(Req)
    BY <2>1, <2>6, <2>8 DEF StillSo, Refusal, Reply
  <2>9. QED
    BY <2>7, <2>8
<1> HIDE DEF reply
<1>3. QED
  BY <1>1, <1>2, AnswersKeep

LEMMA RefusesTokenKeeps == ASSUME IInv, RefusesToken PROVE IInv'
<1>1. CASE Answers(Refusal("subcommand"))
  BY <1>1, RefusalSaysNothing, AnswersKeep DEF RefusesToken, Asked
<1>2. CASE Blocked # "none" /\ Answers(Refusal(Blocked))
  <2>1. StillSo(Refusal(Blocked))
    BY <1>2 DEF StillSo, Refusal, Reply, Blocked, BlockedBy, IInv, Counters
  <2>2. QED
    BY <1>2, <2>1, AnswersKeep DEF RefusesToken, Asked
<1>3. QED
  BY <1>1, <1>2 DEF RefusesToken

LEMMA FindsRightKeeps == ASSUME ClientPINAssumption, IInv, FindsRight PROVE IInv'
<1>1. /\ wire # << >> /\ Req.sub \in TokenSubs /\ Takes /\ Opens(Req)
      /\ retries' = MaxRetries /\ issued' = Req.peer
      /\ UNCHANGED <<pc, call, keys, token, calls, session, outside>>
  BY DEF FindsRight, JudgesPIN, Asked, Takes, caller
<1>2. PICK len \in TokenLens :
         /\ Respond(IssueToken(Req, len))
         /\ tok' = [raw |-> TokenFor(Req.peer, len), proto |-> Req.proto,
                    perms |-> Req.perms, rp |-> Req.rp]
  BY DEF FindsRight
<1>3. /\ tok'.raw = TokenFor(Req.peer, len) /\ tok'.proto = Req.proto
      /\ tok'.perms = Req.perms /\ tok'.rp = Req.rp
  BY <1>2
<1>4. Req.peer \in Nat /\ token.asked.n < Req.peer /\ Known(Req.proto)
  BY <1>1, FirstRequest
<1>5. Holding'
  <2>1. tok'.raw.of = Req.peer
    BY <1>3 DEF TokenFor, Bytes
  <2>2. Valid(token) => token.raw.of = token.asked.n /\ token.asked.n \in Nat
    BY DEF IInv, Holding, TokenFor, Bytes
  <2>3. Valid(token) => tok'.raw # token.raw
    BY <1>4, <2>1, <2>2
  <2>4. QED
    BY <1>1, <2>3 DEF IInv, Holding, Valid, Protocol
<1>6. PICK r : r = IssueToken(Req, len)
  OBVIOUS
<1>7. ASSUME Req.session = session PROVE StillSo(r)'
  <2>1. /\ pc = "token" /\ Req.peer = calls /\ Req.proto = call.proto /\ Req.perms = call.perms
        /\ Req.rp = Scope(call).rp /\ Req.hash.key = keys.aes /\ keys.proto = call.proto
    BY <1>1, <1>7, FirstRequest DEF IInv, Calling
  <2>2. Secret(Req).aes = keys.aes
    BY <1>1, <2>1 DEF Opens, Ciphertext
  <2>3. Secret(Req).proto = Req.proto
    BY <1>4 DEF Secret, Known, deriveKeys, PINProtocolOne, PINProtocolTwo
  <2>4. Prefix(Secret(Req)) = Prefix(keys)
    BY <2>1, <2>3 DEF Prefix
  <2>5. /\ r.status = "ok"
        /\ r.cipher = Ciphertext(len + Prefix(keys), keys.aes, TokenFor(calls, len))
    BY <1>6, <2>1, <2>2, <2>4 DEF IssueToken, Reply
  <2>6. Fits(call)'
    BY <1>1, <1>3, <2>1 DEF Fits, Scope
  <2>7. /\ pc' = "token" /\ issued' = calls'
        /\ r.cipher = Ciphertext(len + Prefix(keys'), keys'.aes, TokenFor(calls', len))
    BY <1>1, <2>1, <2>5
  <2>8. QED
    BY <2>5, <2>6, <2>7 DEF StillSo
<1>8. retries' \in 0 .. MaxRetries
  BY <1>1 DEF ClientPINAssumption
<1>9. QED
  BY <1>1, <1>2, <1>5, <1>6, <1>7, <1>8, RespondKeeps

LEMMA FindsWrongKeeps == ASSUME ClientPINAssumption, IInv, FindsWrong PROVE IInv'
<1> DEFINE left == BlockedBy(retries', misses')
<1>1. PICK status : status = IF left = "none" THEN "pinInvalid" ELSE left
  OBVIOUS
<1>2. /\ wire # << >> /\ Takes /\ Respond(Refusal(status)) /\ retries # 0
      /\ retries' = retries - 1 /\ misses' = misses + 1 /\ UNCHANGED <<tok, issued, token, calls>>
  BY <1>1 DEF FindsWrong, JudgesPIN, Asked, Blocked, BlockedBy, Misses, Takes, caller
<1>3. retries' \in 0 .. MaxRetries
  BY <1>2 DEF IInv, Counters, ClientPINAssumption
<1>4. Holding'
  BY <1>2 DEF IInv, Holding, Valid, Fits, Scope, Protocol
<1>5. /\ status \in {"pinBlocked", "pinAuthBlocked", "pinInvalid"}
      /\ status = "pinBlocked" => retries' = 0
      /\ status = "pinAuthBlocked" => retries' > 0 /\ misses' = 3
  BY <1>1, <1>3 DEF BlockedBy
<1>6. StillSo(Refusal(status))'
  BY <1>5 DEF StillSo, Refusal, Reply
<1>7. QED
  BY <1>2, <1>3, <1>4, <1>6, RespondKeeps

----------------------------------------------------------------------------
(* The caller reads a reply: nothing else is on its way. *)
LEMMA ReadingIs ==
    ASSUME IInv, Reading
    PROVE  /\ pc # "idle" /\ wire = << >> /\ replies' = << >> /\ StillSo(Got) /\ calls \in Nat
           /\ UNCHANGED <<call, calls, timeouts, session, retries, misses, priv, tok, issued, outside>>
           /\ Counters' /\ Replied' /\ call.n = calls /\ token.asked.n < calls
<1>1. /\ pc # "idle" /\ replies # << >> /\ replies' = Tail(replies)
      /\ UNCHANGED <<call, calls, timeouts, session, retries, misses, priv, tok, issued, outside>>
  BY DEF Reading, authenticator
<1>2. wire = << >> /\ replies' = << >> /\ StillSo(Got)
  BY <1>1, TailIs DEF IInv, OneAtATime, Replied
<1>3. Counters' /\ calls \in Nat
  BY <1>1 DEF IInv, Counters
<1>4. QED
  BY <1>1, <1>2, <1>3 DEF Replied, IInv, Calling

LEMMA ReadingEnds ==
    ASSUME IInv, Reading, NEW err, NEW val, NEW cycle, Ends(err, val, cycle)
    PROVE  /\ Calling' /\ OneAtATime' /\ Asking' /\ Offering'
           /\ last' = Result(call.op, err, val, cycle) /\ pc' = "idle" /\ wire' = << >>
<1>1. pc' = "idle" /\ last' = Result(call.op, err, val, cycle) /\ wire' = << >> /\ replies' = << >>
  BY ReadingIs DEF Ends
<1>2. Calling'
  BY <1>1, ReadingIs DEF IInv, Calling
<1>3. OneAtATime' /\ Asking' /\ Offering'
  BY <1>1, EmptyIs DEF OneAtATime, Asking, Offering
<1>4. QED
  BY <1>1, <1>2, <1>3

(* Without a new token, a result that says what is so. *)
LEMMA EndsKeep ==
    ASSUME IInv, Reading, NEW err, NEW val, NEW cycle, Ends(err, val, cycle), UNCHANGED token,
           call.op = "PINToken" => err # "none",
           err = "none" => Got.status = "ok" /\ val = Got.val /\ cycle = Got.cycle,
           err = "pinAuthInvalid" => Got.status = "pinAuthInvalid"
    PROVE  IInv'
<1>1. /\ wire = << >> /\ StillSo(Got) /\ Counters' /\ Replied' /\ pc # "idle"
      /\ UNCHANGED <<call, calls, retries, misses, tok, outside>>
  BY ReadingIs
<1>2. /\ Calling' /\ OneAtATime' /\ Asking' /\ Offering' /\ pc' = "idle"
      /\ last' = Result(call.op, err, val, cycle)
  BY ReadingEnds
<1>3. last'.op = call.op /\ last'.err = err /\ last'.val = val /\ last'.cycle = cycle
  BY <1>2 DEF Result
<1>4. Holding'
  BY <1>1 DEF IInv, Holding, Valid, Fits, Scope, Protocol
<1>5. call.op = "Use" => pc = "use" /\ Valid(token)
  BY <1>1 DEF IInv, Calling
<1>6. call.op = "PINRetries" => pc = "retries"
  BY <1>1 DEF IInv, Calling
<1>7. TokenAuthorises'
  <2>1. /\ call.op = "Use" /\ err = "none" => InScope
        /\ call.op = "Use" /\ err = "pinAuthInvalid" => token.raw # tok.raw \/ ~InScope
    BY <1>1, <1>5 DEF StillSo
  <2>2. InScope' <=> InScope
    BY <1>1 DEF InScope, Scope
  <2>3. QED
    BY <1>1, <1>3, <2>1, <2>2 DEF TokenAuthorises, InScope
<1>8. RetriesAreCurrent'
  <2>1. call.op = "PINRetries" /\ err = "none" /\ outside = call.at =>
           val = retries /\ cycle = (misses = 3)
    BY <1>1, <1>6 DEF StillSo
  <2>2. QED
    BY <1>1, <1>3, <2>1 DEF RetriesAreCurrent, Returned
<1>9. Returning'
  BY <1>3, <1>5, <1>7, <1>8 DEF Returning, Returned, Valid
<1>10. QED
  BY <1>1, <1>2, <1>4, <1>9 DEF IInv

LEMMA GoodStatus ==
    ASSUME IInv, Reading, ReplyError = "none"
    PROVE  Got.status = "ok" /\ Got.member = pc /\ (pc = "key" => Got.val # NoPoint)
BY ReadingIs DEF StillSo, ReplyError

LEMMA BadReplyKeeps == ASSUME IInv, BadReply PROVE IInv'
<1>1. PICK err : err = ReplyError
  OBVIOUS
<1>2. Reading /\ Ends(err, 0, FALSE) /\ UNCHANGED token /\ err # "none"
  BY <1>1 DEF BadReply, Fails
<1>3. err = "pinAuthInvalid" => Got.status = "pinAuthInvalid"
  BY <1>1 DEF ReplyError
<1>4. QED
  BY <1>2, <1>3, EndsKeep

LEMMA PlainReturnsKeeps == ASSUME IInv, PlainReturns PROVE IInv'
<1>1. PICK val, cycle : val = Got.val /\ cycle = Got.cycle
  OBVIOUS
<1>2. Reading /\ Ends("none", val, cycle) /\ UNCHANGED token /\ call.op # "PINToken"
  BY <1>1 DEF PlainReturns, GoodReply
<1>3. Got.status = "ok"
  BY <1>2, GoodStatus DEF PlainReturns, GoodReply
<1>4. QED
  BY <1>1, <1>2, <1>3, EndsKeep

(* What an exchange and the hiding of a PIN give, when they give something. *)
LEMMA ExchangeIs ==
    ASSUME Exchange.err = "none"
    PROVE  /\ Known(call.proto) /\ Exchange.keys.proto = call.proto
           /\ Exchange.keys = deriveKeys(call.proto, ECDH(calls, Got.val)).keys
BY DEF Exchange, agree, deriveKeys, Known, PINProtocolOne, PINProtocolTwo

LEMMA HiddenPIN ==
    ASSUME NEW k, NEW pin, pinHash(k, pin).err = "none"
    PROVE  pinHash(k, pin).out = Ciphertext(16 + Prefix(k), k.aes, Bytes(16, "pin", pin))
BY DEF pinHash, encrypt, WholeBlocks, BlockSize, Bytes

LEMMA AgreedKeeps == ASSUME IInv, Agreed PROVE IInv'
<1> DEFINE hash == pinHash(Exchange.keys, call.pin)
<1>1. /\ Reading /\ Got.status = "ok" /\ Got.val # NoPoint
      /\ call.op = "PINToken" /\ pc = "key" /\ UNCHANGED token
  BY GoodStatus DEF Agreed, GoodReply
<1>2. CASE \E err : err # "none" /\ Fails(err) /\ err # "pinAuthInvalid"
  BY <1>1, <1>2, EndsKeep DEF Fails
<1>3. CASE /\ Exchange.err = "none" /\ hash.err = "none" /\ keys' = Exchange.keys
           /\ Sends(TokenRequest(calls, hash.out), "token")
  <2>1. /\ wire = << >> /\ StillSo(Got) /\ Counters' /\ Replied' /\ replies' = << >> /\ calls \in Nat
        /\ UNCHANGED <<call, calls, timeouts, session, retries, misses, priv, tok, issued, outside>>
        /\ call.n = calls /\ token.asked.n < calls
    BY <1>1, ReadingIs
  <2>2. /\ Known(call.proto) /\ keys'.proto = call.proto
        /\ keys' = deriveKeys(call.proto, ECDH(calls, Got.val)).keys
    BY <1>3, ExchangeIs
  <2>3. hash.out = Ciphertext(16 + Prefix(keys'), keys'.aes, Bytes(16, "pin", call.pin))
    BY <1>3, HiddenPIN
  <2> DEFINE req == TokenRequest(calls, hash.out)
  <2>4. pc' = "token" /\ last' = NoResult /\ wire' = Append(wire, req)
    BY <1>3 DEF Sends
  <2>5. /\ req.sub \in TokenSubs /\ req.session = session /\ req.peer = calls /\ req.hash = hash.out
        /\ req.proto = call.proto /\ req.perms = call.perms /\ req.rp = Scope(call).rp
        /\ req.at = call.at
    BY DEF TokenRequest, TokenSubs, Scope
  <2> HIDE DEF req, hash
  <2>6. IsSeq(wire') /\ Len(wire') = 1 /\ wire'[1] = req
    <3>1. IsSeq(wire) /\ Len(wire) = 0
      BY <2>1, EmptyIs
    <3>2. IsSeq(wire') /\ Len(wire') = Len(wire) + 1 /\ wire'[Len(wire) + 1] = req
      BY <2>4, <3>1, AppendIs
    <3>3. QED
      BY <3>1, <3>2
  <2>7. Calling'
    BY <1>1, <2>1, <2>2, <2>4 DEF IInv, Calling
  <2>8. session \in Nat
    BY DEF IInv, Counters
  <2>9. OneAtATime'
    BY <2>1, <2>4, <2>5, <2>6, <2>8, EmptyIs DEF OneAtATime
  <2>10. hash.out.key = keys'.aes
    BY <2>3 DEF Ciphertext
  <2>11. Asking'
    BY <2>1, <2>4, <2>5, <2>6, <2>10 DEF Asking, TokenSubs, Scope
  <2>12. Shared(req, Got.val) = keys'
    BY <2>2, <2>5 DEF Shared
  <2>13. Got.val = priv \/ outside > call.at
    BY <1>1, <2>1 DEF StillSo
  <2>14. call.pin \in Pins \ {0} /\ call.at \in Nat /\ call.at <= outside
    BY <1>1 DEF IInv, Calling
  <2>15. PICK p : p = Got.val
    OBVIOUS
  <2>16. /\ req.hash = Ciphertext(16 + Prefix(Shared(req, p)), Shared(req, p).aes, Bytes(16, "pin", call.pin))
         /\ p = priv \/ outside > req.at
    BY <2>3, <2>5, <2>12, <2>13, <2>15
  <2>17. Offering'
    <3> SUFFICES ASSUME NEW i \in 1 .. Len(wire'), wire'[i].sub \in TokenSubs
                 PROVE  Offering!(i)!2'
      BY DEF Offering, TokenSubs
    <3>1. i = 1 /\ wire'[i] = req
      BY <2>6
    <3>2. /\ wire'[i].hash = Ciphertext(16 + Prefix(Shared(wire'[i], p)),
                                        Shared(wire'[i], p).aes, Bytes(16, "pin", call.pin))
          /\ p = priv' \/ outside' > wire'[i].at
      BY <2>1, <2>16, <3>1
    <3>3. /\ Known(wire'[i].proto) /\ wire'[i].peer = calls' /\ calls' \in Nat
          /\ token'.asked.n < calls' /\ wire'[i].at \in Nat /\ wire'[i].at <= outside'
      BY <1>1, <2>1, <2>2, <2>5, <2>14, <3>1
    <3>4. QED
      BY <2>14, <3>1, <3>2, <3>3 DEF Shared, Known
  <2>18. Holding'
    BY <1>1, <2>1 DEF IInv, Holding, Valid, Fits, Scope, Protocol
  <2>19. Returning'
    BY <2>4 DEF Returning, Returned, TokenAuthorises, RetriesAreCurrent
  <2>20. QED
    BY <2>1, <2>7, <2>9, <2>11, <2>17, <2>18, <2>19 DEF IInv
<1>4. Exchange.err \in {"none", "protocol"} /\ hash.err \in {"none", "empty", "blocks"}
  BY DEF Exchange, agree, deriveKeys, pinHash, encrypt
<1>5. QED
  BY <1>2, <1>3, <1>4 DEF Agreed

LEMMA TokenReturnsKeeps == ASSUME ClientPINAssumption, IInv, TokenReturns PROVE IInv'
<1> DEFINE plain == decrypt(keys, Got.cipher)
<1>1. Reading /\ Got.status = "ok" /\ pc = "token"
  BY GoodStatus DEF TokenReturns, GoodReply
<1>2. /\ call.op = "PINToken" /\ keys.proto = call.proto /\ Known(call.proto)
  BY <1>1 DEF IInv, Calling
<1>3. plain.err \in {"none", "vector", "blocks"}
  BY DEF decrypt
<1>4. CASE \E err : err # "none" /\ Fails(err) /\ err # "pinAuthInvalid" /\ UNCHANGED token
  BY <1>1, <1>4, EndsKeep DEF Fails
<1>5. CASE /\ plain.err = "none" /\ TokenLength(call.proto, plain.out.len)
           /\ Ends("none", 0, FALSE)
           /\ token' = [keys |-> keys, raw |-> plain.out, asked |-> call]
  <2>1. /\ wire = << >> /\ StillSo(Got) /\ Counters' /\ Replied' /\ calls \in Nat /\ call.n = calls
        /\ UNCHANGED <<call, calls, timeouts, session, retries, misses, priv, tok, issued, outside>>
        /\ token.asked.n < calls
    BY <1>1, ReadingIs
  <2>2. /\ Calling' /\ OneAtATime' /\ Asking' /\ Offering' /\ pc' = "idle"
        /\ last' = Result(call.op, "none", 0, FALSE)
    BY <1>1, <1>5, ReadingEnds
  <2>3. PICK len \in TokenLens :
           /\ Got.cipher = Ciphertext(len + Prefix(keys), keys.aes, TokenFor(calls, len))
           /\ tok.raw = TokenFor(calls, len) => Fits(call)
    BY <1>1, <2>1 DEF StillSo
  <2>4. len \in Nat /\ len > 0 /\ Prefix(keys) \in Nat
    BY DEF ClientPINAssumption, Prefix, BlockSize
  <2>5. /\ Got.cipher.len = len + Prefix(keys) /\ Got.cipher.key = keys.aes
        /\ Got.cipher.plain = TokenFor(calls, len) /\ Got.cipher.plain.len = len
    BY <2>3 DEF Ciphertext, TokenFor, Bytes
  <2>6. Got.cipher.len - Prefix(keys) = len
    BY <2>4, <2>5
  <2>7. plain.out = TokenFor(calls, len)
    BY <1>5, <2>5, <2>6 DEF decrypt
  <2> HIDE DEF plain
  <2>8. /\ token'.asked = call /\ token'.raw = TokenFor(calls, len) /\ Protocol(token') = call.proto
        /\ Valid(token') /\ token'.raw.len = len
    BY <1>2, <1>5, <2>4, <2>7 DEF Valid, Protocol, TokenFor, Bytes
  <2>9. Holding'
    <3>1. token'.asked.n = calls /\ calls > 0
      BY <2>1, <2>8 DEF IInv, Holding
    <3>2. tok'.raw = token'.raw => Fits(token.asked)'
      BY <2>1, <2>3, <2>8 DEF Fits, Scope
    <3>3. QED
      BY <2>1, <2>8, <3>1, <3>2 DEF Holding, Valid, Protocol
  <2>10. last'.op = "PINToken" /\ last'.err = "none"
    BY <1>2, <2>2 DEF Result
  <2>11. Returning'
    BY <2>1, <2>8, <2>10 DEF Returning, Returned, Valid, TokenAuthorises, RetriesAreCurrent
  <2>12. QED
    BY <2>1, <2>2, <2>9, <2>11 DEF IInv
<1> HIDE DEF plain
<1>6. QED
  BY <1>3, <1>4, <1>5 DEF TokenReturns, plain

(* The session ends: whatever is still on its way is nobody's. *)
LEMMA GivesUpKeeps == ASSUME ~KeepsKey, IInv, GivesUp PROVE IInv'
<1>1. /\ pc' = "idle" /\ last' = Result(call.op, "receive", 0, FALSE) /\ wire' = wire
      /\ session' = session + 1 /\ replies' = << >>
      /\ UNCHANGED <<call, token, calls, retries, misses, priv, tok, issued, outside>>
  BY DEF GivesUp, Fails, Ends, authenticator
<1>2. last'.err = "receive" /\ session \in Nat /\ Counters'
  BY <1>1 DEF Result, IInv, Counters
<1>3. Calling'
  BY <1>1 DEF IInv, Calling
<1>4. OneAtATime' /\ Asking'
  <2>1. \A i \in 1 .. Len(wire) :
           wire[i].session \in Nat /\ wire[i].session <= session' /\ wire[i].session # session'
    BY <1>1, <1>2 DEF IInv, OneAtATime
  <2>2. QED
    BY <1>1, <1>2, <2>1, EmptyIs DEF IInv, OneAtATime, Asking
<1>5. Offering'
  BY <1>1 DEF IInv, Offering, Shared
<1>6. Holding'
  BY <1>1 DEF IInv, Holding, Valid, Fits, Scope, Protocol
<1>7. Replied'
  BY <1>1 DEF Replied
<1>8. pc # "idle"
  BY DEF GivesUp
<1>9. Returning'
  BY <1>1, <1>2, <1>8 DEF IInv, Calling, Returning, Returned, TokenAuthorises, RetriesAreCurrent, Valid, Result
<1>10. QED
  BY <1>2, <1>3, <1>4, <1>5, <1>6, <1>7, <1>9 DEF IInv

LEMMA ReplugKeeps == ASSUME IInv, Replug PROVE IInv'
<1>1. /\ pc' = "idle" /\ wire' = << >> /\ replies' = << >> /\ session' = session + 1
      /\ outside' = outside + 1 /\ tok'.raw.what = "noise"
      /\ UNCHANGED <<call, token, calls, retries, issued>>
      /\ \/ pc = "idle" /\ last' = last
         \/ pc # "idle" /\ last'.err = "receive" /\ last'.op = call.op
  BY DEF Replug, Outside, NoGrant, Noise, Bytes, Result
<1>2. Counters' /\ outside' > outside
  BY <1>1 DEF IInv, Counters
<1>3. Calling'
  BY <1>1, <1>2 DEF IInv, Calling, Counters
<1>4. OneAtATime' /\ Asking' /\ Offering' /\ Replied'
  BY <1>1, EmptyIs DEF OneAtATime, Asking, Offering, Replied
<1>5. Valid(token) => tok'.raw # token.raw
  BY <1>1 DEF IInv, Holding, TokenFor, Bytes
<1>6. Holding'
  BY <1>1, <1>5 DEF IInv, Holding, Valid, Protocol
<1>7. Returning'
  <2>1. RetriesAreCurrent'
    BY <1>1, <1>2 DEF IInv, Calling, Counters, RetriesAreCurrent, Returned
  <2>2. call.op = "Use" /\ pc # "idle" => Valid(token)
    BY DEF IInv, Calling
  <2>3. pc' = "idle" /\ last'.op = "Use" => Valid(token)
    BY <1>1, <2>2 DEF IInv, Returning
  <2>4. TokenAuthorises'
    BY <1>1, <1>5, <2>3 DEF IInv, Returning, TokenAuthorises
  <2>5. Returned("PINToken")' => Valid(token) /\ token.asked = call /\ call.n = calls
    BY <1>1 DEF IInv, Returning, Returned
  <2>6. QED
    BY <1>1, <2>1, <2>3, <2>4, <2>5 DEF Returning, Valid
<1>8. QED
  BY <1>2, <1>3, <1>4, <1>6, <1>7 DEF IInv

----------------------------------------------------------------------------
(* An empty PIN is refused before anything is sent. *)
LEMMA EmptyPINKeeps ==
    ASSUME IInv, NEW proto, NEW perms, NEW rp, PINToken(0, proto, perms, rp)
    PROVE  IInv'
<1>1. /\ pc = "idle" /\ pc' = "idle" /\ wire' = wire /\ calls' = calls + 1
      /\ last' = Result("PINToken", "empty", 0, FALSE) /\ call'.at = outside /\ call'.n = calls'
      /\ UNCHANGED <<keys, token, timeouts, session, replies, retries, misses, priv, tok, issued, outside>>
  BY DEF PINToken, Begin, authenticator
<1>2. last'.op = "PINToken" /\ last'.err = "empty"
  BY <1>1 DEF Result
<1>3. Counters' /\ calls' > calls
  BY <1>1 DEF IInv, Counters
<1>4. Calling'
  BY <1>1 DEF IInv, Calling, Counters
<1>5. replies' = << >>
  BY <1>1 DEF IInv, OneAtATime
<1>6. OneAtATime' /\ Asking' /\ Replied'
  BY <1>1, <1>2, <1>5 DEF IInv, OneAtATime, Asking, Replied
<1>7. Offering'
  BY <1>1, <1>3 DEF IInv, Offering, Counters, Shared
<1>8. Holding'
  BY <1>1, <1>3 DEF IInv, Holding, Counters, Valid, Fits, Scope, Protocol
<1>9. Returning'
  BY <1>1, <1>2 DEF Returning, Returned, TokenAuthorises, RetriesAreCurrent
<1>10. QED
  BY <1>3, <1>4, <1>6, <1>7, <1>8, <1>9 DEF IInv

LEMMA CallKeeps ==
    ASSUME IInv,
           \/ PINRetries
           \/ \E proto \in Protocols : KeyAgreement(proto)
           \/ \E pin \in Pins, proto \in Protocols, perms \in PermSets, rp \in TokenRPs :
                 PINToken(pin, proto, perms, rp)
           \/ \E perm \in {PermMakeCredential, PermGetAssertion}, rp \in UseRPs : UseToken(perm, rp)
    PROVE  IInv'
<1>1. CASE PINRetries
  BY <1>1, BeginKeeps DEF PINRetries, Request
<1>2. ASSUME NEW proto \in Protocols, KeyAgreement(proto) PROVE IInv'
  BY <1>2, BeginKeeps DEF KeyAgreement, Request
<1>3. ASSUME NEW pin \in Pins, NEW proto \in Protocols, NEW perms \in PermSets, NEW rp \in TokenRPs,
             PINToken(pin, proto, perms, rp)
      PROVE  IInv'
  <2>1. CASE pin = 0
    BY <1>3, <2>1, EmptyPINKeeps
  <2>2. CASE pin # 0
    BY <1>3, <2>2, BeginKeeps DEF PINToken, Request
  <2>3. QED
    BY <2>1, <2>2
<1>4. ASSUME NEW perm, NEW rp, UseToken(perm, rp) PROVE IInv'
  <2> DEFINE req == [sub |-> "use", proto |-> Protocol(token), session |-> session, peer |-> 0,
                     hash |-> NoCiphertext, perms |-> perm, rp |-> rp, mac |-> authParam(token),
                     at |-> 0]
  <2>1. Valid(token) /\ Begin("Use", 0, Protocol(token), perm, rp) /\ Sends(req, "use")
    BY <1>4 DEF UseToken
  <2>2. /\ req.session = session /\ req.sub = "use" /\ req.proto = Protocol(token)
        /\ req.mac = authParam(token) /\ req.perms = perm /\ req.rp = rp
    OBVIOUS
  <2> HIDE DEF req
  <2>3. QED
    BY <2>1, <2>2, BeginKeeps
<1>5. QED
  BY <1>1, <1>2, <1>3, <1>4

LEMMA Stutter == ASSUME IInv, UNCHANGED vars PROVE IInv'
<1>1. /\ UNCHANGED <<pc, call, keys, token, last, calls, session, wire, replies>>
      /\ UNCHANGED <<retries, misses, priv, tok, issued, outside>>
  BY DEF vars
<1>2. Counters' /\ Calling' /\ OneAtATime'
  BY <1>1 DEF IInv, Counters, Calling, OneAtATime, Valid
<1>3. Asking' /\ Offering'
  BY <1>1 DEF IInv, Asking, Offering, Shared, Protocol, authParam, Scope
<1>4. Holding' /\ Replied'
  BY <1>1 DEF IInv, Holding, Replied, StillSo, Got, InScope, Valid, Fits, Scope, Protocol
<1>5. Returning'
  BY <1>1 DEF IInv, Returning, Returned, TokenAuthorises, RetriesAreCurrent, Valid, Scope
<1>6. QED
  BY <1>2, <1>3, <1>4, <1>5 DEF IInv

LEMMA Step == ASSUME ClientPINAssumption, ~KeepsKey, IInv, [Next]_vars PROVE IInv'
<1>1. CASE BadReply \/ PlainReturns \/ Agreed \/ TokenReturns \/ GivesUp
  BY <1>1, BadReplyKeeps, PlainReturnsKeeps, AgreedKeeps, TokenReturnsKeeps, GivesUpKeeps
<1>2. CASE Authenticator
  BY <1>2, TellsRetriesKeeps, RefusesProtocolKeeps, OffersKeyKeeps, ChecksUseKeeps,
     RefusesTokenKeeps, FindsRightKeeps, FindsWrongKeeps DEF Authenticator
<1>3. CASE OtherMisses \/ OtherToken \/ TokenExpires \/ Replug
  BY <1>3, OtherMissesKeeps, OtherTokenKeeps, TokenExpiresKeeps, ReplugKeeps
<1>4. CASE UNCHANGED vars
  BY <1>4, Stutter
<1>5. QED
  BY <1>1, <1>2, <1>3, <1>4, CallKeeps DEF Next

----------------------------------------------------------------------------
THEOREM Invariance == ASSUME ~KeepsKey PROVE Spec => []IInv
<1>1. Init => IInv
  BY ClientPINAssumption, Start
<1>2. IInv /\ [Next]_vars => IInv'
  BY ClientPINAssumption, Step
<1>3. QED
  BY <1>1, <1>2, PTL DEF Spec

(* What PINToken returns is the authenticator's token for this exchange.      *)
THEOREM TokenIsOurs == ASSUME ~KeepsKey PROVE Spec => []TokenOfThisExchange
<1>1. IInv => TokenOfThisExchange
  <2> SUFFICES ASSUME IInv, Returned("PINToken")
               PROVE  /\ token.raw.what = "token" /\ token.raw.of = calls /\ Protocol(token) = call.proto
                      /\ token.raw = tok.raw => Fits(call)
    BY DEF TokenOfThisExchange, Fits
  <2>1. Valid(token) /\ token.asked = call /\ call.n = calls
    BY DEF IInv, Returning
  <2>2. token.raw = TokenFor(calls, token.raw.len)
    BY <2>1 DEF IInv, Holding
  <2>3. token.raw.what = "token" /\ token.raw.of = calls
    BY <2>2 DEF TokenFor, Bytes
  <2>4. QED
    BY <2>1, <2>3 DEF IInv, Holding
<1>2. QED
  BY <1>1, Invariance, PTL

(* A token does what its PINToken was asked for, and nothing else is refused. *)
THEOREM TokenDoesWhatWasAsked == ASSUME ~KeepsKey PROVE Spec => []TokenAuthorises
<1>1. IInv => TokenAuthorises
  BY DEF IInv, Returning
<1>2. QED
  BY <1>1, Invariance, PTL

(* PINRetries returns the count at that moment. *)
THEOREM CountIsCurrent == ASSUME ~KeepsKey PROVE Spec => []RetriesAreCurrent
<1>1. IInv => RetriesAreCurrent
  BY DEF IInv, Returning
<1>2. QED
  BY <1>1, Invariance, PTL

(* Nobody is told to reset a key that has attempts left, or to unplug one for *)
(* nothing.                                                                   *)
THEOREM AdviceIsRight == ASSUME ~KeepsKey PROVE Spec => AdviceHelps
<1> DEFINE Helps == pc # "idle" /\ pc' = "idle" =>
               /\ advice(last'.err) = "reset" => retries = 0
               /\ advice(last'.err) = "unplug" => retries > 0 /\ misses = 3
<1>1. IInv /\ [Next]_vars => [Helps]_vars
  <2> SUFFICES ASSUME IInv, Next, pc # "idle", pc' = "idle" PROVE Helps
    OBVIOUS
  <2>1. ASSUME NEW err, last' = Result(call.op, err, 0, FALSE),
               err \notin {"pinBlocked", "pinAuthBlocked", "pinInvalid"}
        PROVE  Helps
    BY <2>1 DEF advice, Result
  <2>2. CASE BadReply
    <3>1. StillSo(Got) /\ last'.err = ReplyError
      BY <2>2, ReadingIs DEF BadReply, Fails, Ends, Result
    <3>2. CASE Got.status = ReplyError
      BY <3>1, <3>2 DEF StillSo, advice
    <3>3. CASE ReplyError \in {"missing", "point", "none"}
      BY <3>1, <3>3 DEF advice
    <3>4. QED
      BY <3>2, <3>3 DEF ReplyError
  <2>3. CASE PlainReturns
    BY <2>3 DEF PlainReturns, Ends, Result, advice
  <2>4. CASE Agreed
    <3>1. Exchange.err \in {"none", "protocol"}
          /\ pinHash(Exchange.keys, call.pin).err \in {"none", "empty", "blocks"}
      BY DEF Exchange, agree, deriveKeys, pinHash, encrypt
    <3>2. QED
      BY <2>1, <2>4, <3>1 DEF Agreed, Fails, Ends, Sends
  <2>5. CASE TokenReturns
    <3> DEFINE plain == decrypt(keys, Got.cipher)
    <3>1. plain.err \in {"none", "vector", "blocks"}
      BY DEF decrypt
    <3> HIDE DEF plain
    <3>2. PICK err : /\ last' = Result(call.op, err, 0, FALSE)
                     /\ err \in {"none", "vector", "blocks", "length"}
      BY <2>5, <3>1 DEF TokenReturns, Fails, Ends, plain
    <3>3. QED
      BY <2>1, <3>2
  <2>6. CASE GivesUp \/ Replug
    <3>1. last'.err = "receive"
      BY <2>6 DEF GivesUp, Replug, Fails, Ends, Result
    <3>2. QED
      BY <3>1 DEF advice
  <2>7. CASE Authenticator \/ OtherMisses \/ OtherToken \/ TokenExpires
    BY <2>7 DEF Authenticator, TellsRetries, RefusesProtocol, OffersKey, ChecksUse, RefusesToken,
       FindsRight, FindsWrong, JudgesPIN, Answers, Takes, OtherMisses, OtherToken, TokenExpires, caller
  <2>8. QED
    BY <2>2, <2>3, <2>4, <2>5, <2>6, <2>7
    DEF Next, PINRetries, KeyAgreement, PINToken, UseToken, Begin
<1>2. QED
  BY <1>1, Invariance, PTL DEF Spec, AdviceHelps

(* A right PIN costs an attempt only when the authenticator's key changed     *)
(* outside this program while the call was under way.                         *)
THEOREM RightPINCostsNothing == ASSUME ~KeepsKey PROVE Spec => RightPINIsFree
<1> DEFINE Free == retries' < retries =>
               \/ outside' > outside \/ outside > Head(wire).at
               \/ \E pin \in Pins \ {0, RightPin} : Head(wire).hash.plain = Bytes(16, "pin", pin)
<1>1. IInv /\ [Next]_vars => [Free]_vars
  <2> SUFFICES ASSUME IInv, Next PROVE Free
    OBVIOUS
  <2>1. retries \in Nat /\ retries <= MaxRetries /\ outside \in Nat
    BY ClientPINAssumption DEF IInv, Counters, ClientPINAssumption
  <2>2. CASE retries' = retries \/ retries' = MaxRetries
    BY <2>1, <2>2, ClientPINAssumption DEF ClientPINAssumption
  <2>3. CASE FindsWrong
    <3>1. wire # << >> /\ Req.sub \in TokenSubs /\ ~Opens(Req)
      BY <2>3 DEF FindsWrong, JudgesPIN, Asked
    <3>2. PICK pin, p :
             /\ pin \in Pins \ {0}
             /\ Req.hash = Ciphertext(16 + Prefix(Shared(Req, p)),
                                      Shared(Req, p).aes, Bytes(16, "pin", pin))
             /\ p = priv \/ outside > Req.at
      BY <3>1, FirstRequest
    <3>3. Req.hash.plain = Bytes(16, "pin", pin)
      BY <3>2 DEF Ciphertext
    <3>4. CASE outside > Req.at
      BY <3>4 DEF Req
    <3>5. CASE p = priv
      <4>1. Shared(Req, p) = Secret(Req)
        BY <3>5 DEF Shared, Secret
      <4>2. pin # RightPin
        BY <3>1, <3>2, <4>1 DEF Opens
      <4>3. QED
        BY <3>2, <3>3, <4>2 DEF Req
    <3>6. QED
      BY <3>2, <3>4, <3>5
  <2>4. CASE OtherMisses \/ OtherToken \/ TokenExpires \/ Replug
    <3>1. outside' = outside + 1
      BY <2>4 DEF OtherMisses, OtherToken, TokenExpires, Replug, Outside
    <3>2. outside' > outside
      BY <2>1, <3>1
    <3>3. QED
      BY <3>2
  <2>5. CASE \/ TellsRetries \/ RefusesProtocol \/ OffersKey \/ ChecksUse \/ RefusesToken \/ FindsRight
    <3>1. retries' = retries \/ retries' = MaxRetries
      BY <2>5 DEF TellsRetries, RefusesProtocol, OffersKey, ChecksUse, RefusesToken, FindsRight,
         Answers, authenticator
    <3>2. QED
      BY <2>2, <3>1
  <2>6. CASE BadReply \/ PlainReturns \/ Agreed \/ TokenReturns \/ GivesUp
    <3>1. retries' = retries
      BY <2>6 DEF BadReply, PlainReturns, Agreed, TokenReturns, GivesUp, GoodReply, Reading, authenticator
    <3>2. QED
      BY <2>2, <3>1
  <2>7. CASE \/ PINRetries
             \/ \E proto \in Protocols : KeyAgreement(proto)
             \/ \E pin \in Pins, proto \in Protocols, perms \in PermSets, rp \in TokenRPs :
                   PINToken(pin, proto, perms, rp)
             \/ \E perm \in {PermMakeCredential, PermGetAssertion}, rp \in UseRPs : UseToken(perm, rp)
    <3>1. retries' = retries
      BY <2>7 DEF PINRetries, KeyAgreement, PINToken, UseToken, Begin, authenticator
    <3>2. QED
      BY <2>2, <3>1
  <2> HIDE DEF Free
  <2>8. QED
    BY <2>3, <2>4, <2>5, <2>6, <2>7 DEF Next, Authenticator
<1>2. QED
  BY <1>1, Invariance, PTL DEF Spec, RightPINIsFree

----------------------------------------------------------------------------
(***************************************************************************)
(* PINToken implements PinPrompt.  Typing and Offers are what the          *)
(* refinement mapping substitutes for typed and offered.                   *)
(***************************************************************************)
Typing == IF pc # "idle" /\ call.op = "PINToken" THEN call.pin ELSE 0

OfferOf(req) == [prompt |-> req.peer, pin |-> req.hash.plain.of]

Offers == {[prompt |-> wire[i].peer, pin |-> wire[i].hash.plain.of] : i \in Prompts}

(* At most one PIN waits to be judged: the oldest request's. *)
LEMMA OffersAre ==
    ASSUME IInv
    PROVE  /\ wire = << >> => Offers = {}
           /\ wire # << >> /\ Req.sub \notin TokenSubs => Offers = {}
           /\ wire # << >> /\ Req.sub \in TokenSubs => Offers = {OfferOf(Req)}
<1>1. DOMAIN wire = 1 .. Len(wire) /\ Len(wire) \in Nat
  BY DEF IInv, OneAtATime, IsSeq
<1>2. \A i \in Prompts : i = 1 /\ i \in 1 .. Len(wire)
  BY <1>1 DEF Prompts, IInv, Offering
<1>3. wire = << >> => Prompts = {}
  BY <1>1, <1>2, EmptyIs
<1>4. wire # << >> => Req = wire[1] /\ 1 \in 1 .. Len(wire)
  BY FirstRequest
<1>5. wire # << >> /\ Req.sub \notin TokenSubs => Prompts = {}
  BY <1>2, <1>4 DEF Prompts
<1>6. wire # << >> /\ Req.sub \in TokenSubs => Prompts = {1}
  BY <1>1, <1>2, <1>4 DEF Prompts
<1>7. QED
  BY <1>3, <1>4, <1>5, <1>6 DEF Offers, OfferOf

LEMMA OffersStay == ASSUME wire' = wire PROVE Offers' = Offers
BY DEF Offers, Prompts, TokenSubs

LEMMA OffersStayBehind ==
    ASSUME IInv, NEW req, wire' = Append(wire, req), req.sub \notin TokenSubs
    PROVE  Offers' = Offers
<1>1. /\ IsSeq(wire') /\ Len(wire) \in Nat /\ Len(wire') = Len(wire) + 1
      /\ \A i \in 1 .. Len(wire) : wire'[i] = wire[i]
      /\ wire'[Len(wire) + 1] = req
  BY AppendIs DEF IInv, OneAtATime
<1>2. DOMAIN wire = 1 .. Len(wire) /\ DOMAIN wire' = 1 .. Len(wire')
  BY <1>1 DEF IInv, OneAtATime, IsSeq
<1>3. Prompts' = Prompts /\ \A i \in Prompts : wire'[i] = wire[i]
  BY <1>1, <1>2 DEF Prompts, TokenSubs
<1>4. QED
  BY <1>3 DEF Offers

(* What the caller sees of the prompt. *)
LEMMA TypingIs ==
    ASSUME IInv
    PROVE  /\ pc = "idle" => Typing = 0
           /\ pc # "idle" /\ call.op = "PINToken" => Typing = call.pin /\ Typing # 0
           /\ call.op # "PINToken" => Typing = 0 /\ pc # "token"
           /\ pc = "token" => call.op = "PINToken"
BY DEF Typing, IInv, Calling

(* A call that begins without a PIN, and one that begins with it. *)
LEMMA OtherMaps ==
    ASSUME IInv, pc = "idle", pc' # "token", Typing' = 0, Offers' = Offers, calls' = calls + 1,
           UNCHANGED <<token, retries, issued>>
    PROVE  PP!Next
BY TypingIs DEF PP!Next, PP!Other, Typing, Offers

LEMMA PromptMaps ==
    ASSUME IInv, pc = "idle", pc' = "key", Typing' \in Pins \ {0}, Offers' = Offers, calls' = calls + 1,
           UNCHANGED <<token, retries, issued>>
    PROVE  PP!Next
BY TypingIs DEF PP!Next, PP!Prompt, Typing, Offers

(* A call that ends without a token. *)
LEMMA EndMaps ==
    ASSUME IInv, pc # "idle", pc' = "idle", Offers' = Offers,
           UNCHANGED <<call, calls, token, retries, issued>>
    PROVE  [PP!Next]_(PP!vars)
<1>1. Typing' = 0
  BY DEF Typing
<1>2. CASE call.op = "PINToken"
  BY <1>1, <1>2, TypingIs DEF PP!Next, PP!Deny, Typing, Offers
<1>3. CASE call.op # "PINToken"
  BY <1>1, <1>3, TypingIs DEF PP!vars, Typing, Offers
<1>4. QED
  BY <1>2, <1>3

LEMMA OfferMaps ==
    ASSUME IInv, pc = "key", call.op = "PINToken", pc' = "token",
           Offers' = Offers \cup {[prompt |-> calls, pin |-> call.pin]},
           UNCHANGED <<call, calls, token, retries, issued>>
    PROVE  PP!Next
<1>1. Typing' = Typing /\ Typing = call.pin /\ Typing # 0
  BY TypingIs DEF Typing
<1>2. QED
  BY <1>1 DEF PP!Next, PP!Offer, Typing, Offers

LEMMA GrantMaps ==
    ASSUME IInv, pc = "token", pc' = "idle", Offers' = Offers, issued = calls,
           token'.asked.n = calls, UNCHANGED <<call, calls, retries, issued>>
    PROVE  PP!Next
<1>1. Typing' = 0 /\ Typing # 0
  BY TypingIs DEF Typing
<1>2. QED
  BY <1>1 DEF PP!Next, PP!Grant, Typing, Offers

----------------------------------------------------------------------------
(* The authenticator takes a request: a PIN that it judges, or nothing that   *)
(* matters to the prompt.                                                     *)
LEMMA TakesOffer ==
    ASSUME IInv, wire # << >>, Takes
    PROVE  /\ Offers' = {} /\ Typing' = Typing
           /\ UNCHANGED <<pc, calls, token>>
           /\ Req.sub \in TokenSubs =>
                 OfferOf(Req) \in Offers /\ Offers' = Offers \ {OfferOf(Req)}
           /\ Req.sub \notin TokenSubs => Offers' = Offers
<1>1. Offers' = {}
  BY TakesKeeps DEF Offers
<1>2. Typing' = Typing /\ UNCHANGED <<pc, calls, token>>
  BY DEF Takes, caller, Typing
<1>3. QED
  BY <1>1, <1>2, OffersAre

LEMMA NotRightMaps ==
    ASSUME IInv, wire # << >>, Takes, Req.sub \in TokenSubs,
           retries' \in {retries, retries - 1} \cap Nat, issued' = issued
    PROVE  PP!Next
<1>1. PICK offer \in Offers : offer = OfferOf(Req) /\ Offers' = Offers \ {offer}
  BY TakesOffer
<1>2. Typing' = Typing /\ UNCHANGED <<pc, calls, token>>
  BY TakesOffer
<1>3. PP!NotRight(offer)
  BY <1>1, <1>2 DEF PP!NotRight, PP!Judged, Typing, Offers
<1>4. QED
  BY <1>1, <1>3 DEF PP!Next, Offers

LEMMA NothingMaps ==
    ASSUME IInv, wire # << >>, Takes, Req.sub \notin TokenSubs, UNCHANGED <<retries, issued>>
    PROVE  UNCHANGED PP!vars
BY TakesOffer DEF PP!vars, Typing, Offers

LEMMA AnswerMaps ==
    ASSUME IInv, wire # << >>, NEW reply, Answers(reply)
    PROVE  [PP!Next]_(PP!vars)
<1>1. Takes /\ UNCHANGED <<retries, issued>> /\ retries \in Nat
  BY DEF Answers, authenticator, IInv, Counters
<1>2. CASE Req.sub \in TokenSubs
  BY <1>1, <1>2, NotRightMaps
<1>3. CASE Req.sub \notin TokenSubs
  BY <1>1, <1>3, NothingMaps
<1>4. QED
  BY <1>2, <1>3

LEMMA FindsRightMaps == ASSUME IInv, FindsRight PROVE PP!Next
<1>1. /\ wire # << >> /\ Takes /\ Req.sub \in TokenSubs /\ Opens(Req) /\ retries # 0
      /\ retries' = MaxRetries /\ issued' = Req.peer
  BY DEF FindsRight, JudgesPIN, Asked, Blocked, BlockedBy
<1>2. PICK offer \in Offers : offer = OfferOf(Req) /\ Offers' = Offers \ {offer}
  BY <1>1, TakesOffer
<1>3. Typing' = Typing /\ UNCHANGED <<pc, calls, token>>
  BY <1>1, TakesOffer
<1>4. offer.pin = RightPin /\ offer.prompt = Req.peer
  BY <1>1, <1>2 DEF OfferOf, Opens, Ciphertext, Bytes
<1>5. retries > 0
  BY <1>1 DEF IInv, Counters
<1>6. PP!FoundRight(offer)
  BY <1>1, <1>2, <1>3, <1>4, <1>5 DEF PP!FoundRight, PP!Judged, Typing, Offers
<1>7. QED
  BY <1>2, <1>6 DEF PP!Next, Offers

LEMMA FindsWrongMaps == ASSUME IInv, FindsWrong PROVE PP!Next
<1>1. /\ wire # << >> /\ Takes /\ Req.sub \in TokenSubs /\ retries # 0
      /\ retries' = retries - 1 /\ issued' = issued
  BY DEF FindsWrong, JudgesPIN, Asked, Blocked, BlockedBy, Misses
<1>2. retries' \in {retries, retries - 1} \cap Nat
  BY <1>1 DEF IInv, Counters
<1>3. QED
  BY <1>1, <1>2, NotRightMaps

LEMMA AuthenticatorMaps == ASSUME IInv, Authenticator PROVE [PP!Next]_(PP!vars)
<1>1. CASE FindsRight \/ FindsWrong
  BY <1>1, FindsRightMaps, FindsWrongMaps
<1>2. CASE TellsRetries \/ RefusesProtocol \/ OffersKey \/ ChecksUse \/ RefusesToken
  <2>1. wire # << >> /\ \E reply : Answers(reply)
    BY <1>2 DEF TellsRetries, RefusesProtocol, OffersKey, ChecksUse, RefusesToken, Asked
  <2>2. QED
    BY <2>1, AnswerMaps
<1>3. QED
  BY <1>1, <1>2 DEF Authenticator

----------------------------------------------------------------------------
(* What happens elsewhere. *)
LEMMA OutsideMaps ==
    ASSUME IInv, OtherMisses \/ OtherToken \/ TokenExpires \/ Replug
    PROVE  [PP!Next]_(PP!vars)
<1>1. CASE OtherMisses \/ OtherToken
  <2>1. /\ retries # 0 /\ retries' \in {retries - 1, MaxRetries} /\ issued' = issued
        /\ wire' = wire /\ UNCHANGED <<pc, call, calls, token>>
    BY <1>1 DEF OtherMisses, OtherToken, Outside, Blocked, BlockedBy, Misses, caller
  <2>2. Offers' = Offers /\ Typing' = Typing /\ retries > 0
    BY <2>1, OffersStay DEF Typing, IInv, Counters
  <2>3. PP!Elsewhere
    BY <2>1, <2>2 DEF PP!Elsewhere, Typing, Offers
  <2>4. QED
    BY <2>3 DEF PP!Next
<1>2. CASE TokenExpires
  <2>1. wire' = wire /\ UNCHANGED <<pc, call, calls, token, retries, issued>>
    BY <1>2 DEF TokenExpires, caller, counters
  <2>2. Offers' = Offers /\ Typing' = Typing
    BY <2>1, OffersStay DEF Typing
  <2>3. QED
    BY <2>1, <2>2 DEF PP!vars, Typing, Offers
<1>3. CASE Replug
  <2>1. wire' = << >> /\ pc' = "idle" /\ UNCHANGED <<calls, token, retries, issued>>
    BY <1>3 DEF Replug
  <2>2. Offers' = {} /\ Typing' = 0
    BY <2>1 DEF Offers, Prompts, Typing
  <2>3. PP!Unplug
    BY <2>1, <2>2 DEF PP!Unplug, Typing, Offers
  <2>4. QED
    BY <2>3 DEF PP!Next
<1>4. QED
  BY <1>1, <1>2, <1>3

(* A call begins. *)
LEMMA BeginMaps ==
    ASSUME IInv, NEW op, NEW pin, NEW proto, NEW perms, NEW rp, NEW req, NEW waitFor,
           Begin(op, pin, proto, perms, rp), Sends(req, waitFor), req.sub \notin TokenSubs,
           \/ op # "PINToken" /\ waitFor \notin {"idle", "token"}
           \/ op = "PINToken" /\ waitFor = "key" /\ pin \in Pins \ {0}
    PROVE  PP!Next
<1>1. /\ pc = "idle" /\ pc' = waitFor /\ pc' \notin {"idle", "token"} /\ calls' = calls + 1
      /\ call' = [op |-> op, pin |-> pin, proto |-> proto, perms |-> perms, rp |-> rp,
                  n |-> calls', at |-> outside]
      /\ wire' = Append(wire, req) /\ UNCHANGED <<token, retries, issued>>
  BY DEF Begin, Sends, authenticator
<1>2. call'.op = op /\ call'.pin = pin
  BY <1>1
<1>3. Offers' = Offers
  BY <1>1, OffersStayBehind
<1>4. CASE op # "PINToken"
  <2>1. Typing' = 0
    BY <1>2, <1>4 DEF Typing
  <2>2. QED
    BY <1>1, <1>3, <2>1, OtherMaps
<1>5. CASE op = "PINToken"
  <2>1. Typing' \in Pins \ {0} /\ pc' = "key"
    BY <1>1, <1>2, <1>5 DEF Typing
  <2>2. QED
    BY <1>1, <1>3, <2>1, PromptMaps
<1>6. QED
  BY <1>4, <1>5

LEMMA PINTokenMaps ==
    ASSUME IInv, NEW pin \in Pins, NEW proto, NEW perms, NEW rp, PINToken(pin, proto, perms, rp)
    PROVE  PP!Next
<1>1. CASE pin = 0
  <2>1. /\ pc = "idle" /\ pc' = "idle" /\ wire' = wire /\ calls' = calls + 1
        /\ UNCHANGED <<token, retries, issued>>
    BY <1>1 DEF PINToken, Begin, authenticator
  <2>2. Typing' = 0 /\ Offers' = Offers
    BY <2>1, OffersStay DEF Typing
  <2>3. QED
    BY <2>1, <2>2, OtherMaps
<1>2. CASE pin # 0
  BY <1>2, BeginMaps DEF PINToken, Request, TokenSubs
<1>3. QED
  BY <1>1, <1>2

LEMMA UseTokenMaps == ASSUME IInv, NEW perm, NEW rp, UseToken(perm, rp) PROVE PP!Next
<1> DEFINE req == [sub |-> "use", proto |-> Protocol(token), session |-> session, peer |-> 0,
                   hash |-> NoCiphertext, perms |-> perm, rp |-> rp, mac |-> authParam(token),
                   at |-> 0]
<1>1. Begin("Use", 0, Protocol(token), perm, rp) /\ Sends(req, "use")
  BY DEF UseToken
<1>2. req.sub \notin TokenSubs
  BY DEF TokenSubs
<1> HIDE DEF req
<1>3. QED
  BY <1>1, <1>2, BeginMaps

LEMMA CallMaps ==
    ASSUME IInv,
           \/ PINRetries
           \/ \E proto \in Protocols : KeyAgreement(proto)
           \/ \E pin \in Pins, proto \in Protocols, perms \in PermSets, rp \in TokenRPs :
                 PINToken(pin, proto, perms, rp)
           \/ \E perm \in {PermMakeCredential, PermGetAssertion}, rp \in UseRPs : UseToken(perm, rp)
    PROVE  PP!Next
<1>1. CASE PINRetries
  BY <1>1, BeginMaps DEF PINRetries, Request, TokenSubs
<1>2. ASSUME NEW proto, KeyAgreement(proto) PROVE PP!Next
  BY <1>2, BeginMaps DEF KeyAgreement, Request, TokenSubs
<1>3. QED
  BY <1>1, <1>2, PINTokenMaps, UseTokenMaps

(* A reply is read. *)
LEMMA FailsMaps == ASSUME IInv, Reading, NEW err, Fails(err), UNCHANGED token PROVE [PP!Next]_(PP!vars)
BY EndMaps, OffersStay DEF Reading, Fails, Ends, authenticator

LEMMA AgreedMaps == ASSUME IInv, Agreed PROVE [PP!Next]_(PP!vars)
<1> DEFINE hash == pinHash(Exchange.keys, call.pin)
<1>1. Reading /\ call.op = "PINToken" /\ pc = "key" /\ UNCHANGED token
  BY DEF Agreed, GoodReply
<1>2. CASE \E err : Fails(err)
  BY <1>1, <1>2, FailsMaps
<1>3. CASE hash.err = "none" /\ Sends(TokenRequest(calls, hash.out), "token")
  <2> DEFINE req == TokenRequest(calls, hash.out)
  <2>1. /\ wire = << >> /\ wire' = Append(wire, req) /\ pc' = "token"
        /\ UNCHANGED <<call, calls, retries, issued>>
    BY <1>1, <1>3, ReadingIs DEF Sends
  <2>2. hash.out.plain.of = call.pin
    <3>1. PICK k : k = Exchange.keys
      OBVIOUS
    <3>2. hash.out = Ciphertext(16 + Prefix(k), k.aes, Bytes(16, "pin", call.pin))
      BY <1>3, <3>1, HiddenPIN
    <3> HIDE DEF hash
    <3>3. QED
      BY <3>2 DEF Ciphertext, Bytes
  <2>3. req.sub \in TokenSubs /\ req.peer = calls /\ req.hash.plain.of = call.pin
    BY <2>2 DEF TokenRequest, TokenSubs
  <2> HIDE DEF req, hash
  <2>4. IsSeq(wire') /\ Len(wire') = 1 /\ wire'[1] = req
    <3>1. IsSeq(wire) /\ Len(wire) = 0
      BY <2>1, EmptyIs
    <3>2. IsSeq(wire') /\ Len(wire') = Len(wire) + 1 /\ wire'[Len(wire) + 1] = req
      BY <2>1, <3>1, AppendIs
    <3>3. QED
      BY <3>1, <3>2
  <2>5. Prompts' = {1}
    BY <2>3, <2>4 DEF Prompts, IsSeq, TokenSubs
  <2>6. Offers' = {[prompt |-> calls, pin |-> call.pin]} /\ Offers = {}
    BY <2>1, <2>3, <2>4, <2>5, OffersAre DEF Offers
  <2>7. QED
    BY <1>1, <2>1, <2>6, OfferMaps
<1> HIDE DEF hash
<1>4. QED
  BY <1>2, <1>3 DEF Agreed, hash

LEMMA TokenReturnsMaps == ASSUME IInv, TokenReturns PROVE [PP!Next]_(PP!vars)
<1>1. Reading /\ pc = "token" /\ Got.status = "ok"
  BY GoodStatus DEF TokenReturns, GoodReply
<1>2. CASE \E err : Fails(err) /\ UNCHANGED token
  BY <1>1, <1>2, FailsMaps
<1>3. CASE Ends("none", 0, FALSE) /\ token'.asked = call
  <2>1. /\ issued = calls /\ call.n = calls /\ UNCHANGED <<call, calls, retries, issued>>
    BY <1>1, ReadingIs DEF StillSo
  <2>2. pc' = "idle" /\ Offers' = Offers
    BY <1>3, OffersStay DEF Ends
  <2>3. token'.asked.n = calls
    BY <1>3, <2>1
  <2>4. QED
    BY <1>1, <2>1, <2>2, <2>3, GrantMaps
<1> DEFINE plain == decrypt(keys, Got.cipher)
<1>4. \/ Fails(plain.err) /\ UNCHANGED token
      \/ Fails("length") /\ UNCHANGED token
      \/ Ends("none", 0, FALSE) /\ token' = [keys |-> keys, raw |-> plain.out, asked |-> call]
  BY DEF TokenReturns
<1> HIDE DEF plain
<1>5. CASE Ends("none", 0, FALSE) /\ token' = [keys |-> keys, raw |-> plain.out, asked |-> call]
  <2>1. token'.asked = call
    BY <1>5
  <2>2. QED
    BY <1>3, <1>5, <2>1
<1>6. QED
  BY <1>2, <1>4, <1>5

LEMMA ReadMaps ==
    ASSUME IInv, BadReply \/ PlainReturns \/ Agreed \/ TokenReturns \/ GivesUp
    PROVE  [PP!Next]_(PP!vars)
<1>1. CASE BadReply
  BY <1>1, FailsMaps DEF BadReply
<1>2. CASE PlainReturns
  BY <1>2, EndMaps, OffersStay DEF PlainReturns, GoodReply, Reading, Ends, authenticator
<1>3. CASE GivesUp
  BY <1>3, EndMaps, OffersStay DEF GivesUp, Fails, Ends, authenticator
<1>4. QED
  BY <1>1, <1>2, <1>3, AgreedMaps, TokenReturnsMaps

LEMMA StartMaps == ASSUME ClientPINAssumption, Init PROVE PP!Init
<1>1. retries \in 0 .. MaxRetries /\ issued = 0 /\ calls = 0 /\ pc = "idle" /\ token.asked.n = 0
  BY DEF ClientPINAssumption, Init, NoToken, NoCall
<1>2. Offers = {} /\ Typing = 0
  BY DEF Init, Offers, Prompts, Typing
<1>3. QED
  BY <1>1, <1>2 DEF PP!Init, Typing, Offers

(* A PIN that is typed is offered once, for its own prompt, and only a PIN    *)
(* that was found right is granted a token.                                   *)
THEOREM EachPromptOnce == ASSUME ~KeepsKey PROVE Spec => OneAttemptEach
<1>1. Init => PP!Init
  BY ClientPINAssumption, StartMaps
<1>2. IInv /\ [Next]_vars => [PP!Next]_(PP!vars)
  <2> SUFFICES ASSUME IInv, [Next]_vars PROVE [PP!Next]_(PP!vars)
    OBVIOUS
  <2>1. CASE UNCHANGED vars
    <3>1. Offers' = Offers /\ UNCHANGED <<pc, call, calls, token, retries, issued>>
      BY <2>1, OffersStay DEF vars
    <3>2. QED
      BY <3>1 DEF PP!vars, Offers
  <2>2. QED
    BY <2>1, CallMaps, ReadMaps, AuthenticatorMaps, OutsideMaps DEF Next
<1>3. QED
  BY <1>1, <1>2, Invariance, PTL DEF Spec, OneAttemptEach, PP!Spec

----------------------------------------------------------------------------
(* Types, whatever the caller does with its Key: what a token's length needs  *)
(* is that the protocol of the keys is still the one that was asked for.      *)
Typed == TypeOK /\ (pc = "token" => keys.proto = call.proto)

Numbers ==
    /\ retries \in 0 .. MaxRetries /\ misses \in 0 .. 3
    /\ calls \in 0 .. MaxCalls /\ timeouts \in 0 .. MaxTimeouts /\ outside \in 0 .. MaxOutside

LEMMA BeginTyped ==
    ASSUME Typed, NEW op \in {"PINRetries", "KeyAgreement", "PINToken", "Use"}, NEW pin, NEW proto,
           NEW perms, NEW rp, Begin(op, pin, proto, perms, rp),
           pc' \in {"idle", "retries", "key", "use"}
    PROVE  Typed'
<1>1. /\ calls < MaxCalls /\ calls' = calls + 1 /\ call'.op = op
      /\ UNCHANGED <<keys, token, timeouts, retries, misses, outside>>
  BY DEF Begin, authenticator
<1>2. Numbers'
  BY <1>1, BoundsAssumption DEF Typed, TypeOK, Numbers
<1>3. pc' # "token" /\ pc' \in {"idle", "retries", "key", "token", "use"}
  OBVIOUS
<1>4. QED
  BY <1>1, <1>2, <1>3 DEF Typed, Protocol, TypeOK, Numbers

LEMMA EndTyped ==
    ASSUME Typed, pc' = "idle", keys' = NoKeys, Numbers', UNCHANGED <<call, token>>
    PROVE  Typed'
<1>1. NoKeys.proto = 0 /\ keys'.proto \in {0, 1, 2}
  BY DEF NoKeys
<1>2. QED
  BY <1>1 DEF Typed, Protocol, TypeOK, Numbers

LEMMA CallTyped ==
    ASSUME Typed,
           \/ PINRetries
           \/ \E proto \in Protocols : KeyAgreement(proto)
           \/ \E pin \in Pins, proto \in Protocols, perms \in PermSets, rp \in TokenRPs :
                 PINToken(pin, proto, perms, rp)
           \/ \E perm \in {PermMakeCredential, PermGetAssertion}, rp \in UseRPs : UseToken(perm, rp)
    PROVE  Typed'
<1>1. CASE PINRetries
  BY <1>1, BeginTyped DEF PINRetries, Sends
<1>2. CASE \E proto \in Protocols : KeyAgreement(proto)
  BY <1>2, BeginTyped DEF KeyAgreement, Sends
<1>3. CASE \E pin \in Pins, proto \in Protocols, perms \in PermSets, rp \in TokenRPs :
              PINToken(pin, proto, perms, rp)
  <2>1. PICK pin \in Pins, proto \in Protocols, perms \in PermSets, rp \in TokenRPs :
           PINToken(pin, proto, perms, rp)
    BY <1>3
  <2>2. Begin("PINToken", pin, proto, perms, rp) /\ pc' \in {"idle", "key"}
    BY <2>1 DEF PINToken, Sends, Begin
  <2>3. QED
    BY <2>2, BeginTyped
<1>4. CASE \E perm \in {PermMakeCredential, PermGetAssertion}, rp \in UseRPs : UseToken(perm, rp)
  <2>1. PICK perm, rp : Begin("Use", 0, Protocol(token), perm, rp) /\ pc' = "use"
    BY <1>4 DEF UseToken, Sends
  <2>2. QED
    BY <2>1, BeginTyped
<1>5. QED
  BY <1>1, <1>2, <1>3, <1>4

LEMMA ReadTyped ==
    ASSUME Typed, BadReply \/ PlainReturns \/ Agreed \/ TokenReturns \/ GivesUp \/ Replug
    PROVE  Typed'
<1>1. CASE BadReply \/ PlainReturns
  <2>1. /\ pc' = "idle" /\ keys' = NoKeys
        /\ UNCHANGED <<call, token, calls, timeouts, retries, misses, outside>>
    BY <1>1 DEF BadReply, PlainReturns, GoodReply, Reading, Fails, Ends, authenticator
  <2>2. Numbers'
    BY <2>1 DEF Typed, TypeOK, Numbers
  <2>3. QED
    BY <2>1, <2>2, EndTyped
<1>2. CASE GivesUp
  <2>1. /\ pc' = "idle" /\ keys' = NoKeys /\ timeouts < MaxTimeouts /\ timeouts' = timeouts + 1
        /\ UNCHANGED <<call, token, calls, retries, misses, outside>>
    BY <1>2 DEF GivesUp, Fails, Ends, authenticator
  <2>2. Numbers'
    BY <2>1, BoundsAssumption DEF Typed, TypeOK, Numbers
  <2>3. QED
    BY <2>1, <2>2, EndTyped
<1>3. CASE Replug
  <2>1. /\ pc' = "idle" /\ keys' = NoKeys /\ outside < MaxOutside /\ outside' = outside + 1
        /\ misses' = 0 /\ UNCHANGED <<call, token, calls, timeouts, retries>>
    BY <1>3 DEF Replug, Outside
  <2>2. Numbers'
    BY <2>1, BoundsAssumption DEF Typed, TypeOK, Numbers
  <2>3. QED
    BY <2>1, <2>2, EndTyped
<1>4. CASE Agreed
  <2>1. UNCHANGED <<call, token, calls, timeouts, retries, misses, outside>>
    BY <1>4 DEF Agreed, GoodReply, Reading, authenticator
  <2>2. Numbers'
    BY <2>1 DEF Typed, TypeOK, Numbers
  <2>3. CASE pc' = "idle" /\ keys' = NoKeys
    BY <2>1, <2>2, <2>3, EndTyped
  <2>4. CASE Exchange.err = "none" /\ pc' = "token" /\ keys' = Exchange.keys
    <3>1. keys'.proto = call.proto /\ keys'.proto \in {0, 1, 2}
      <4>1. Exchange = deriveKeys(call.proto, ECDH(calls, Got.val))
        BY DEF Exchange, agree
      <4>2. PICK secret : secret = ECDH(calls, Got.val)
        OBVIOUS
      <4>3. deriveKeys(call.proto, secret).err = "none" /\ keys' = deriveKeys(call.proto, secret).keys
        BY <2>4, <4>1, <4>2
      <4>4. QED
        BY <4>3 DEF deriveKeys, PINProtocolOne, PINProtocolTwo
    <3>2. QED
      BY <2>1, <2>2, <2>4, <3>1 DEF Typed, TypeOK, Numbers, Protocol
  <2>5. QED
    BY <1>4, <2>3, <2>4, Zenon DEF Agreed, Fails, Ends, Sends
<1>5. CASE TokenReturns
  <2>1. /\ pc = "token" /\ pc' = "idle" /\ keys' = NoKeys
        /\ UNCHANGED <<call, calls, timeouts, retries, misses, outside>>
    BY <1>5 DEF TokenReturns, GoodReply, Reading, Fails, Ends, authenticator
  <2>2. Numbers'
    BY <2>1 DEF Typed, TypeOK, Numbers
  <2>3. CASE UNCHANGED token
    BY <2>1, <2>2, <2>3, EndTyped
  <2>4. CASE \E plain : /\ TokenLength(call.proto, plain.len)
                        /\ token' = [keys |-> keys, raw |-> plain, asked |-> call]
    <3>1. PICK plain : /\ TokenLength(call.proto, plain.len)
                       /\ token' = [keys |-> keys, raw |-> plain, asked |-> call]
      BY <2>4
    <3>2. token'.keys.proto = call.proto /\ token'.keys.proto \in {0, 1, 2} /\ token'.raw.len = plain.len
      BY <2>1, <3>1 DEF Typed, TypeOK
    <3>3. plain.len = 32 \/ (call.proto = PINProtocolOne /\ plain.len = 16)
      BY <3>1 DEF TokenLength
    <3>4. NoKeys.proto = 0 /\ call' = call
      BY <2>1 DEF NoKeys
    <3>5. QED
      BY <2>1, <2>2, <3>2, <3>3, <3>4 DEF Typed, TypeOK, Numbers, Protocol
  <2>5. QED
    BY <1>5, <2>3, <2>4, Zenon DEF TokenReturns
<1>6. QED
  BY <1>1, <1>2, <1>3, <1>4, <1>5

(* What the authenticator and other programs do only moves the counters. *)
LEMMA DeviceTyped ==
    ASSUME Typed, Authenticator \/ OtherMisses \/ OtherToken \/ TokenExpires
    PROVE  Typed'
<1>1. UNCHANGED caller
  BY DEF Authenticator, TellsRetries, RefusesProtocol, OffersKey, ChecksUse, RefusesToken, FindsRight,
         FindsWrong, JudgesPIN, Answers, Takes, OtherMisses, OtherToken, TokenExpires
<1>2. MaxRetries \in Nat /\ MaxOutside \in Nat /\ Numbers
  BY ClientPINAssumption, BoundsAssumption DEF Typed, TypeOK, Numbers
<1>3. ASSUME Misses, Blocked = "none" PROVE retries' \in 0 .. MaxRetries /\ misses' \in 0 .. 3
  BY <1>2, <1>3 DEF Misses, Blocked, BlockedBy, Numbers
<1>4. retries' \in 0 .. MaxRetries /\ misses' \in 0 .. 3
  <2>1. CASE OtherMisses \/ FindsWrong
    BY <1>3, <2>1 DEF OtherMisses, FindsWrong, JudgesPIN
  <2>2. CASE OtherToken \/ FindsRight
    BY <1>2, <2>2 DEF OtherToken, FindsRight
  <2>3. CASE TokenExpires
    BY <1>2, <2>3 DEF TokenExpires, counters, Numbers
  <2>4. CASE TellsRetries \/ RefusesProtocol \/ OffersKey \/ ChecksUse \/ RefusesToken
    <3>1. UNCHANGED authenticator
      BY <2>4 DEF TellsRetries, RefusesProtocol, OffersKey, ChecksUse, RefusesToken, Answers
    <3>2. QED
      BY <1>2, <3>1 DEF authenticator, Numbers
  <2>5. QED
    BY <2>1, <2>2, <2>3, <2>4 DEF Authenticator
<1>5. outside' \in 0 .. MaxOutside
  <2>1. outside' = outside \/ Outside
    BY DEF Authenticator, TellsRetries, RefusesProtocol, OffersKey, ChecksUse, RefusesToken, FindsRight,
           FindsWrong, JudgesPIN, Answers, Takes, OtherMisses, OtherToken, TokenExpires
  <2>2. QED
    BY <1>2, <2>1 DEF Outside, Numbers
<1>6. QED
  BY <1>1, <1>2, <1>4, <1>5 DEF caller, Typed, TypeOK, Numbers, Protocol

(* Type correctness; a token has one of the lengths its protocol allows, and  *)
(* the counters stay in their ranges.                                         *)
THEOREM TypeCorrect == Spec => []TypeOK
<1>1. Init => Typed
  BY ClientPINAssumption, BoundsAssumption
     DEF Init, Typed, TypeOK, NoCall, NoKeys, NoToken, Protocol, Noise, Bytes
<1>2. Typed /\ [Next]_vars => Typed'
  <2> SUFFICES ASSUME Typed, [Next]_vars PROVE Typed'
    OBVIOUS
  <2>1. CASE UNCHANGED vars
    BY <2>1 DEF vars, Typed, TypeOK, Protocol
  <2>2. QED
    BY <2>1, CallTyped, ReadTyped, DeviceTyped DEF Next
<1>3. Typed => TypeOK
  BY DEF Typed
<1>4. QED
  BY <1>1, <1>2, <1>3, PTL DEF Spec
=============================================================================
