# A TLA+ model of go-authn/fido

The package speaks the FIDO client-to-authenticator protocol to one security
key over a `Transport` that moves 64-byte reports. This directory models it from
`src/*.go`, checks the models with TLC and proves with TLAPS that they have the
safety properties the runs check: the framing, whose answers a Key returns, the
PIN exchange, what authenticator data and keys are read as, and the credentials.

## The system

| Part | Source | State | Operations | Talks to |
|---|---|---|---|---|
| Framing | `fido.go` | none | `Split` | used by `roundTrip` |
| Reassembler | `fido.go` | channel, message so far, promised length, sequence number, started | `Feed` (with `finish`) | one per `roundTrip` |
| INIT reply | `fido.go` | none | `ParseInit`, `Capabilities.Has` | used by `Open`, `Wink`, `GetInfo` |
| Key | `key.go` | transport, channel, version, capabilities | `Open`, `Ping`, `Wink`, `Close`, `roundTrip` | the transport, synchronously |
| CTAP2 calls | `ctap2.go` | none | `CBOR`, `GetInfo`, `parseInfo` | `roundTrip` |
| PIN protocols | `pinproto.go` | derived keys | `agree`, `deriveKeys`, `encrypt`, `decrypt`, `authenticate` | used by `PINToken` |
| Client PIN | `clientpin.go` | the `Token` a caller keeps | `PINRetries`, `KeyAgreement`, `PINToken`, `coseToECDH`, `ecdhToCOSE` | one or two CTAP2 calls |
| Credentials | `credential.go` | none; the caller keeps what a registration returned | `MakeCredential`, `GetAssertion` and the maps they send | one CTAP2 call, a token |
| Authenticator data | `authdata.go` | none | `ParseAuthData` | used by both credential calls |
| COSE key | `cose.go` | none | `AuthData.PublicKey` | the caller |
| Transport | interface in `key.go` | reports not yet received | `Send`, `Receive`, `Close` | external |

The library starts no goroutine and has no lock: a Key belongs to one caller,
and its calls do not overlap. What runs beside it is outside: the authenticator,
which answers when it likes, and the other programs that talk to the same
device. `Receive` "must not drop reports between calls", so whatever a call
leaves unread is there for the next one. The hard behaviours are therefore:

* a call that is given up (context, device, a failed `Send`) and what its answer
  does to the calls after it;
* reports interleaved with other programs', broken-off answers, keepalives;
* the limits of the framing: sequence numbers against the command mark, the
  length field against both, a message that exactly fills its packets;
* who owns the transport on every failing path;
* an exchange in two calls against an authenticator that changes its key in
  between, with ciphertexts nobody authenticates;
* an authenticator that is not this program's alone: other programs' wrong PINs
  change its key and its counters, tokens expire or are replaced, the plug is
  pulled between two calls;
* a registration that is given up and leaves a credential behind, and the late
  reply that is returned as somebody else's;
* replies that only their decoding tells apart, and a layout that depends on
  flags and nested lengths.

What makes each part correct: the framing carries every accepted message
unchanged; the reassembler is bounded and refuses without damage; a Key hands
every caller the reply to a request of its own, in order, and releases its
transport once; a token is the one made for this exchange and authorises what it
was asked for, and a PIN that is typed is offered once; what a registration returns
verifies the assertions made with it, and an account has one credential;
accepted authenticator data is accounted for byte by byte. The
hazards are listed at their lines in `PROJECT.json`, with the properties aimed
at each. One has none: a registration that is given up leaves a credential that
the program does not know, and nothing in the code prevents it.

## The modules

| Module | What it is | Code |
|---|---|---|
| `CTAPHID` | pure operators: `Split`, `Feed`, `ParseInit`, the constants | `fido.go` |
| `Reassembler` | one reassembler, any report in any order | `Reassembler.Feed`, `finish` |
| `Framing` | `Split` at one end, `Feed` at the other | `Split`, `Feed`, the send loop |
| `RequestReply` | abstract specification: what a Key promises about answers | - |
| `Session` | the life of a Key over a transport | `key.go`, `CBOR`, `GetInfo` |
| `PinProto` | pure operators: the PIN protocols, symbolically | `pinproto.go` |
| `PinPrompt` | abstract specification: what asking a person for a PIN costs | - |
| `ClientPIN` | the PIN exchange and the use of a token | `clientpin.go`, tokens in `credential.go`, statuses in `ctap2.go` |
| `AuthData` | pure operators: `ParseAuthData` over bytes | `authdata.go` |
| `CBOR` | pure operators: which CBOR types decode into which Go types | `field`, optional members |
| `COSE` | pure operators: keys as COSE maps, both ways | `cose.go`, `coseToECDH`, `ecdhToCOSE` |
| `SignedData` | authenticator data and keys written, damaged, read | `ParseAuthData`, `PublicKey`, `coseToECDH` |
| `Requests` | pure operators: arguments refused and maps sent | `credential.go` |
| `Replies` | pure operators: which replies each CTAP2 call takes for its answer | reply decoding in `ctap2.go`, `clientpin.go`, `credential.go` |
| `Credentials` | a program that registers credentials and verifies assertions | `credential.go` over `Requests`, `Replies`, `AuthData`, `COSE` |
| `CTAPHIDProofs`, `ReassemblerProofs`, `FramingProofs`, `SessionProofs`, `ClientPINProofs`, `AuthDataProofs`, `SignedDataProofs`, `CredentialsProofs` | theorems (`AuthDataProofs`: their lemmas about bytes and keys) | - |
| `MC*` | values of the constants for TLC | - |

How state and actions correspond to the code:

* **CTAPHID.** A report is a record of its header fields and body; its length is
  kept because `Feed` tests it. The 64, 0x80 and 0xFFFFFFFF of the code are the
  constants `ReportSize`, `HighBit` and `BroadcastChannel`. The command byte's
  high bit is the field `init`, computed from the sequence number as `byte(seq)`
  would set it, and the length field is taken modulo 2^16.
* **Session.** One action per call up to its first `Send`, one per `Send`, one
  per outcome of `Receive`. `rc` is the reassembler of the `roundTrip` under
  way; `k` the channel and capabilities of the Key; `st = "closed"` is the nil
  transport, and a call that would use it panics. The authenticator (`kasm`,
  `work`, `pending`), the transport (`inbox`) and other programs are external:
  they may answer well, refuse, answer another command, answer with too little,
  send a runt or break off. Each report carries a ghost, the request it answers.
* **ClientPIN.** Above `roundTrip`: a call sends a request (`wire`) and reads the
  oldest reply (`replies`). The authenticator is external and has state of its
  own (`retries`, `misses`, `priv`, `tok`); its actions take a request at any
  later moment. `OtherMisses`, `OtherToken`, `TokenExpires` and `Replug` are what
  happens to it outside this program. `GivesUp` is a `Receive` that failed;
  `KeepsKey` says whether the caller then closes the Key and opens the device
  again (a new `session`, whose replies alone are read) or goes on. A request
  that was given up is still handled. Cryptography is symbolic: a ciphertext
  opens only with its key, and with any other it gives noise of the same length,
  as AES-CBC without authentication does. `PinPrompt` sees the same run as
  prompts, offers of a PIN and grants: an offer is a token request on the wire.
* **Requests, Replies.** Requests are the CBOR maps, as functions from member
  numbers; a member is there or not. CBOR itself is external: `Fits` says which
  CBOR types the library takes into which Go type.
* **Credentials.** Each call builds its map with `Requests`, and the
  authenticator (external) answers it at once into `queue`, oldest first;
  `GiveUp` leaves the reply there, or loses it with the session. `known` is what
  the program keeps: the credential ID and the public key, cut out of the
  registration's bytes by `ParseAuthData` and read by `PublicKey`. A signature is
  known by its key and what it covers. The authenticator compares the type of a
  listed credential, may refuse empty members, may leave out the credential of an
  assertion when one was named, and may send replies it should not (`BadShapes`).
  The code's `PINToken` is two of the calls here, its key agreement and its own
  request; other calls may come between them, which adds behaviours. A key to
  agree with is read by `coseToECDH` of `COSE`.

## What is checked

| Run | Shows |
|---|---|
| `Reassembler` | `WithinFraming`, `NeverHoldsBack`, `RefusalChangesNothing` under any stream of reports; `CountedBytes` is what makes them inductive |
| `Framing` | `Unchanged`, `InStep`: both ends agree at every length, whatever came before |
| `Session` | `OneAnswer`, `Released`, `OwnChannel`, `SilentAfterClose`, and that a Key implements `RequestReply` (`AnswersInOrder`), with every fault on |
| `SessionLive` | `PingEchoes` and `CallsReturn` with a transport and device that work |
| `ClientPIN` | `TokenOfThisExchange`, `TokenAuthorises`, `RetriesAreCurrent`, `RightPINIsFree`; `AdviceHelps`: nobody is told to reset a key that only needs unplugging; `OneAttemptEach`: the exchange implements `PinPrompt` |
| `SignedData` | `ReadsBack`, `EveryByteAccounted` for authenticator data, `KeysReadBack`, `KeyAsStated` for COSE keys, as written and damaged |
| `Replies` | over `Credentials`: `KeptIsMade`: what is kept of a registration is a credential; `OwnKind` and `VerifiedMeansPIN` even when late replies have shifted the session; `AssertionVerifies`; `OneCredentialEach` as long as no registration was given up; `NothingEmptySent` |

Five runs end in a violation, each of something the repository says:

| Run | What the code does | What it says |
|---|---|---|
| `SessionStale` | after a ping that was given up, the next ping returns the old bytes | `key.go:108`: returned unchanged |
| `ClientPINStale` | after two calls given up on one Key, `PINToken` returns the noise an old reply decrypts to | `clientpin.go:160`, `229-232` |
| `SessionBroadcast` | a device may give out the broadcast channel, and later commands go there | `fido.go:44`: only `CmdInit` may |
| `ClientPINOldWay` | permissions are sent to an authenticator without `pinUvAuthToken` | `clientpin.go:163-165` |
| `ClientPINProtocol` | protocol 7 is sent in the key agreement request | `clientpin_test.go:507` |

### Bounds

* `Reassembler`: 8-byte reports (payloads of 1 and 3) and two sequence numbers,
  so the longest message is 7 bytes; promised lengths go to 20. `Framing`: the
  same reports, four sequence numbers, every length from 0 to 14, one beyond the
  limit. Nothing in the operators depends on 64 or 128; the proofs cover those.
* `Session`: 10-byte reports with 64 sequence numbers (the commands need six
  bits); pings of 1 byte (one packet), 4 (two) and one beyond the limit. At most
  `MaxCalls` = 3 requests (the handshake and two more, enough for an answer to
  reach the next call), `MaxInbox` = 3, one keepalive and one foreign report.
  `SessionLive` has four requests and two of each.
* `ClientPIN`: three calls, one of them given up, one thing happening outside; a
  right, a wrong and an empty PIN; protocols 1, 2 and 7; tokens of 16, 20 and 32
  bytes (right for one protocol, for none, for both); with and without
  permissions, narrowed to a relying party or not. The authenticator starts fresh
  or with two misses in a row and two attempts left, so that both the blocked
  state that unplugging ends and, after it, the one that only a reset ends are
  within three calls. The proofs have no such bounds.
* `SignedData`: the code's own sizes for authenticator data; coordinates of two
  bytes instead of 32, one of them small, on a curve of five points (two of the
  same x); two damaged places.
* `Replies`: three calls (register, register again or give up, assert), one reply
  that should not be made, members of other types and data of a token's length
  among them; two accounts of one relying party, a token the
  authenticator knows and one it does not, algorithms it has in either order. The
  package requests no extensions, so the authenticator data in these replies has
  none. (With 11 bytes of extensions an assertion's authenticator data would be
  48 bytes, which protocol two's length check takes for a token.)

`CHECK_DEADLOCK FALSE` stands where a model stops at its bounds, or after a
panic; `Reassembler` and `Framing` never stop and are checked for deadlock.

### Fairness

`FairSpec` (only in `SessionLive`) assumes weak fairness of `Send` and of the
reading loop, which run on the caller's goroutine without waiting for anything
else, and of `KeyAnswers` and `KeyEmits`: the only bound on a call is its
context, so a call returns only if the device answers or the context ends, and
that run has no ending context. Nothing is assumed of other programs, and
keepalives are bounded: a device that keeps a call alive for ever keeps it
waiting for ever, as `roundTrip`'s comment accepts.

## What is proved

The framing, and the reassembler, for every `ReportSize` above the header, every
`HighBit`, every set of reports or payloads (`FramingAssumption`,
`ReassemblerAssumption`, `EndsAssumption`); the others under the assumptions
named with them.

* `ReassemblerProofs`: `TypeCorrect`, `BytesCounted`, `FramingLimit`,
  `HoldsNothingBack` and `RefusalHarmless`. `WithinFraming` alone is not inductive: that a buffer fits
  now says nothing of the next packet. `CountedBytes`, the buffer is at most
  what `seq` continuation packets carry, is; with `TypeOK`'s bound on `seq`
  (a sequence number must equal a seven-bit field to be accepted) it gives the
  limit.
* `FramingProofs`: `TypeCorrect`, `RoundTrip` and `StaysInStep`. The invariant is `InStep`:
  between two packets of a message the reassembler's fields are a function of
  the message and of the number of packets sent. It needs `ContinuationsLeast`
  (in `CTAPHIDProofs`): the loop of `Split` ends at the first packet that
  completes the message, so `finish` fires at the last packet and not before;
  and `ContinuationsFit`: below the limit no sequence number sets the high bit.

* `SessionProofs`, first part: `ReleasedOnce` and `NothingAfterClose`, for every
  device, every report and any number of calls. `Released` needs to know what a
  call under way says of its Key (`Phases`): `Open` runs on a new Key, every
  other call on an open one, so a failing call releases the transport only if it
  is an `Open`.
* `SessionProofs`, second part: `SessionTypes`, `NeverMixed` (`OneAnswer`),
  `TalksOnItsOwn` (`OwnChannel`) and `PromiseKept`, that a Key implements
  `RequestReply`, with every fault on and any number of requests, reports and
  faults. `SessionAssumption` says what the code's sizes give: commands below the
  mark, an `INIT` reply in one packet, and a broadcast channel that is neither
  this Key's nor another program's.
  None of these is inductive: when a message completes, what was read decides
  whose bytes it holds. `AInv` therefore follows each reply from the device to
  the reassembler:
  - `Asked`, `Sending`: what is under way is the last request, and while its
    packets go out the device's own reassembler holds the part that was sent, or
    has heard nothing of it;
  - `Working`: the device takes requests in order, and what waits there is later
    than everything on its way;
  - `Coming`: of the reports on their way (`Stream`: read from the transport
    first, then what the device has yet to emit), the replies come in the order of their
    requests (`InOrder`), a continuation packet comes after the packet that starts
    its own reply, unless only its own reply is in front of it (`Chained`), and
    the parts of a ping's reply carry that ping's bytes (`EchoesWhole`);
  - `Reading`: a reassembler in the middle of a message holds packets of one
    reply, later than the last one consumed, and `Ahead` is what `Chained` says
    with the start already read. Without it a lost start would let the
    continuations of one reply complete another's;
  - `Opened`: the channel of an open Key is the one this device gave.
* `SessionProofs`, third part: `PingsReturn` (`PingEchoes`), from `~Unreliable` and
  `ReplyKinds = {"good"}`: no call is given up, and the device answers well. Keepalives, other
  programs' reports and any number of calls remain. `AInv` does not suffice: it
  follows what arrives, not that everything does. `EchoInv` adds
  - `Flowing`: the packets of a reply come in the order of their sequence numbers
    with none missing (`Rising`, `Whole`), and the next one is the one the
    reassembler waits for, so that no report is refused;
  - `OfCall`: what is on its way to this Key belongs to the call under way;
  - `Due`: all of that is needed to complete the reply, so that nothing is left
    over for the next call (`Clear`);
  - `CallsWork`: the request that the device works on is that of the call, of its
    length. That the bytes are the same then follows from `EchoesWhole`.

  Without the hypotheses it is false: in `SessionStale` a call that was given up
  leaves its reply to the next. With a device that also answers in other ways
  the property is neither checked nor proved.
* `ClientPINProofs`: `TypeCorrect`, and for a caller who opens the device again
  after a call that was given up (`~KeepsKey`): `TokenIsOurs`,
  `TokenDoesWhatWasAsked`, `CountIsCurrent`, `AdviceIsRight`,
  `RightPINCostsNothing`, and `EachPromptOnce`, that the exchange implements
  `PinPrompt`; for any number of calls, timeouts and outside events. The
  invariant says that such a caller has one request under way (`OneAtATime`), and
  what this request (`Asking`), a PIN on its way (`Offering`), the reply that
  waits (`Replied`) and the token that is kept (`Holding`) each know of the
  authenticator as it is now. The assumption is needed: `ClientPINStale` is a run
  without it in which `TokenOfThisExchange` fails.
* `AuthDataProofs` holds the lemmas of the last two. Cutting and joining: a
  sequence is its first n elements and the rest, once per part of the layout, and
  what follows a CBOR item does not move its end. Keys: a coordinate of n bytes
  has one value below 256^n and comes back from it. `big.Int`'s value is a
  recursive function, so this is an induction over the bytes, which follows from
  a theorem of the library that has no operator as parameter: inclusion is well
  founded among finite sets.
* `SignedDataProofs`: `Exactness`, accepted bytes are what their parts encode to,
  for every byte string; `RoundTrip`, what an authenticator writes is read back,
  for every length of its parts (`WrittenAssumption`: a length of the credential
  ID that fits two bytes, one CBOR item for the key and for the extensions);
  `KeysRoundTrip` and `KeysExact`, the same of COSE keys, for every width and
  every curve without (0, 0) whose coordinates fit the width (`COSEAssumption`).
  That changes, losses and additions keep the input a byte string, and every
  member of a key a CBOR item, is the invariant. CBOR items are the model's:
  small integers and short byte strings.
* `CredentialsProofs`: `SucceedsOnItsOwn`, `KeepsWhatWasMade`, `VerifiedByPIN`,
  `AssertionsVerify`, `NoSecondCredential` and `NothingEmpty` (`OwnKind`,
  `KeptIsMade`, `VerifiedMeansPIN`, `AssertionVerifies`, `OneCredentialEach`,
  `NothingEmptySent`), for any accounts,
  algorithms, tokens and plain replies, and any number of late and bad replies.
  `CInv` says
  - of a reply, waiting or just read, what the call it was made for fixes, and
    more if that is the call under way (`Waiting`, with `Sound`); of that call,
    that its arguments are those that passed the checks (`Asked`); and that a call
    which succeeded accepted its reply (`Taken`). Only a registration reads as
    one, and only an assertion as one (`OfKind`); otherwise the members' types
    and the length of a token tell the calls apart (`ToldApart`, `OnlyItsOwn`);
  - of what is kept, that the id and the key are a credential's of the
    authenticator (`Kept`, `Counting`): this is what an assertion is verified with;
  - while no registration was given up and no late reply left (`clean`), that
    every live credential of an account is among those kept, or the one whose
    reply is about to be read, so that the next registration excludes it (`Tidy`).

  `CredentialsAssumption` asks that the replies to the other calls, when they are
  as they should be, have members of their calls' types; one account to a user and
  relying party; ids of one byte, so fewer than 256 calls. A reply that should not
  be made may be anything that does not read as a registration or an assertion:
  one that does would be a credential that the authenticator did not make.

  `OwnKind` says what such replies can do. They never make a registration or an
  assertion succeed. A reply with a member of another type may make one of the
  other calls succeed, if it is late. And `PINToken` takes late data of exactly
  16, 32 or 48 bytes for a token, even of a reply to a registration or an
  assertion, if that call would have refused it. Authenticator data without
  extensions, all that this package asks for, never has these lengths.

One property stays with TLC: `CallsReturn`, which is liveness and beyond the
prover. `PingsReturn` is proved for the transport and device of `SessionLive`, the
run that checks it.

## What is not modelled

Versions, the names of `Status` and `Capabilities`, and every `String`, which
decide nothing (what the PIN statuses tell a person to do is modelled, since a
sentence of the wrong one costs credentials). `ctap2Ready` in `ClientPIN` and
`Credentials`: the same gate is modelled for `GetInfo` in `Session`. That
`ClientPIN` and `Credentials` sit on a Key is modelled by what `Session` shows a
Key does: a reply to an earlier request may come first. The point arithmetic of
P-256 (`Curve` is a set of points). Randomness failures inside `pinproto.go`,
which its comment calls unreachable. Extensions in requests, which the package
does not send. Transports live in other repositories, CBOR in a library.

## Plan

Done, in this order: `CTAPHID`, `Reassembler`, `Framing` and their proofs;
`Session` over `RequestReply`; `ClientPIN` over `PinPrompt` with an authenticator
that others use too; `AuthData`, `COSE`, `SignedData`; `Requests`, `Replies`,
`Credentials`; the proofs about `Session`, `ClientPIN`, `SignedData` and
`Credentials`.

Next: `PingEchoes` for a device that may also answer with an error, a wrong
command or a short reply. `EchoInv` would have to let a call fail on what it
reads with nothing of its reply left behind.
