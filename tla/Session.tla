------------------------------ MODULE Session ------------------------------
(***************************************************************************)
(* The life of a Key (key.go, and GetInfo/CBOR of ctap2.go) over a         *)
(* Transport: Open, Ping, Wink, GetInfo and Close, each call one roundTrip *)
(* that sends its packets and then reads reports one at a time.  A Key is  *)
(* used by one goroutine at a time, so calls do not overlap; what runs     *)
(* beside them is the device, which answers when it likes, and the other   *)
(* programs that talk to the same device.                                  *)
(*                                                                         *)
(* The device and the transport are external: modelled from the Transport  *)
(* contract and from what roundTrip's checks defend against.  Reports      *)
(* carry a ghost, the request they answer (0: none of ours).               *)
(***************************************************************************)
EXTENDS CTAPHID

CONSTANTS
    PingLens,       \* lengths of the payloads a caller pings with
    KeyCaps,        \* capability bytes the device may declare
    ReplyKinds,     \* how the device may answer, see Reply
    Unreliable,     \* may Send and Receive fail (lost device, expired context)?
    MaxCalls,       \* bound on the requests sent
    MaxInbox,       \* bound on the reports waiting in the transport
    MaxKeepalives,  \* bound on the keepalives the device sends
    MaxForeign      \* bound on the reports other programs cause

VARIABLES
    st,         \* the Key: "new", "failed" (Open returned nil), "open", "closed", "panicked"
    k,          \* its fields: channel, caps
    pc,         \* "idle", or where in roundTrip: "send", "recv"
    call,       \* the call under way: op, cmd, data
    packets,    \* packets not yet sent
    rc,         \* roundTrip's reassembler
    last,       \* what the last call returned: op, err, data, and the ghost of
    closes,     \* how often the transport was closed
    sent,       \* ghost: the command of every request
    from,       \* ghost: which requests the reports in rc answer
    consumed,   \* ghost: the last request whose reply roundTrip has read whole
    given,      \* device: the channel it gave to our nonce, 0 before
    kasm,       \* device: the request being received, per channel
    work,       \* device: requests not yet answered
    pending,    \* device: reports of the answer being sent
    inbox,      \* transport: reports that arrived and were not read
    alive,      \* device: keepalives sent
    foreign     \* reports caused by other programs

client == <<st, k, pc, call, packets, rc, last, closes, sent, from, consumed>>
device == <<given, kasm, work, pending, alive>>
vars == <<client, device, inbox, foreign>>

OurNonce == 50
OtherNonce == 51
KeyChannel == 1       \* what the device gives our nonce
OtherChannel == 2     \* what it gives another program's
Channels == {BroadcastChannel, KeyChannel}

(* What the code's sizes give: every command is below the mark, an INIT reply *)
(* fits its initialisation packet (17 bytes of 57), and the broadcast channel *)
(* is no channel that a device gives out.                                     *)
ASSUME SessionAssumption ==
    /\ HighBit > CmdError
    /\ initPayload >= InitReplyLen
    /\ BroadcastChannel \in Nat \ {0, KeyChannel, OtherChannel}
    /\ PingLens \subseteq Nat /\ KeyCaps \subseteq Nat
    /\ ReplyKinds \subseteq {"good", "error", "command", "empty", "status", "short", "none",
                             "broadcast", "cut"}

NoCall == [op |-> "none", cmd |-> 0, data |-> << >>]

Result(op, err, data, of) == [op |-> op, err |-> err, data |-> data, of |-> of]

NoResult == Result("none", "none", << >>, {})

Init ==
    /\ st = "new" /\ pc = "idle"
    /\ k = [channel |-> BroadcastChannel, caps |-> 0]
    /\ call = NoCall /\ packets = << >> /\ last = NoResult
    /\ rc = NewReassembler(BroadcastChannel)
    /\ closes = 0 /\ sent = << >> /\ from = {} /\ consumed = 0 /\ given = 0
    /\ kasm = [c \in Channels |-> NewReassembler(c)]
    /\ work = << >> /\ pending = << >> /\ inbox = << >> /\ alive = 0 /\ foreign = 0

----------------------------------------------------------------------------
(***************************************************************************)
(* The device and the other programs (external).                           *)
(***************************************************************************)

(* A packet reaches the device, which assembles requests as CTAPHID says. *)
KeyReceives(report) ==
    LET f == Feed(kasm[report.ch], report) IN
    /\ kasm' = [kasm EXCEPT ![report.ch] = f.rc]
    /\ work' = IF f.done
               THEN Append(work, [id  |-> Len(sent), ch |-> report.ch,
                                  cmd |-> f.msg.cmd, data |-> f.msg.data])
               ELSE work
    /\ UNCHANGED <<given, pending, alive>>

ShortReport(ch) ==
    [size |-> contHeader - 1, ch |-> ch, init |-> TRUE, val |-> 0, len |-> 0, body |-> << >>]

GoodReply(req, channel, caps) ==
    CASE req.cmd = CmdInit -> InitReply(req.data[1], channel, caps)
      [] req.cmd = CmdPing -> req.data
      [] req.cmd = CmdWink -> << >>
      [] req.cmd = CmdCBOR -> <<0, req.id>>

(* The reports of an answer of some kind. *)
Reply(req, kind, channel, caps) ==
    CASE kind = "good"    -> Split(req.ch, req.cmd, GoodReply(req, channel, caps)).packets
      [] kind = "error"   -> Split(req.ch, CmdError, <<1>>).packets
      [] kind = "command" -> Split(req.ch, CmdMsg, <<req.id>>).packets
      [] kind = "empty"   -> Split(req.ch, req.cmd, << >>).packets
      [] kind = "status"  -> Split(req.ch, req.cmd, <<1>>).packets
      [] kind = "short"   -> <<ShortReport(req.ch)>>
      [] kind = "none"    -> << >>

(* "empty" is a fault only where the good answer has bytes, "status" is a    *)
(* CTAP2 refusal, and "broadcast" gives out the channel that is nobody's.    *)
Suits(kind, cmd) ==
    /\ kind = "empty" => cmd \in {CmdInit, CmdCBOR}
    /\ kind = "status" => cmd = CmdCBOR
    /\ kind # "broadcast" /\ kind # "cut"

KeyAnswers ==
    /\ work # << >> /\ pending = << >>
    /\ LET req == Head(work) IN
       \E kind \in ReplyKinds, caps \in KeyCaps, channel \in Channels :
          /\ Suits(kind, req.cmd)
          /\ channel = KeyChannel \/ "broadcast" \in ReplyKinds
          /\ LET reports == Reply(req, kind, channel, caps) IN
             pending' = [i \in 1 .. Len(reports) |-> [rep |-> reports[i], of |-> req.id]]
          /\ given' = IF req.cmd = CmdInit THEN channel ELSE given
    /\ work' = Tail(work)
    /\ UNCHANGED <<client, kasm, inbox, alive, foreign>>

KeyEmits ==
    /\ pending # << >> /\ Len(inbox) < MaxInbox
    /\ inbox' = Append(inbox, Head(pending)) /\ pending' = Tail(pending)
    /\ UNCHANGED <<client, given, kasm, work, alive, foreign>>

(* It stops in the middle of an answer. *)
KeyCuts ==
    /\ "cut" \in ReplyKinds
    /\ pending # << >> /\ pending' = << >>
    /\ UNCHANGED <<client, given, kasm, work, inbox, alive, foreign>>

(* Still working on the request, usually waiting for a finger. *)
KeyKeepsAlive ==
    /\ work # << >> /\ pending = << >> /\ Len(inbox) < MaxInbox /\ alive < MaxKeepalives
    /\ alive' = alive + 1
    /\ inbox' = Append(inbox, [rep |-> InitPacket(Head(work).ch, CmdKeepalive, <<2>>),
                               of  |-> Head(work).id])
    /\ UNCHANGED <<client, given, kasm, work, pending, foreign>>

(* A report for another program's channel, or the answer to its INIT. *)
OtherProgram ==
    /\ foreign < MaxForeign /\ Len(inbox) < MaxInbox
    /\ foreign' = foreign + 1
    /\ \E rep \in {InitPacket(OtherChannel, CmdPing, <<9>>),
                   InitPacket(BroadcastChannel, CmdInit,
                              InitReply(OtherNonce, OtherChannel, CapWink + CapCBOR))} :
          inbox' = Append(inbox, [rep |-> rep, of |-> 0])
    /\ UNCHANGED <<client, device>>

----------------------------------------------------------------------------
(***************************************************************************)
(* Calls.                                                                  *)
(***************************************************************************)
NotSending == UNCHANGED <<device, inbox, foreign>>

(* The call returned an error before anything was sent. *)
Rejected(op, err) ==
    /\ last' = Result(op, err, << >>, {})
    /\ UNCHANGED <<st, k, pc, call, packets, rc, closes, sent, from, consumed>>
    /\ NotSending

(* After Close the transport is nil, and the first use of it panics. *)
Panics ==
    /\ st' = "panicked"
    /\ UNCHANGED <<k, pc, call, packets, rc, last, closes, sent, from, consumed>>
    /\ NotSending

(* Mutant: Close leaves the transport with the Key. *)
GoneNever == FALSE

(* The Key's transport is nil. *)
Gone == st = "closed"

(* roundTrip up to its first Send. *)
RoundTrip(op, cmd, data) ==
    IF TooLong(data) THEN Rejected(op, "ErrTooLong")
    ELSE IF Gone THEN Panics
    ELSE /\ Len(sent) < MaxCalls
         /\ pc' = "send" /\ call' = [op |-> op, cmd |-> cmd, data |-> data]
         /\ packets' = Split(k.channel, cmd, data).packets
         /\ sent' = Append(sent, cmd)
         /\ UNCHANGED <<st, k, rc, last, closes, from, consumed>>
         /\ NotSending

(* Wink and GetInfo name the device in their refusal. *)
Incapable(op) ==
    IF Gone THEN Panics ELSE Rejected(op, "incapable")

HasKey == pc = "idle" /\ st \in {"open", "closed"}

(* k.Close() in Open, before it returns nil. *)
GivesBack == st' = "failed" /\ closes' = closes + 1

Open ==
    /\ pc = "idle" /\ st = "new"
    /\ \/ /\ Unreliable      \* no randomness for the nonce
          /\ GivesBack
          /\ last' = Result("Open", "nonce", << >>, {})
          /\ UNCHANGED <<k, pc, call, packets, rc, sent, from, consumed>>
          /\ NotSending
       \/ RoundTrip("Open", CmdInit, <<OurNonce>>)

Ping ==
    /\ HasKey
    /\ \E n \in PingLens : RoundTrip("Ping", CmdPing, [j \in 1 .. n |-> Len(sent) + 1])

Wink ==
    /\ HasKey
    /\ IF Has(k.caps, CapWink) THEN RoundTrip("Wink", CmdWink, << >>) ELSE Incapable("Wink")

CmdGetInfo == 4

GetInfo ==
    /\ HasKey
    /\ IF Has(k.caps, CapCBOR) THEN RoundTrip("GetInfo", CmdCBOR, <<CmdGetInfo>>)
       ELSE Incapable("GetInfo")

Close ==
    /\ HasKey
    /\ st' = "closed"
    /\ closes' = IF Gone THEN closes ELSE closes + 1
    /\ last' = Result("Close", "none", << >>, {})
    /\ UNCHANGED <<k, pc, call, packets, rc, sent, from, consumed>>
    /\ NotSending

----------------------------------------------------------------------------
(***************************************************************************)
(* The rest of roundTrip.                                                  *)
(***************************************************************************)

(* What Feed makes of the next report, and whose reports are then in rc. *)
Fed == Feed(rc, Head(inbox).rep)

FedFrom ==
    IF Fed.err # "none" THEN from
    ELSE IF Head(inbox).rep.init THEN {Head(inbox).of} ELSE from \cup {Head(inbox).of}

(* The call ends with an error. *)
Ends(err) ==
    /\ pc' = "idle" /\ packets' = << >>
    /\ last' = Result(call.op, err, << >>, {})

(* roundTrip or a check of CBOR failed; Open passes that on. *)
Fails(err) ==
    /\ Ends(err)
    /\ IF call.op = "Open" THEN GivesBack ELSE UNCHANGED <<st, closes>>

(* Open cannot read the INIT reply. *)
Malformed(err) == Ends(err) /\ GivesBack

(* Mutant: one of Open's errors leaves the transport to the caller. *)
MistakenHalfOpen == Ends("another program") /\ st' = "failed" /\ UNCHANGED closes

(* The INIT reply answers another program. *)
Mistaken == Ends("another program") /\ GivesBack

Succeeds(data) ==
    /\ pc' = "idle"
    /\ last' = Result(call.op, "none", data, FedFrom)
    /\ UNCHANGED <<packets, closes>>

(* The last packet is followed by a new reassembler for the Key's channel. *)
Send ==
    /\ pc = "send"
    /\ KeyReceives(Head(packets))
    /\ packets' = Tail(packets)
    /\ IF Tail(packets) = << >>
       THEN pc' = "recv" /\ rc' = NewReassembler(k.channel) /\ from' = {}
       ELSE UNCHANGED <<pc, rc, from>>
    /\ UNCHANGED <<st, k, call, last, closes, sent, consumed, inbox, foreign>>

SendFails ==
    /\ pc = "send" /\ Unreliable
    /\ Fails("send")
    /\ UNCHANGED <<k, call, rc, sent, from, consumed>> /\ NotSending

(* The context ended or the device went away; what it still sends is kept. *)
ReceiveFails ==
    /\ pc = "recv" /\ Unreliable
    /\ Fails("receive")
    /\ UNCHANGED <<k, call, rc, sent, from, consumed>> /\ NotSending

Receive ==
    /\ pc = "recv" /\ inbox # << >>
    /\ inbox' = Tail(inbox) /\ rc' = Fed.rc /\ from' = FedFrom
    /\ UNCHANGED <<call, sent, device, foreign>>

(* Mutant: a keepalive is taken for an answer. *)
SkipsNoKeepalive ==
    \/ Fed.err = "ErrWrongChannel"
    \/ Fed.err = "none" /\ ~Fed.done

(* Another program's report, a part of the answer, or a keepalive: go on. *)
Skips ==
    \/ Fed.err = "ErrWrongChannel"
    \/ Fed.err = "none" /\ ~Fed.done
    \/ Fed.done /\ Fed.msg.cmd = CmdKeepalive

KeepsWaiting ==
    /\ Receive /\ Skips
    /\ UNCHANGED <<st, k, pc, packets, last, closes, consumed>>

BadReport ==
    /\ Receive /\ Fed.err # "none" /\ ~Skips
    /\ Fails(Fed.err)
    /\ UNCHANGED <<k, consumed>>

(* A whole message that is not a keepalive. *)
Reads ==
    /\ Receive /\ Fed.done /\ ~Skips
    /\ consumed' = IF FedFrom = {0} THEN consumed
                   ELSE CHOOSE j \in FedFrom : \A i \in FedFrom : i <= j

Refused ==
    /\ Reads /\ IsError(Fed.msg)
    /\ Fails("refused")
    /\ UNCHANGED k

OtherCommand ==
    /\ Reads /\ ~IsError(Fed.msg) /\ Fed.msg.cmd # call.cmd
    /\ Fails("command")
    /\ UNCHANGED k

(* Mutant: the command of the answer is not looked at. *)
IsAnyAnswer == ~IsError(Fed.msg)

IsAnswer == ~IsError(Fed.msg) /\ Fed.msg.cmd = call.cmd

(* Mutant: Open believes the first INIT reply it sees. *)
AnyNonce(init) == TRUE

OwnNonce(init) == init.nonce = OurNonce

(* Open takes the channel from an answer that carries its own nonce. *)
OpenReturns ==
    /\ Reads /\ IsAnswer /\ call.op = "Open"
    /\ LET init == ParseInit(Fed.msg.data) IN
       IF init.err # "none" THEN Malformed(init.err) /\ UNCHANGED k
       ELSE IF ~OwnNonce(init) THEN Mistaken /\ UNCHANGED k
       ELSE /\ st' = "open" /\ k' = [channel |-> init.channel, caps |-> init.caps]
            /\ Succeeds(<< >>)

(* Ping and Wink return as roundTrip does; Wink drops the bytes. *)
PingReturns ==
    /\ Reads /\ IsAnswer /\ call.op \in {"Ping", "Wink"}
    /\ Succeeds(IF call.op = "Ping" THEN Fed.msg.data ELSE << >>)
    /\ UNCHANGED <<st, k>>

(* CBOR checks the status byte and returns the body after it. *)
CBORReturns ==
    /\ Reads /\ IsAnswer /\ call.op = "GetInfo"
    /\ LET data == Fed.msg.data IN
       IF data = << >> THEN Fails("nothing")
       ELSE IF data[1] # 0 THEN Fails("status")
       ELSE Succeeds(Tail(data)) /\ UNCHANGED st
    /\ UNCHANGED k

----------------------------------------------------------------------------
DeviceStep == KeyAnswers \/ KeyEmits \/ KeyKeepsAlive

ReceiveStep ==
    \/ KeepsWaiting \/ BadReport \/ Refused \/ OtherCommand
    \/ OpenReturns \/ PingReturns \/ CBORReturns

Next ==
    \/ Open \/ Ping \/ Wink \/ GetInfo \/ Close
    \/ Send \/ SendFails \/ ReceiveFails \/ ReceiveStep
    \/ DeviceStep \/ KeyCuts \/ OtherProgram

Spec == Init /\ [][Next]_vars

(* The caller's goroutine goes on, and the device works; neither a caller    *)
(* who gives up nor another program is relied on.                            *)
Fairness ==
    /\ WF_vars(Send) /\ WF_vars(ReceiveStep)
    /\ WF_vars(KeyAnswers) /\ WF_vars(KeyEmits)

FairSpec == Spec /\ Fairness

----------------------------------------------------------------------------
Report ==
    [size : 0 .. ReportSize, ch : Channels \cup {OtherChannel}, init : BOOLEAN,
     val : 0 .. HighBit - 1, len : 0 .. MaxMessage, body : Seq(Nat)]

InboxReport == [rep : Report, of : 0 .. Len(sent)]

Assembling(chs) ==
    [channel : chs, cmd : 0 .. HighBit - 1, data : Seq(Nat), want : 0 .. MaxMessage,
     seq : 0 .. MaxContinuations, started : BOOLEAN]

TypeOK ==
    /\ st \in {"new", "failed", "open", "closed", "panicked"}
    /\ k \in [channel : Channels, caps : KeyCaps \cup {0}]
    /\ pc \in {"idle", "send", "recv"}
    /\ call \in [op : {"none", "Open", "Ping", "Wink", "GetInfo"}, cmd : 0 .. HighBit - 1,
                 data : Seq(Nat)]
    /\ pc = "send" => packets # << >>
    /\ rc \in Assembling(Channels)
    /\ closes \in 0 .. 1 /\ consumed \in 0 .. Len(sent) /\ from \subseteq 0 .. Len(sent)
    /\ kasm \in [Channels -> Assembling(Channels)]
    /\ inbox \in Seq(InboxReport) /\ pending \in Seq(InboxReport)

(* A message is put together from the reports of one answer only: parts of   *)
(* an answer whose call was given up, of another program's traffic or of an  *)
(* answer the device broke off never end up in it (the new Reassembler of    *)
(* every roundTrip, the restart at an initialisation packet, the sequence    *)
(* check).  The bytes of a ping are all the number of its request.           *)
OneAnswer ==
    /\ \A i, j \in from : i = j
    /\ \A i, j \in last.of : i = j
    /\ last.op = "Ping" => \A i, j \in DOMAIN last.data : last.data[i] = last.data[j]

(* The transport is closed exactly when the caller can no longer reach it: a *)
(* failed Open and Close release it, once, and nothing else does (Open's     *)
(* promise that a caller never has to unwind a half-open device).            *)
Released == closes = (IF st \in {"failed", "closed", "panicked"} THEN 1 ELSE 0)

(* The channel an open Key talks on is the one the device gave to this Key's *)
(* own INIT, whatever other programs negotiate meanwhile on the broadcast    *)
(* channel (the nonce check of Open).                                        *)
OwnChannel == st \in {"open", "closed"} => k.channel = given /\ given # 0

(* Nothing reaches the device after Close: a later call panics or is refused *)
(* before its first Send, and the device works off the requests it had.      *)
SilentAfterClose ==
    [][closes = 1 =>
          /\ work' = work \/ (work # << >> /\ work' = Tail(work))
          /\ UNCHANGED <<kasm, sent>>]_vars

(* What a Key promises about answers.                                        *)
Promise == INSTANCE RequestReply WITH
    Commands <- {CmdInit, CmdPing, CmdWink, CmdCBOR},
    busy     <- pc # "idle",
    answer   <- last.of

(* Every answer a caller gets is the reply to one of its own requests, for   *)
(* the same command, each at most once and in order; so as long as no call   *)
(* failed it is the reply to this very request.                              *)
AnswersInOrder == Promise!Spec

(* With a device that answers and a transport that works, every call comes   *)
(* back, however keepalives and other programs' reports are mixed in.        *)
CallsReturn == pc # "idle" ~> pc = "idle"

(* A ping that comes back comes back unchanged (Ping, CmdPing).              *)
PingEchoes ==
    pc = "idle" /\ last.op = "Ping" /\ last.err = "none" => last.data = call.data

(* Only CmdInit is sent on the broadcast channel (BroadcastChannel).         *)
OnlyInitOnBroadcast ==
    pc = "send" /\ Head(packets).ch = BroadcastChannel => call.cmd = CmdInit
============================================================================
