--------------------------- MODULE SessionProofs ---------------------------
(***************************************************************************)
(* Three arguments: who owns the transport, which reply answers a call,    *)
(* and that a ping comes back whole.                                       *)
(*                                                                         *)
(* Whoever fails, the transport is closed once and nothing follows it.     *)
(* The invariant adds to Released what a call under way says of the Key:   *)
(* Open runs on a new Key, every other call on an open one.                *)
(***************************************************************************)
EXTENDS Session, CTAPHIDProofs, SequenceTheorems, TLAPS

Phases ==
    /\ st \in {"new", "failed", "open", "closed", "panicked"}
    /\ pc \in {"idle", "send", "recv"}
    /\ pc # "idle" => st = IF call.op = "Open" THEN "new" ELSE "open"

IInv == Phases /\ Released

LEMMA Start == ASSUME Init PROVE IInv
BY DEF Init, IInv, Phases, Released

(* Before the first Send. *)
LEMMA RoundTripKeeps ==
    ASSUME IInv, NEW op, NEW cmd, NEW data, RoundTrip(op, cmd, data), pc = "idle",
           \/ op = "Open" /\ st = "new"
           \/ op # "Open" /\ st \in {"open", "closed"}
    PROVE  IInv'
<1>1. CASE Rejected(op, "ErrTooLong")
  BY <1>1 DEF Rejected, IInv, Phases, Released
<1>2. CASE Gone /\ Panics
  BY <1>2 DEF Gone, Panics, IInv, Phases, Released
<1>3. CASE ~Gone /\ pc' = "send" /\ call'.op = op /\ UNCHANGED <<st, closes>>
  BY <1>3 DEF Gone, IInv, Phases, Released
<1>4. QED
  BY <1>1, <1>2, <1>3 DEF RoundTrip

LEMMA IncapableKeeps == ASSUME IInv, NEW op, Incapable(op), HasKey PROVE IInv'
BY DEF Incapable, HasKey, Panics, Rejected, Gone, IInv, Phases, Released

LEMMA CallKeeps == ASSUME IInv, Open \/ Ping \/ Wink \/ GetInfo \/ Close PROVE IInv'
<1>1. CASE Open
  BY <1>1, RoundTripKeeps DEF Open, GivesBack, IInv, Phases, Released
<1>2. CASE Ping
  BY <1>2, RoundTripKeeps DEF Ping, HasKey
<1>3. CASE Wink
  BY <1>3, RoundTripKeeps, IncapableKeeps DEF Wink, HasKey
<1>4. CASE GetInfo
  BY <1>4, RoundTripKeeps, IncapableKeeps DEF GetInfo, HasKey
<1>5. CASE Close
  BY <1>5 DEF Close, HasKey, Gone, IInv, Phases, Released
<1>6. QED
  BY <1>1, <1>2, <1>3, <1>4, <1>5

(* A call ends, with an error, or with an answer that opens a new Key. *)
LEMMA FailsKeeps == ASSUME IInv, pc # "idle", NEW err, Fails(err) PROVE IInv'
BY DEF Fails, Ends, GivesBack, IInv, Phases, Released

(* Both of Open's own refusals give the transport back, as one of roundTrip does. *)
LEMMA OpenRefuses ==
    ASSUME OpenReturns, NEW init, init = ParseInit(Fed.msg.data)
    PROVE  /\ init.err # "none" => Fails(init.err)
           /\ init.err = "none" /\ ~OwnNonce(init) => Fails("another program")
           /\ init.err = "none" /\ OwnNonce(init) => st' = "open" /\ Succeeds(<< >>)
BY DEF OpenReturns, Malformed, Mistaken, Fails

LEMMA SucceedsKeeps ==
    ASSUME IInv, pc # "idle", NEW data, Succeeds(data),
           \/ call.op = "Open" /\ st' = "open"
           \/ UNCHANGED st
    PROVE  IInv'
BY DEF Succeeds, IInv, Phases, Released

LEMMA ReceiveKeeps == ASSUME IInv, ReceiveStep PROVE IInv'
<1>1. CASE KeepsWaiting
  BY <1>1 DEF KeepsWaiting, Receive, IInv, Phases, Released
<1>2. CASE BadReport \/ Refused \/ OtherCommand
  <2>1. pc = "recv" /\ \E err : Fails(err)
    BY <1>2 DEF BadReport, Refused, OtherCommand, Reads, Receive
  <2>2. QED
    BY <2>1, FailsKeeps
<1>3. CASE OpenReturns
  <2>1. pc = "recv" /\ call.op = "Open" /\ ((\E err : Fails(err)) \/ (st' = "open" /\ Succeeds(<< >>)))
    BY <1>3, OpenRefuses DEF OpenReturns, Reads, Receive
  <2>2. QED
    BY <2>1, FailsKeeps, SucceedsKeeps
<1>4. CASE PingReturns
  <2>1. pc = "recv" /\ UNCHANGED st /\ \E data : Succeeds(data)
    BY <1>4 DEF PingReturns, Reads, Receive
  <2>2. QED
    BY <2>1, SucceedsKeeps
<1>5. CASE CBORReturns
  <2>1. pc = "recv" /\ ((\E err : Fails(err)) \/ (UNCHANGED st /\ \E data : Succeeds(data)))
    BY <1>5 DEF CBORReturns, Reads, Receive
  <2>2. QED
    BY <2>1, FailsKeeps, SucceedsKeeps
<1>6. QED
  BY <1>1, <1>2, <1>3, <1>4, <1>5 DEF ReceiveStep

LEMMA Step == ASSUME IInv, [Next]_vars PROVE IInv'
<1>1. CASE Send
  BY <1>1 DEF Send, IInv, Phases, Released
<1>2. CASE SendFails \/ ReceiveFails
  BY <1>2, FailsKeeps DEF SendFails, ReceiveFails
<1>3. CASE DeviceStep \/ KeyCuts \/ OtherProgram \/ UNCHANGED vars
  <2>1. UNCHANGED <<st, pc, call, closes>>
    BY <1>3 DEF DeviceStep, KeyAnswers, KeyEmits, KeyKeepsAlive, KeyCuts, OtherProgram, vars, client
  <2>2. QED
    BY <2>1 DEF IInv, Phases, Released
<1>4. QED
  BY <1>1, <1>2, <1>3, CallKeeps, ReceiveKeeps DEF Next

----------------------------------------------------------------------------
THEOREM Invariance == Spec => []IInv
<1>1. Init => IInv
  BY Start
<1>2. IInv /\ [Next]_vars => IInv'
  BY Step
<1>3. QED
  BY <1>1, <1>2, PTL DEF Spec

(* A failed Open and Close release the transport, once, and nothing else does. *)
THEOREM ReleasedOnce == Spec => []Released
<1>1. IInv => Released
  BY DEF IInv
<1>2. QED
  BY <1>1, Invariance, PTL

(* Once it is released, no call reaches the device. *)
LEMMA NobodyCalls == ASSUME IInv, closes = 1 PROVE pc = "idle" /\ st \in {"failed", "closed", "panicked"}
BY DEF IInv, Phases, Released

LEMMA RoundTripSilent ==
    ASSUME NEW op, NEW cmd, NEW data, RoundTrip(op, cmd, data), Gone
    PROVE  UNCHANGED <<work, kasm, sent>>
BY DEF RoundTrip, Rejected, Panics, NotSending, device

LEMMA IncapableSilent == ASSUME NEW op, Incapable(op) PROVE UNCHANGED <<work, kasm, sent>>
BY DEF Incapable, Rejected, Panics, NotSending, device

THEOREM NothingAfterClose == Spec => SilentAfterClose
<1> DEFINE Silent ==
        closes = 1 =>
          /\ work' = work \/ (work # << >> /\ work' = Tail(work))
          /\ UNCHANGED <<kasm, sent>>
<1>1. IInv /\ [Next]_vars => [Silent]_vars
  <2> SUFFICES ASSUME IInv, Next, closes = 1
               PROVE  /\ work' = work \/ (work # << >> /\ work' = Tail(work))
                      /\ UNCHANGED <<kasm, sent>>
    OBVIOUS
  <2>1. pc = "idle" /\ st # "new" /\ st # "open"
    BY NobodyCalls
  <2>2. CASE Ping \/ Wink \/ GetInfo
    <3>1. Gone
      BY <2>1, <2>2 DEF Ping, Wink, GetInfo, HasKey, Gone
    <3>2. QED
      BY <2>2, <3>1, RoundTripSilent, IncapableSilent DEF Ping, Wink, GetInfo
  <2>3. CASE Close
    BY <2>3 DEF Close, NotSending, device
  <2>4. CASE DeviceStep \/ KeyCuts \/ OtherProgram
    BY <2>4 DEF DeviceStep, KeyAnswers, KeyEmits, KeyKeepsAlive, KeyCuts, OtherProgram, client, device
  <2>5. ~(Open \/ Send \/ SendFails \/ ReceiveFails \/ ReceiveStep)
    BY <2>1 DEF Open, Send, SendFails, ReceiveFails, ReceiveStep, KeepsWaiting, BadReport, Refused,
       OtherCommand, OpenReturns, PingReturns, CBORReturns, Reads, Receive
  <2>6. QED
    BY <2>2, <2>3, <2>4, <2>5 DEF Next
<1>2. QED
  BY <1>1, Invariance, PTL DEF Spec, SilentAfterClose

----------------------------------------------------------------------------
(***************************************************************************)
(* Every answer a Key returns is put together from one reply, the reply to *)
(* a request of this Key, and replies are used up in the order of their    *)
(* requests, whatever the device breaks off, the transport loses and other *)
(* programs send in between.                                               *)
(*                                                                         *)
(* The invariant follows a reply through the device (work), the reports on *)
(* their way (Stream) and the reassembler.  Requests are answered in their *)
(* order, so the ghosts of the reports never fall (InOrder); a             *)
(* continuation packet still has the packet that starts its reply before   *)
(* it, or nothing but its own reply before it (Chained), so that what the  *)
(* reassembler takes it for is what it is (Reading).                       *)
(***************************************************************************)

(* The reports that were not read, in the order in which they will be. *)
Flow(a, b) == [i \in 1 .. Len(a) + Len(b) |-> IF i <= Len(a) THEN a[i] ELSE b[i - Len(a)]]

Stream == Flow(inbox, pending)

Commands == {CmdInit, CmdPing, CmdWink, CmdCBOR}

Foreign ==
    {InitPacket(OtherChannel, CmdPing, <<9>>),
     InitPacket(BroadcastChannel, CmdInit, InitReply(OtherNonce, OtherChannel, CapWink + CapCBOR))}

Begins(r) == r.rep.init /\ r.rep.size = ReportSize
Starts(r) == Begins(r) /\ r.rep.val # CmdKeepalive
GoesOn(r) == ~r.rep.init

(* What a report says by itself, when asked were sent and the device gave ch. *)
Sound(r, asked, ch) ==
    /\ r.rep.size \in {ReportSize, contHeader - 1}
    /\ r.of = 0 => r.rep \in Foreign
    /\ GoesOn(r) => Len(r.rep.body) = contPayload
    /\ Begins(r) =>
         /\ Len(r.rep.body) = initPayload
         /\ r.rep.val \in {CmdInit, CmdKeepalive} => r.rep.len <= initPayload
         /\ r.of # 0 /\ r.rep.val \in Commands => r.rep.val = asked[r.of]
         /\ r.of # 0 /\ r.rep.val = CmdInit /\ r.rep.len >= InitReplyLen =>
              ch # 0 /\ r.rep.body[2] = ch /\ r.rep.body[3] \in KeyCaps
         /\ r.of # 0 /\ r.rep.val = CmdPing =>
              \A p \in 1 .. initPayload : p <= r.rep.len => r.rep.body[p] = r.of

(* No reply comes twice. *)
Fresh(r, used) == r.of # 0 => used <= r.of /\ (Begins(r) => used < r.of)

InOrder(s) ==
    \A a, b \in DOMAIN s : a < b /\ s[a].of # 0 /\ s[b].of # 0 =>
        /\ s[a].of <= s[b].of
        /\ Starts(s[a]) /\ Begins(s[b]) => s[a].of < s[b].of

Started(s, n) ==
    \E m \in 1 .. n - 1 : Starts(s[m]) /\ s[m].of = s[n].of /\ s[m].rep.ch = s[n].rep.ch

Chained(s) ==
    \A n \in DOMAIN s : GoesOn(s[n]) =>
        Started(s, n) \/ \A i \in 1 .. n - 1 : s[i].of \in {0, s[n].of}

(* The packet belongs to len bytes, all of them the number of. *)
Echoes(rep, of, len) ==
    \A q \in 1 .. contPayload : Offset(rep.val) + q <= len => rep.body[q] = of

EchoesWhole(s) ==
    \A m, n \in DOMAIN s :
        /\ m < n /\ s[m].of = s[n].of /\ s[m].of # 0
        /\ Starts(s[m]) /\ s[m].rep.val = CmdPing /\ GoesOn(s[n])
        => Echoes(s[n].rep, s[n].of, s[m].rep.len)

Linked(s) == InOrder(s) /\ Chained(s) /\ EchoesWhole(s)

Coming ==
    /\ \A n \in DOMAIN Stream : Sound(Stream[n], sent, given) /\ Fresh(Stream[n], consumed)
    /\ Linked(Stream)

(* The requests that the device has and has not answered. *)
Request == [id : Nat \ {0}, ch : Channels, cmd : Commands, data : Seq(Nat)]

Job(w, asked, used) ==
    /\ used < w.id /\ w.id <= Len(asked)
    /\ w.cmd = asked[w.id]
    /\ Len(w.data) <= MaxMessage
    /\ w.cmd = CmdInit => w.data # << >>
    /\ w.cmd = CmdPing => \A p \in DOMAIN w.data : w.data[p] = w.id

(* Nothing in s is later than j, and no answer in s is as late as j. *)
Before(s, j) == \A n \in DOMAIN s : s[n].of <= j /\ (Starts(s[n]) => s[n].of < j)

Working ==
    /\ work \in Seq(Request)
    /\ \A i \in DOMAIN work : Job(work[i], sent, consumed) /\ Before(Stream, work[i].id)
    /\ \A i, j \in DOMAIN work : i < j => work[i].id < work[j].id

(* A reassembler in the middle of a message of one reply. *)
Counted(r, of) ==
    /\ Len(r.data) = Offset(r.seq)
    /\ r.cmd = CmdPing => \A p \in 1 .. Len(r.data) : p <= r.want => r.data[p] = of

Half(r, of) == Counted(r, of) /\ r.cmd # CmdInit

(* What s still holds for r, which is in the middle of the reply to of. *)
Ahead(s, r, of) ==
    \A n \in DOMAIN s : s[n].of # 0 =>
        /\ of <= s[n].of
        /\ Begins(s[n]) => of < s[n].of
        /\ GoesOn(s[n]) /\ s[n].rep.ch = r.channel => s[n].of = of \/ Started(s, n)
        /\ GoesOn(s[n]) /\ s[n].of = of /\ r.cmd = CmdPing => Echoes(s[n].rep, of, r.want)

Reading ==
    pc = "recv" =>
        /\ rc.channel = k.channel
        /\ rc.started =>
             \E of \in 1 .. Len(sent) :
                /\ from = {of} /\ consumed < of
                /\ Half(rc, of) /\ (rc.cmd \in Commands => rc.cmd = sent[of])
                /\ \A i \in DOMAIN work : of < work[i].id
                /\ Ahead(Stream, rc, of)

(* Nothing was heard of request j. *)
Unheard(s, w, used, j) ==
    /\ used < j
    /\ \A n \in DOMAIN s : s[n].of < j
    /\ \A i \in DOMAIN w : w[i].id < j

(* The request under way. *)
Asked ==
    /\ sent \in Seq(Commands)
    /\ \A j \in DOMAIN sent : sent[j] = CmdInit => j = 1
    /\ st = "new" /\ pc = "idle" => sent = << >>
    /\ pc # "idle" =>
         /\ sent # << >> /\ call.cmd = sent[Len(sent)]
         /\ call.op = "Open" <=> call.cmd = CmdInit
         /\ call.op = "Ping" <=> call.cmd = CmdPing
         /\ call.op = "Wink" <=> call.cmd = CmdWink
         /\ Len(call.data) <= MaxMessage
         /\ call.cmd = CmdInit => Len(call.data) = 1
         /\ call.cmd = CmdPing => \A p \in DOMAIN call.data : call.data[p] = Len(sent)

(* The packets that were not sent yet, and what the device made of the others. *)
Left(t) ==
    [i \in 1 .. Packets(Len(call.data)) - t + 1 |->
        Packet(k.channel, call.cmd, call.data, t + i - 1)]

Sending ==
    /\ \A c \in Channels : kasm[c].channel = c
    /\ pc = "send" =>
        \E t \in 1 .. Packets(Len(call.data)) :
            /\ packets = Left(t)
            /\ t = 1 \/ kasm[k.channel].started => Unheard(Stream, work, consumed, Len(sent))
            /\ t > 1 /\ kasm[k.channel].started =>
                 /\ kasm[k.channel].cmd = call.cmd /\ kasm[k.channel].want = Len(call.data)
                 /\ Half(kasm[k.channel], Len(sent))

Opened ==
    /\ OwnChannel /\ given \in Channels \cup {0}
    /\ st \in {"open", "closed"} => consumed >= 1

Answers == TypeOK /\ OneAnswer /\ Coming /\ Working /\ Reading /\ Asked /\ Sending /\ Opened

AInv == IInv /\ Answers

----------------------------------------------------------------------------
(***************************************************************************)
(* Feed: a report is refused and changes nothing, or it is taken, and then *)
(* the message goes on or is done.                                         *)
(***************************************************************************)
Takes(r, rep) ==
    /\ rep.ch = r.channel
    /\ IF rep.init THEN rep.size >= initHeader
       ELSE rep.size >= contHeader /\ r.started /\ rep.val = r.seq

Taken(r, rep) ==
    IF rep.init THEN Fields(r.channel, rep.val, rep.body, rep.len, 0, TRUE)
    ELSE Fields(r.channel, r.cmd, r.data \o rep.body, r.want, r.seq + 1, TRUE)

LEMMA FeedRefuses ==
    ASSUME NEW r, NEW rep \in Report, ~Takes(r, rep)
    PROVE  LET f == Feed(r, rep) IN
           /\ f.rc = r /\ f.done = FALSE /\ f.err # "none"
           /\ f.err # "ErrWrongChannel" <=> rep.size < contHeader \/ rep.ch = r.channel
<1>1. rep.size \in Int /\ contHeader < initHeader /\ contHeader \in Int /\ initHeader \in Int
  BY FramingAssumption DEF Report, contHeader, initHeader
<1>2. CASE rep.size < contHeader
  BY <1>2 DEF Feed, Refuse
<1>3. CASE ~(rep.size < contHeader) /\ rep.ch # r.channel
  BY <1>3 DEF Feed, Refuse
<1>4. CASE ~(rep.size < contHeader) /\ rep.ch = r.channel
  <2>1. rep.init => rep.size < initHeader
    BY <1>1, <1>4 DEF Takes
  <2>2. ~rep.init => ~r.started \/ rep.val # r.seq
    BY <1>1, <1>4 DEF Takes
  <2>3. QED
    BY <1>4, <2>1, <2>2 DEF Feed, FeedInit, FeedCont, OutOfOrder, Refuse
<1>5. QED
  BY <1>2, <1>3, <1>4

LEMMA FeedTakes ==
    ASSUME NEW r, NEW rep \in Report, Takes(r, rep)
    PROVE  Feed(r, rep) = Finish(Taken(r, rep))
<1>1. rep.size \in Int /\ contHeader < initHeader /\ contHeader \in Int /\ initHeader \in Int
  BY FramingAssumption DEF Report, contHeader, initHeader
<1>2. ~(rep.size < contHeader)
  BY <1>1 DEF Takes
<1>3. CASE rep.init
  <2>1. ~(rep.size < initHeader) /\ rep.ch = r.channel
    BY <1>1, <1>3 DEF Takes
  <2>2. Feed(r, rep) = FeedInit(r, rep)
    BY <1>2, <1>3, <2>1 DEF Feed
  <2>3. QED
    BY <1>3, <2>1, <2>2 DEF Taken, FeedInit
<1>4. CASE ~rep.init
  BY <1>2, <1>4 DEF Takes, Taken, Feed, FeedCont, OutOfOrder
<1>5. QED
  BY <1>3, <1>4

LEMMA SizesNat ==
    /\ HighBit \in Nat \ {0} /\ MaxContinuations = HighBit /\ MaxMessage \in Nat
    /\ initPayload \in Nat /\ initPayload >= InitReplyLen
    /\ initPayload <= MaxMessage /\ Offset(0) = initPayload
<1>1. HighBit \in Nat \ {0} /\ MaxContinuations = HighBit /\ MaxMessage \in Nat /\ initPayload \in Nat
  BY FramingAssumption, MaxMessageNat, OffsetStep DEF MaxContinuations
<1>2. Offset(0) = initPayload
  BY OffsetStep DEF Offset
<1>3. Offset(0) <= Offset(MaxContinuations)
  BY <1>1, OffsetMonotone
<1>4. QED
  BY <1>1, <1>2, <1>3, SessionAssumption DEF MaxMessage

LEMMA TakenType ==
    ASSUME NEW r \in Assembling(Channels), NEW rep \in Report, Takes(r, rep)
    PROVE  /\ Taken(r, rep) \in Assembling(Channels) /\ Taken(r, rep).started
           /\ Taken(r, rep).channel = r.channel
<1> DEFINE t == Taken(r, rep)
<1>1. CASE rep.init
  <2>1. t = Fields(r.channel, rep.val, rep.body, rep.len, 0, TRUE)
    BY <1>1 DEF Taken
  <2>2. 0 \in 0 .. MaxContinuations
    BY SizesNat
  <2>3. QED
    BY <2>1, <2>2 DEF Assembling, Fields, Report
<1>2. CASE ~rep.init
  <2>1. t = Fields(r.channel, r.cmd, r.data \o rep.body, r.want, r.seq + 1, TRUE)
    BY <1>2 DEF Taken
  <2>2. r.data \o rep.body \in Seq(Nat)
    BY DEF Assembling, Report
  <2>3. r.seq + 1 \in 0 .. MaxContinuations
    BY <1>2, SizesNat DEF Takes, Assembling, Report
  <2>4. QED
    BY <2>1, <2>2, <2>3 DEF Assembling, Fields
<1>3. QED
  BY <1>1, <1>2

LEMMA FinishType ==
    ASSUME NEW h \in Assembling(Channels), h.started
    PROVE  LET f == Finish(h) IN
           /\ f.err = "none" /\ f.rc \in Assembling(Channels) /\ f.rc.channel = h.channel
           /\ Short(h) => ~f.done /\ f.rc = h
           /\ ~Short(h) =>
                /\ f.done /\ ~f.rc.started
                /\ f.msg.cmd = h.cmd /\ f.msg.data \in Seq(Nat) /\ Len(f.msg.data) = h.want
                /\ h.want <= Len(h.data)
                /\ \A p \in 1 .. h.want : f.msg.data[p] = h.data[p]
<1>1. CASE Short(h)
  BY <1>1 DEF Finish
<1>2. CASE ~Short(h)
  <2> DEFINE q == Fields(h.channel, h.cmd, h.data, h.want, h.seq, FALSE)
             d == SubSeq(h.data, 1, h.want)
  <2>1. Finish(h) = [rc |-> q, msg |-> Message(h.channel, h.cmd, d), done |-> TRUE, err |-> "none"]
    BY <1>2 DEF Finish
  <2>2. q \in Assembling(Channels) /\ q.channel = h.channel /\ q.started = FALSE
    BY DEF Assembling, Fields
  <2>3. h.want \in Nat /\ h.want <= Len(h.data) /\ h.data \in Seq(Nat) /\ Len(h.data) \in Nat
    BY <1>2, SizesNat DEF Short, Assembling
  <2>4. d \in Seq(Nat) /\ Len(d) = h.want /\ \A p \in 1 .. h.want : d[p] = h.data[p]
    BY <2>3, SubSeqProperties
  <2> HIDE DEF q, d
  <2>5. QED
    BY <1>2, <2>1, <2>2, <2>3, <2>4 DEF Message
<1>3. QED
  BY <1>1, <1>2

----------------------------------------------------------------------------
(***************************************************************************)
(* Packets and replies.                                                    *)
(***************************************************************************)
Numbers == 0 .. HighBit - 1

LEMMA CommandNumbers ==
    /\ Commands \cup {CmdKeepalive, CmdError, CmdMsg} \subseteq Numbers
    /\ Commands \cap {CmdKeepalive, CmdError, CmdMsg} = {}
    /\ Channels \cup {OtherChannel} \subseteq Nat \ {0} /\ OtherChannel \notin Channels
<1>1. HighBit \in Nat /\ HighBit > 63
  BY SizesNat, SessionAssumption DEF CmdError
<1>2. QED
  BY <1>1, SessionAssumption DEF Numbers, Commands, CmdInit, CmdPing, CmdWink, CmdCBOR, CmdKeepalive,
     CmdError, CmdMsg, Channels, KeyChannel, OtherChannel

LEMMA PadByteNat == ASSUME NEW data \in Seq(Nat), NEW p \in Nat PROVE PadByte(data, p) \in Nat
BY DEF PadByte

(* The initialisation packet of a message within the limit. *)
LEMMA InitPacketFields ==
    ASSUME NEW ch, NEW cmd, NEW data \in Seq(Nat), Len(data) <= MaxMessage
    PROVE  /\ InitPacket(ch, cmd, data).val = cmd
           /\ InitPacket(ch, cmd, data).len = Len(data)
           /\ Len(InitPacket(ch, cmd, data).body) = initPayload
<1>1. Len(data) \in Nat /\ Len(data) < LengthModulus /\ LengthModulus \in Nat \ {0}
  BY FramingAssumption, SizesNat DEF LengthModulus
<1>2. LengthField(Len(data)) = Len(data)
  BY <1>1 DEF LengthField
<1>3. Len([q \in 1 .. initPayload |-> PadByte(data, q)]) = initPayload
  BY SizesNat
<1>4. QED
  BY <1>2, <1>3 DEF InitPacket

LEMMA InitPacketBody ==
    ASSUME NEW ch, NEW cmd, NEW data, NEW q \in 1 .. initPayload
    PROVE  InitPacket(ch, cmd, data).body[q] = PadByte(data, q)
BY DEF InitPacket

LEMMA InitPacketType ==
    ASSUME NEW ch \in Channels \cup {OtherChannel}, NEW cmd \in Numbers, NEW data \in Seq(Nat),
           Len(data) <= MaxMessage
    PROVE  InitPacket(ch, cmd, data) \in Report
<1> DEFINE b == [j \in 1 .. initPayload |-> PadByte(data, j)]
           n == LengthField(Len(data))
<1>1. n \in 0 .. MaxMessage
  <2>1. n = Len(data)
    BY InitPacketFields DEF InitPacket
  <2>2. Len(data) \in Nat
    OBVIOUS
  <2>3. QED
    BY <2>1, <2>2, SizesNat
<1>2. b \in Seq(Nat)
  <2>1. b \in [1 .. initPayload -> Nat]
    BY PadByteNat
  <2>2. QED
    BY <2>1, SizesNat
<1>3. InitPacket(ch, cmd, data) =
        [size |-> ReportSize, ch |-> ch, init |-> TRUE, val |-> cmd, len |-> n, body |-> b]
  BY DEF InitPacket
<1>4. ReportSize \in 0 .. ReportSize
  BY FramingAssumption
<1> HIDE DEF b, n
<1>5. QED
  BY <1>1, <1>2, <1>3, <1>4 DEF Report, Numbers

(* A continuation packet below the mark. *)
LEMMA ContPacketFields ==
    ASSUME NEW ch, NEW data, NEW seq \in Numbers
    PROVE  /\ ContPacket(ch, data, seq).val = seq
           /\ Len(ContPacket(ch, data, seq).body) = contPayload
           /\ \A q \in 1 .. contPayload : ContPacket(ch, data, seq).body[q] = PadByte(data, Offset(seq) + q)
<1>1. seq % HighBit = seq
  BY SizesNat DEF Numbers
<1>2. contPayload \in Nat
  BY OffsetStep
<1>3. Len([q \in 1 .. contPayload |-> PadByte(data, Offset(seq) + q)]) = contPayload
  BY <1>2
<1>4. QED
  BY <1>1, <1>3 DEF ContPacket

LEMMA ContPacketGoesOn ==
    ASSUME NEW ch, NEW data, NEW seq \in Numbers
    PROVE  ContPacket(ch, data, seq).init = FALSE
<1>1. ((seq % (2 * HighBit)) >= HighBit) = FALSE
  BY SizesNat DEF Numbers
<1>2. QED
  BY <1>1 DEF ContPacket

LEMMA ContPacketType ==
    ASSUME NEW ch \in Channels \cup {OtherChannel}, NEW data \in Seq(Nat), NEW seq \in Numbers
    PROVE  ContPacket(ch, data, seq) \in Report
<1> DEFINE b == [j \in 1 .. contPayload |-> PadByte(data, Offset(seq) + j)]
<1>1. seq % HighBit = seq /\ ((seq % (2 * HighBit)) >= HighBit) = FALSE /\ seq \in Nat
  BY SizesNat DEF Numbers
<1>2. b \in Seq(Nat)
  <2>1. contPayload \in Nat /\ Offset(seq) \in Nat
    BY <1>1, OffsetStep
  <2>2. ASSUME NEW j \in 1 .. contPayload PROVE PadByte(data, Offset(seq) + j) \in Nat
    <3>1. Offset(seq) + j \in Nat
      BY <2>1
    <3>2. QED
      BY <3>1, PadByteNat
  <2>3. b \in [1 .. contPayload -> Nat]
    BY <2>2
  <2>4. QED
    BY <2>1, <2>3
<1>3. ContPacket(ch, data, seq) =
        [size |-> ReportSize, ch |-> ch, init |-> FALSE, val |-> seq, len |-> 0, body |-> b]
  BY <1>1 DEF ContPacket
<1>4. ReportSize \in 0 .. ReportSize /\ 0 \in 0 .. MaxMessage
  BY FramingAssumption, SizesNat
<1> HIDE DEF b
<1>5. QED
  BY <1>2, <1>3, <1>4 DEF Report, Numbers

(* The packets of a message: one begins it, the others go on. *)
LEMMA PacketNumber ==
    ASSUME NEW data \in Seq(Nat), Len(data) <= MaxMessage, NEW i \in 1 .. Packets(Len(data)), i # 1
    PROVE  i - 2 \in Numbers
<1>1. Len(data) \in Nat /\ Continuations(Len(data)) \in Nat /\ Continuations(Len(data)) <= HighBit
  BY ContinuationsLeast, ContinuationsFit
<1>2. i \in Nat /\ i >= 2 /\ i <= 1 + Continuations(Len(data))
  BY <1>1 DEF Packets
<1>3. QED
  BY <1>1, <1>2, SizesNat DEF Numbers

LEMMA PacketShape ==
    ASSUME NEW ch \in Channels \cup {OtherChannel}, NEW cmd \in Numbers, NEW data \in Seq(Nat),
           Len(data) <= MaxMessage, NEW i \in 1 .. Packets(Len(data)),
           NEW p, p = Packet(ch, cmd, data, i)
    PROVE  /\ p \in Report /\ p.ch = ch /\ p.size = ReportSize
           /\ i = 1 => p = InitPacket(ch, cmd, data) /\ p.init
           /\ i # 1 => p = ContPacket(ch, data, i - 2) /\ ~p.init /\ i - 2 \in Numbers
<1>1. CASE i = 1
  <2>1. p = InitPacket(ch, cmd, data)
    BY <1>1 DEF Packet
  <2>2. p \in Report
    BY <2>1, InitPacketType
  <2>3. p.ch = ch /\ p.size = ReportSize /\ p.init
    BY <2>1 DEF InitPacket
  <2>4. QED
    BY <1>1, <2>1, <2>2, <2>3
<1>2. CASE i # 1
  <2>1. PICK seq \in Numbers : seq = i - 2
    BY <1>2, PacketNumber
  <2>2. p = ContPacket(ch, data, seq)
    BY <1>2, <2>1 DEF Packet
  <2>3. p \in Report
    BY <2>2, ContPacketType
  <2>4. p.ch = ch /\ p.size = ReportSize
    BY <2>2 DEF ContPacket
  <2>5. ~p.init
    BY <2>2, ContPacketGoesOn
  <2>6. QED
    BY <1>2, <2>1, <2>2, <2>3, <2>4, <2>5
<1>3. QED
  BY <1>1, <1>2

LEMMA PacketCount ==
    ASSUME NEW data \in Seq(Nat)
    PROVE  /\ Len(data) \in Nat /\ Packets(Len(data)) \in Nat \ {0}
           /\ Len(data) <= initPayload => Packets(Len(data)) = 1
<1>1. Len(data) \in Nat /\ Continuations(Len(data)) \in Nat
  BY ContinuationsLeast
<1>2. QED
  BY <1>1 DEF Packets, Continuations

(* The reports of an answer are none, a short one, or a message that says    *)
(* which request it answers.                                                 *)
Answering(req, cmd, data, channel, caps) ==
    /\ cmd \in Numbers \ {CmdKeepalive} /\ data \in Seq(Nat) /\ Len(data) <= MaxMessage
    /\ cmd \in Commands => cmd = req.cmd
    /\ cmd = CmdInit => data = << >> \/ \E nonce \in Nat : data = InitReply(nonce, channel, caps)
    /\ cmd = CmdPing => data = req.data

(* What the device should answer fits the request. *)
LEMMA GoodShape ==
    ASSUME NEW req \in Request, Len(req.data) <= MaxMessage, req.cmd = CmdInit => req.data # << >>,
           NEW channel \in Channels, NEW caps \in KeyCaps
    PROVE  Answering(req, req.cmd, GoodReply(req, channel, caps), channel, caps)
<1> DEFINE d == GoodReply(req, channel, caps)
<1>1. req.id \in Nat /\ req.cmd \in Commands /\ req.data \in Seq(Nat)
  BY DEF Request
<1>2. 3 <= MaxMessage /\ CmdPing # CmdInit
  BY SizesNat DEF InitReplyLen, CmdPing, CmdInit
<1>3. CASE req.cmd = CmdInit
  <2>1. d = InitReply(req.data[1], channel, caps) /\ req.data[1] \in Nat
    <3>1. d = InitReply(req.data[1], channel, caps)
      BY <1>3 DEF GoodReply, CmdPing, CmdInit, CmdCBOR, CmdWink
    <3>2. req.data # << >> /\ req.data \in Seq(Nat)
      BY <1>1, <1>3
    <3> HIDE DEF d
    <3>3. req.data[1] \in Nat
      BY <3>2
    <3>4. QED
      BY <3>1, <3>3
  <2>2. d \in Seq(Nat) /\ Len(d) = 3
    <3>1. channel \in Nat /\ caps \in Nat
      BY CommandNumbers, SessionAssumption
    <3>2. d = <<req.data[1], channel, caps>>
      BY <2>1 DEF InitReply
    <3> HIDE DEF d
    <3>3. QED
      BY <2>1, <3>1, <3>2
  <2>3. QED
    BY <1>1, <1>2, <1>3, <2>1, <2>2, CommandNumbers DEF Answering
<1>4. CASE req.cmd # CmdInit
  <2>1. /\ req.cmd = CmdPing => d = req.data
        /\ req.cmd # CmdPing => d = << >> \/ d = <<0, req.id>>
    BY <1>1, <1>4 DEF GoodReply, Commands, CmdPing, CmdInit, CmdCBOR, CmdWink
  <2>2. d \in Seq(Nat) /\ Len(d) <= MaxMessage
    <3> HIDE DEF d
    <3>1. CASE d = << >>
      BY <3>1, SizesNat
    <3>2. CASE d = req.data
      BY <1>1, <3>2
    <3>3. CASE d = <<0, req.id>>
      <4>1. PICK n \in Nat : d = <<0, n>>
        BY <1>1, <3>3
      <4>2. <<0, n>> \in Seq(Nat) /\ Len(<<0, n>>) = 2
        OBVIOUS
      <4>3. QED
        BY <1>2, <4>1, <4>2, SizesNat
    <3>4. QED
      BY <2>1, <3>1, <3>2, <3>3
  <2>3. QED
    BY <1>1, <1>2, <1>4, <2>1, <2>2, CommandNumbers DEF Answering
<1>5. QED
  BY <1>3, <1>4

LEMMA ReplyShape ==
    ASSUME NEW req \in Request, Len(req.data) <= MaxMessage, req.cmd = CmdInit => req.data # << >>,
           NEW kind \in ReplyKinds, Suits(kind, req.cmd), NEW channel \in Channels, NEW caps \in KeyCaps
    PROVE  LET y == Reply(req, kind, channel, caps) IN
           \/ y = << >>
           \/ y = <<ShortReport(req.ch)>>
           \/ \E cmd, data : Answering(req, cmd, data, channel, caps) /\ y = Split(req.ch, cmd, data).packets
<1> DEFINE y == Reply(req, kind, channel, caps)
<1>1. req.id \in Nat /\ req.cmd \in Commands /\ req.data \in Seq(Nat)
  BY DEF Request
<1>2. 3 <= MaxMessage /\ CmdPing # CmdInit /\ CmdCBOR # CmdInit /\ CmdCBOR # CmdPing /\ CmdWink # CmdInit /\ CmdWink # CmdPing
  BY SizesNat DEF InitReplyLen, CmdPing, CmdInit, CmdCBOR, CmdWink
<1>3. CASE kind = "good"
  <2>1. Answering(req, req.cmd, GoodReply(req, channel, caps), channel, caps)
    BY GoodShape
  <2>2. y = Split(req.ch, req.cmd, GoodReply(req, channel, caps)).packets
    BY <1>3 DEF Reply
  <2>3. QED
    BY <2>1, <2>2
<1>4. CASE kind = "error"
  <2>1. Answering(req, CmdError, <<1>>, channel, caps)
    <3>1. CmdError \in Numbers \ Commands /\ CmdError # CmdKeepalive
      BY CommandNumbers DEF CmdError, CmdKeepalive
    <3>2. CmdError # CmdInit /\ CmdError # CmdPing
      BY DEF CmdError, CmdInit, CmdPing
    <3>3. <<1>> \in Seq(Nat) /\ Len(<<1>>) <= MaxMessage
      BY <1>2, SizesNat
    <3>4. QED
      BY <3>1, <3>2, <3>3 DEF Answering
  <2>2. y = Split(req.ch, CmdError, <<1>>).packets
    BY <1>4 DEF Reply
  <2>3. QED
    BY <2>1, <2>2
<1>5. CASE kind = "command"
  <2>1. Answering(req, CmdMsg, <<req.id>>, channel, caps)
    <3>1. CmdMsg \in Numbers \ Commands /\ CmdMsg # CmdKeepalive
      BY CommandNumbers DEF CmdMsg, CmdKeepalive
    <3>2. CmdMsg # CmdInit /\ CmdMsg # CmdPing
      BY DEF CmdMsg, CmdInit, CmdPing
    <3>3. <<req.id>> \in Seq(Nat) /\ Len(<<req.id>>) <= MaxMessage
      BY <1>1, <1>2, SizesNat
    <3>4. QED
      BY <3>1, <3>2, <3>3 DEF Answering
  <2>2. y = Split(req.ch, CmdMsg, <<req.id>>).packets
    BY <1>5 DEF Reply
  <2>3. QED
    BY <2>1, <2>2
<1>6. CASE kind = "empty"
  <2>1. req.cmd \in {CmdInit, CmdCBOR}
    BY <1>6 DEF Suits
  <2>2. Answering(req, req.cmd, << >>, channel, caps)
    BY <1>1, <1>2, <2>1, CommandNumbers, SizesNat DEF Answering
  <2>3. y = Split(req.ch, req.cmd, << >>).packets
    BY <1>6 DEF Reply
  <2>4. QED
    BY <2>2, <2>3
<1>7. CASE kind = "status"
  <2>1. req.cmd = CmdCBOR
    BY <1>7 DEF Suits
  <2>2. Answering(req, req.cmd, <<1>>, channel, caps)
    BY <1>1, <1>2, <2>1, CommandNumbers, SizesNat DEF Answering
  <2>3. y = Split(req.ch, req.cmd, <<1>>).packets
    BY <1>7 DEF Reply
  <2>4. QED
    BY <2>2, <2>3
<1>8. CASE kind = "short" \/ kind = "none"
  BY <1>8 DEF Reply
<1>9. kind # "broadcast" /\ kind # "cut"
  BY DEF Suits
<1>10. QED
  BY <1>3, <1>4, <1>5, <1>6, <1>7, <1>8, <1>9, SessionAssumption

----------------------------------------------------------------------------
(***************************************************************************)
(* What happens to the reports on their way: the first is read, the last   *)
(* ones are broken off, another program's comes in between, an answer or a *)
(* keepalive follows.                                                      *)
(***************************************************************************)
Ghosts(s, ln) ==
    /\ DOMAIN s = 1 .. ln
    /\ \A n \in 1 .. ln : s[n].of \in Nat /\ (GoesOn(s[n]) => s[n].of # 0)

Rest(s, ln) == [i \in 1 .. ln - 1 |-> s[i + 1]]

Cut(s, lt) == [i \in 1 .. lt |-> s[i]]

Between(s, ln, at, x) ==
    [i \in 1 .. ln + 1 |-> IF i <= at THEN s[i] ELSE IF i = at + 1 THEN x ELSE s[i - 1]]

Joined(s, ln, y, ly) == [i \in 1 .. ln + ly |-> IF i <= ln THEN s[i] ELSE y[i - ln]]

LEMMA ReadFirst ==
    ASSUME NEW ln \in Nat \ {0}, NEW s, Ghosts(s, ln), Linked(s)
    PROVE  Linked(Rest(s, ln))
<1> DEFINE t == [i \in 1 .. ln - 1 |-> s[i + 1]]
<1>1. DOMAIN t = 1 .. ln - 1 /\ \A i \in 1 .. ln - 1 : t[i] = s[i + 1] /\ i + 1 \in 1 .. ln
  OBVIOUS
<1> HIDE DEF t
<1>2. InOrder(t)
  <2> SUFFICES ASSUME NEW a \in 1 .. ln - 1, NEW b \in 1 .. ln - 1, a < b, t[a].of # 0, t[b].of # 0
               PROVE  t[a].of <= t[b].of /\ (Starts(t[a]) /\ Begins(t[b]) => t[a].of < t[b].of)
    BY <1>1 DEF InOrder
  <2>1. a + 1 \in 1 .. ln /\ b + 1 \in 1 .. ln /\ a + 1 < b + 1 /\ t[a] = s[a + 1] /\ t[b] = s[b + 1]
    BY <1>1
  <2>2. QED
    BY <2>1 DEF InOrder, Linked, Ghosts
<1>3. EchoesWhole(t)
  <2> SUFFICES ASSUME NEW m \in 1 .. ln - 1, NEW n \in 1 .. ln - 1, m < n,
                      t[m].of = t[n].of, t[m].of # 0,
                      Starts(t[m]), t[m].rep.val = CmdPing, GoesOn(t[n])
               PROVE  Echoes(t[n].rep, t[n].of, t[m].rep.len)
    BY <1>1 DEF EchoesWhole
  <2>1. m + 1 \in 1 .. ln /\ n + 1 \in 1 .. ln /\ m + 1 < n + 1 /\ t[m] = s[m + 1] /\ t[n] = s[n + 1]
    BY <1>1
  <2>2. QED
    BY <2>1 DEF EchoesWhole, Linked, Ghosts
<1>4. Chained(t)
  <2> SUFFICES ASSUME NEW n \in 1 .. ln - 1, GoesOn(t[n]), ~Started(t, n), NEW i \in 1 .. n - 1
               PROVE  t[i].of \in {0, t[n].of}
    BY <1>1 DEF Chained
  <2>1. n + 1 \in 1 .. ln /\ t[n] = s[n + 1] /\ GoesOn(s[n + 1]) /\ 1 \in 1 .. n /\ 1 < n + 1 /\ 1 \in 1 .. ln
    BY <1>1
  <2>2. i \in 1 .. ln - 1 /\ i + 1 \in 1 .. (n + 1) - 1 /\ t[i] = s[i + 1] /\ i + 1 \in 1 .. ln
    BY <1>1
  <2>3. CASE Started(s, n + 1)
    <3>1. PICK m \in 1 .. n : Starts(s[m]) /\ s[m].of = s[n + 1].of /\ s[m].rep.ch = s[n + 1].rep.ch
      BY <2>3 DEF Started
    <3>2. m = 1
      <4> SUFFICES ASSUME m # 1 PROVE FALSE
        OBVIOUS
      <4>1. m - 1 \in 1 .. n - 1 /\ m - 1 \in 1 .. ln - 1 /\ (m - 1) + 1 = m
        OBVIOUS
      <4>2. t[m - 1] = s[m]
        BY <1>1, <4>1
      <4>3. QED
        BY <2>1, <3>1, <4>1, <4>2 DEF Started
    <3>3. s[n + 1].of # 0 /\ s[n + 1].of \in Nat /\ s[i + 1].of \in Nat
      BY <2>1, <2>2 DEF Ghosts
    <3>4. s[i + 1].of # 0 => s[1].of <= s[i + 1].of /\ s[i + 1].of <= s[n + 1].of
      <4>1. 1 < i + 1 /\ i + 1 < n + 1
        OBVIOUS
      <4>2. s[1].of # 0
        BY <3>1, <3>2, <3>3
      <4>3. QED
        BY <2>1, <2>2, <3>3, <4>1, <4>2 DEF InOrder, Linked, Ghosts
    <3>5. s[1].of = s[n + 1].of
      BY <3>1, <3>2
    <3>6. QED
      BY <2>1, <2>2, <3>3, <3>4, <3>5
  <2>4. CASE \A j \in 1 .. (n + 1) - 1 : s[j].of \in {0, s[n + 1].of}
    BY <2>1, <2>2, <2>4
  <2>5. QED
    BY <2>1, <2>3, <2>4 DEF Chained, Linked, Ghosts
<1>5. QED
  BY <1>2, <1>3, <1>4 DEF Linked, Rest, t

LEMMA BrokenOff ==
    ASSUME NEW ln \in Nat, NEW s, Ghosts(s, ln), Linked(s), NEW lt \in 0 .. ln
    PROVE  Linked(Cut(s, lt))
<1> DEFINE t == [i \in 1 .. lt |-> s[i]]
<1>1. DOMAIN t = 1 .. lt /\ \A i \in 1 .. lt : t[i] = s[i] /\ i \in 1 .. ln
  OBVIOUS
<1> HIDE DEF t
<1>2. InOrder(t) /\ EchoesWhole(t)
  BY <1>1 DEF InOrder, EchoesWhole, Linked, Ghosts
<1>3. Chained(t)
  <2> SUFFICES ASSUME NEW n \in 1 .. lt, GoesOn(t[n])
               PROVE  Started(t, n) \/ \A i \in 1 .. n - 1 : t[i].of \in {0, t[n].of}
    BY <1>1 DEF Chained
  <2>1. \A i \in 1 .. n - 1 : i \in 1 .. lt
    OBVIOUS
  <2>2. QED
    BY <1>1, <2>1 DEF Chained, Started, Linked, Ghosts
<1>4. QED
  BY <1>2, <1>3 DEF Linked, Cut, t

LEMMA ComesBetween ==
    ASSUME NEW ln \in Nat, NEW s, Ghosts(s, ln), Linked(s), NEW at \in 0 .. ln,
           NEW x, x.of = 0, ~GoesOn(x)
    PROVE  Linked(Between(s, ln, at, x))
<1> DEFINE t == [i \in 1 .. ln + 1 |-> IF i <= at THEN s[i] ELSE IF i = at + 1 THEN x ELSE s[i - 1]]
           old(i) == IF i <= at THEN i ELSE i - 1
           new(i) == IF i <= at THEN i ELSE i + 1
<1>1. DOMAIN t = 1 .. ln + 1 /\ t[at + 1] = x
  OBVIOUS
<1>2. \A i \in 1 .. ln + 1 : i # at + 1 => old(i) \in 1 .. ln /\ t[i] = s[old(i)]
  OBVIOUS
<1>3. \A i, j \in 1 .. ln + 1 : i # at + 1 /\ j # at + 1 /\ i < j => old(i) < old(j)
  OBVIOUS
<1>4. \A i \in 1 .. ln : new(i) \in 1 .. ln + 1 /\ t[new(i)] = s[i] /\ new(i) # at + 1
  OBVIOUS
<1>5. \A n \in 1 .. ln + 1 : n # at + 1 => \A m \in 1 .. old(n) - 1 : m \in 1 .. ln /\ new(m) \in 1 .. n - 1
  OBVIOUS
<1> HIDE DEF t, old, new
<1>6. InOrder(t)
  <2> SUFFICES ASSUME NEW a \in 1 .. ln + 1, NEW b \in 1 .. ln + 1, a < b, t[a].of # 0, t[b].of # 0
               PROVE  t[a].of <= t[b].of /\ (Starts(t[a]) /\ Begins(t[b]) => t[a].of < t[b].of)
    BY <1>1 DEF InOrder
  <2>1. a # at + 1 /\ b # at + 1
    BY <1>1
  <2>2. QED
    BY <1>2, <1>3, <2>1 DEF InOrder, Linked, Ghosts
<1>7. EchoesWhole(t)
  <2> SUFFICES ASSUME NEW m \in 1 .. ln + 1, NEW n \in 1 .. ln + 1, m < n,
                      t[m].of = t[n].of, t[m].of # 0,
                      Starts(t[m]), t[m].rep.val = CmdPing, GoesOn(t[n])
               PROVE  Echoes(t[n].rep, t[n].of, t[m].rep.len)
    BY <1>1 DEF EchoesWhole
  <2>1. m # at + 1 /\ n # at + 1
    BY <1>1
  <2>2. t[m] = s[old(m)] /\ t[n] = s[old(n)] /\ old(m) < old(n) /\ old(m) \in 1 .. ln /\ old(n) \in 1 .. ln
    BY <1>2, <1>3, <2>1
  <2>3. QED
    BY <2>2 DEF EchoesWhole, Linked, Ghosts
<1>8. Chained(t)
  <2> SUFFICES ASSUME NEW n \in 1 .. ln + 1, GoesOn(t[n]), ~Started(t, n), NEW i \in 1 .. n - 1
               PROVE  t[i].of \in {0, t[n].of}
    BY <1>1 DEF Chained
  <2>1. n # at + 1 /\ i \in 1 .. ln + 1 /\ i < n
    BY <1>1
  <2>2. old(n) \in 1 .. ln /\ t[n] = s[old(n)]
    BY <1>2, <2>1
  <2>3. ~Started(s, old(n))
    <3> SUFFICES ASSUME NEW m \in 1 .. old(n) - 1, Starts(s[m]), s[m].of = s[old(n)].of,
                        s[m].rep.ch = s[old(n)].rep.ch
                 PROVE  FALSE
      BY DEF Started
    <3>1. m \in 1 .. ln /\ new(m) \in 1 .. n - 1
      BY <1>5, <2>1
    <3>2. t[new(m)] = s[m]
      BY <1>4, <3>1
    <3>3. QED
      BY <2>2, <3>1, <3>2 DEF Started
  <2>4. \A j \in 1 .. old(n) - 1 : s[j].of \in {0, s[old(n)].of}
    BY <2>2, <2>3 DEF Chained, Linked, Ghosts
  <2>5. CASE i = at + 1
    BY <1>1, <2>5
  <2>6. CASE i # at + 1
    <3>1. old(i) \in 1 .. ln /\ old(i) < old(n) /\ t[i] = s[old(i)]
      BY <1>2, <1>3, <2>1, <2>6
    <3>2. old(i) \in 1 .. old(n) - 1
      BY <2>2, <3>1
    <3>3. QED
      BY <2>2, <2>4, <3>1, <3>2
  <2>7. QED
    BY <2>5, <2>6
<1>9. QED
  BY <1>6, <1>7, <1>8 DEF Linked, Between, t

(* The reports of one answer, of request j. *)
OneReply(y, ly, j) ==
    /\ DOMAIN y = 1 .. ly
    /\ \A n \in 1 .. ly : y[n].of = j /\ y[n].rep.ch = y[1].rep.ch
    /\ \A n \in 2 .. ly : GoesOn(y[n]) /\ ~Begins(y[n]) /\ ~Starts(y[n]) /\ Starts(y[1])
    /\ \A n \in 2 .. ly : y[1].rep.val = CmdPing => Echoes(y[n].rep, j, y[1].rep.len)
    /\ ly > 0 => ~GoesOn(y[1])

LEMMA Follows ==
    ASSUME NEW ln \in Nat, NEW s, Ghosts(s, ln), Linked(s),
           NEW ly \in Nat, NEW y, NEW j \in Nat \ {0}, OneReply(y, ly, j),
           \A n \in 1 .. ln : s[n].of <= j /\ (Starts(s[n]) => s[n].of < j)
    PROVE  Linked(Joined(s, ln, y, ly))
<1> DEFINE t == [i \in 1 .. ln + ly |-> IF i <= ln THEN s[i] ELSE y[i - ln]]
<1>1. DOMAIN t = 1 .. ln + ly
  OBVIOUS
<1>2. \A i \in 1 .. ln + ly :
        \/ i \in 1 .. ln /\ t[i] = s[i]
        \/ i > ln /\ i - ln \in 1 .. ly /\ t[i] = y[i - ln]
  OBVIOUS
<1> HIDE DEF t
<1>3. InOrder(t)
  <2> SUFFICES ASSUME NEW a \in 1 .. ln + ly, NEW b \in 1 .. ln + ly, a < b, t[a].of # 0, t[b].of # 0
               PROVE  t[a].of <= t[b].of /\ (Starts(t[a]) /\ Begins(t[b]) => t[a].of < t[b].of)
    BY <1>1 DEF InOrder
  <2>1. CASE b \in 1 .. ln
    <3>1. a \in 1 .. ln /\ t[a] = s[a] /\ t[b] = s[b]
      BY <1>2, <2>1
    <3>2. QED
      BY <2>1, <3>1 DEF InOrder, Linked, Ghosts
  <2>2. CASE a \in 1 .. ln /\ b > ln
    <3>1. t[a] = s[a] /\ b - ln \in 1 .. ly /\ t[b] = y[b - ln]
      BY <1>2, <2>2
    <3>2. QED
      BY <2>2, <3>1 DEF OneReply
  <2>3. CASE a > ln
    <3>1. t[a] = y[a - ln] /\ a - ln \in 1 .. ly /\ t[b] = y[b - ln] /\ b - ln \in 1 .. ly
      BY <1>2, <2>3
    <3>2. b - ln \in 2 .. ly
      BY <2>3, <3>1
    <3>3. QED
      BY <3>1, <3>2 DEF OneReply
  <2>4. QED
    BY <2>1, <2>2, <2>3
<1>4. EchoesWhole(t)
  <2> SUFFICES ASSUME NEW m \in 1 .. ln + ly, NEW n \in 1 .. ln + ly, m < n,
                      t[m].of = t[n].of, t[m].of # 0,
                      Starts(t[m]), t[m].rep.val = CmdPing, GoesOn(t[n])
               PROVE  Echoes(t[n].rep, t[n].of, t[m].rep.len)
    BY <1>1 DEF EchoesWhole
  <2>1. CASE n \in 1 .. ln
    <3>1. m \in 1 .. ln /\ t[m] = s[m] /\ t[n] = s[n]
      BY <1>2, <2>1
    <3>2. QED
      BY <2>1, <3>1 DEF EchoesWhole, Linked, Ghosts
  <2>2. CASE m \in 1 .. ln /\ n > ln
    <3>1. t[m] = s[m] /\ n - ln \in 1 .. ly /\ t[n] = y[n - ln]
      BY <1>2, <2>2
    <3>2. s[m].of < j /\ y[n - ln].of = j /\ s[m].of \in Nat
      BY <2>2, <3>1 DEF OneReply, Ghosts
    <3>3. QED
      BY <3>1, <3>2
  <2>3. CASE m > ln
    <3>1. t[m] = y[m - ln] /\ m - ln \in 1 .. ly /\ t[n] = y[n - ln] /\ n - ln \in 1 .. ly
      BY <1>2, <2>3
    <3>2. n - ln \in 2 .. ly
      BY <2>3, <3>1
    <3>3. m - ln = 1
      <4>1. m - ln \in 2 .. ly => ~Starts(y[m - ln])
        BY DEF OneReply
      <4>2. QED
        BY <3>1, <4>1
    <3>4. QED
      BY <3>1, <3>2, <3>3 DEF OneReply
  <2>4. QED
    BY <2>1, <2>2, <2>3
<1>5. Chained(t)
  <2> SUFFICES ASSUME NEW n \in 1 .. ln + ly, GoesOn(t[n])
               PROVE  Started(t, n) \/ \A i \in 1 .. n - 1 : t[i].of \in {0, t[n].of}
    BY <1>1 DEF Chained
  <2>1. CASE n \in 1 .. ln
    <3>1. t[n] = s[n] /\ \A i \in 1 .. n - 1 : i \in 1 .. ln /\ t[i] = s[i]
      BY <1>2, <2>1
    <3>2. QED
      BY <2>1, <3>1 DEF Chained, Started, Linked, Ghosts
  <2>2. CASE n > ln
    <3>1. t[n] = y[n - ln] /\ n - ln \in 1 .. ly
      BY <1>2, <2>2
    <3>2. n - ln # 1
      BY <3>1 DEF OneReply
    <3>3. n - ln \in 2 .. ly /\ ln + 1 \in 1 .. n - 1 /\ ln + 1 \in 1 .. ln + ly /\ ln + 1 > ln
          /\ (ln + 1) - ln = 1
      BY <2>2, <3>1, <3>2
    <3>4. t[ln + 1] = y[1]
      BY <1>2, <3>3
    <3>5. Starts(y[1]) /\ y[1].of = y[n - ln].of /\ y[1].rep.ch = y[n - ln].rep.ch
      <4>1. 1 \in 1 .. ly
        BY <3>3
      <4>2. QED
        BY <3>3, <4>1 DEF OneReply
    <3>6. QED
      BY <3>1, <3>3, <3>4, <3>5 DEF Started
  <2>3. QED
    BY <2>1, <2>2
<1>6. QED
  BY <1>3, <1>4, <1>5 DEF Linked, Joined, t

(* The same four, for what is known of one reply. *)
LEMMA BeforeRest ==
    ASSUME NEW ln \in Nat \ {0}, NEW s, Ghosts(s, ln), NEW j, Before(s, j)
    PROVE  Before(Rest(s, ln), j)
BY DEF Before, Rest, Ghosts

LEMMA BeforeCut ==
    ASSUME NEW ln \in Nat, NEW s, Ghosts(s, ln), NEW lt \in 0 .. ln, NEW j, Before(s, j)
    PROVE  Before(Cut(s, lt), j)
BY DEF Before, Cut, Ghosts

LEMMA BeforeBetween ==
    ASSUME NEW ln \in Nat, NEW s, Ghosts(s, ln), NEW at \in 0 .. ln, NEW x, x.of = 0,
           NEW j \in Nat \ {0}, Before(s, j)
    PROVE  Before(Between(s, ln, at, x), j)
<1> DEFINE t == Between(s, ln, at, x)
<1>1. DOMAIN t = 1 .. ln + 1
  BY DEF Between
<1>2. \A i \in 1 .. ln + 1 : t[i] = x \/ \E n \in 1 .. ln : t[i] = s[n]
  <2> SUFFICES ASSUME NEW i \in 1 .. ln + 1 PROVE t[i] = x \/ \E n \in 1 .. ln : t[i] = s[n]
    OBVIOUS
  <2>1. i <= at => i \in 1 .. ln /\ t[i] = s[i]
    BY DEF Between
  <2>2. i = at + 1 => t[i] = x
    BY DEF Between
  <2>3. ~(i <= at) /\ i # at + 1 => i - 1 \in 1 .. ln /\ t[i] = s[i - 1]
    BY DEF Between
  <2>4. QED
    BY <2>1, <2>2, <2>3
<1> HIDE DEF t
<1>3. QED
  BY <1>1, <1>2 DEF Before, Ghosts, t

LEMMA BeforeJoined ==
    ASSUME NEW ln \in Nat, NEW s, Ghosts(s, ln), NEW ly \in Nat, NEW y, DOMAIN y = 1 .. ly,
           NEW j, Before(s, j), Before(y, j)
    PROVE  Before(Joined(s, ln, y, ly), j)
<1> DEFINE t == Joined(s, ln, y, ly)
<1>1. DOMAIN t = 1 .. ln + ly
  BY DEF Joined
<1>2. \A i \in 1 .. ln + ly :
        \/ i \in 1 .. ln /\ t[i] = s[i]
        \/ i - ln \in 1 .. ly /\ t[i] = y[i - ln]
  BY DEF Joined
<1> HIDE DEF t
<1>3. QED
  BY <1>1, <1>2 DEF Before, Ghosts, t

(* A report that does not start an answer on its channel leaves the          *)
(* reassembler where it was.                                                 *)
LEMMA AheadRest ==
    ASSUME NEW ln \in Nat \ {0}, NEW s, Ghosts(s, ln), NEW r, NEW of \in Nat \ {0}, Ahead(s, r, of),
           Starts(s[1]) => s[1].rep.ch # r.channel,
           NEW h, h.channel = r.channel, h.cmd = r.cmd, h.want = r.want
    PROVE  Ahead(Rest(s, ln), h, of)
<1> DEFINE t == Rest(s, ln)
<1>1. DOMAIN t = 1 .. ln - 1 /\ \A i \in 1 .. ln - 1 : t[i] = s[i + 1] /\ i + 1 \in 1 .. ln
  BY DEF Rest
<1> HIDE DEF t
<1> SUFFICES ASSUME NEW n \in 1 .. ln - 1, t[n].of # 0
             PROVE  /\ of <= t[n].of
                    /\ Begins(t[n]) => of < t[n].of
                    /\ GoesOn(t[n]) /\ t[n].rep.ch = h.channel => t[n].of = of \/ Started(t, n)
                    /\ GoesOn(t[n]) /\ t[n].of = of /\ h.cmd = CmdPing => Echoes(t[n].rep, of, h.want)
  BY <1>1 DEF Ahead, t
<1>2. n + 1 \in 1 .. ln /\ t[n] = s[n + 1]
  BY <1>1
<1>3. ASSUME GoesOn(t[n]), t[n].rep.ch = h.channel, Started(s, n + 1) PROVE Started(t, n)
  <2>1. PICK m \in 1 .. (n + 1) - 1 : Starts(s[m]) /\ s[m].of = s[n + 1].of /\ s[m].rep.ch = s[n + 1].rep.ch
    BY <1>3 DEF Started
  <2>2. m # 1
    BY <1>2, <1>3, <2>1
  <2>3. m - 1 \in 1 .. n - 1 /\ m - 1 \in 1 .. ln - 1 /\ (m - 1) + 1 = m
    BY <2>2
  <2>4. t[m - 1] = s[m]
    BY <1>1, <2>3
  <2>5. QED
    BY <1>2, <2>1, <2>3, <2>4 DEF Started
<1>4. QED
  BY <1>2, <1>3 DEF Ahead, Ghosts

(* The report that starts an answer. *)
LEMMA AheadStarted ==
    ASSUME NEW ln \in Nat \ {0}, NEW s, Ghosts(s, ln), Linked(s), Starts(s[1]), s[1].of # 0,
           NEW h, h.channel = s[1].rep.ch, h.cmd = s[1].rep.val, h.want = s[1].rep.len
    PROVE  Ahead(Rest(s, ln), h, s[1].of)
<1> DEFINE t == Rest(s, ln)
           of == s[1].of
<1>1. DOMAIN t = 1 .. ln - 1 /\ \A i \in 1 .. ln - 1 : t[i] = s[i + 1] /\ i + 1 \in 1 .. ln
  BY DEF Rest
<1> HIDE DEF t
<1> SUFFICES ASSUME NEW n \in 1 .. ln - 1, t[n].of # 0
             PROVE  /\ of <= t[n].of
                    /\ Begins(t[n]) => of < t[n].of
                    /\ GoesOn(t[n]) /\ t[n].rep.ch = h.channel => t[n].of = of \/ Started(t, n)
                    /\ GoesOn(t[n]) /\ t[n].of = of /\ h.cmd = CmdPing => Echoes(t[n].rep, of, h.want)
  BY <1>1 DEF Ahead, t
<1>2. n + 1 \in 1 .. ln /\ t[n] = s[n + 1] /\ 1 \in 1 .. ln /\ 1 < n + 1 /\ 1 \in 1 .. (n + 1) - 1
  BY <1>1
<1>3. of <= t[n].of /\ (Begins(t[n]) => of < t[n].of)
  BY <1>2 DEF InOrder, Linked, Ghosts
<1>4. ASSUME GoesOn(t[n]), t[n].of # of PROVE Started(t, n)
  <2>1. Started(s, n + 1)
    <3>1. Started(s, n + 1) \/ \A i \in 1 .. (n + 1) - 1 : s[i].of \in {0, s[n + 1].of}
      BY <1>2, <1>4 DEF Chained, Linked, Ghosts
    <3>2. QED
      BY <1>2, <1>4, <3>1
  <2>2. PICK m \in 1 .. (n + 1) - 1 : Starts(s[m]) /\ s[m].of = s[n + 1].of /\ s[m].rep.ch = s[n + 1].rep.ch
    BY <2>1 DEF Started
  <2>3. m # 1
    BY <1>2, <1>4, <2>2
  <2>4. m - 1 \in 1 .. n - 1 /\ m - 1 \in 1 .. ln - 1 /\ (m - 1) + 1 = m
    BY <2>3
  <2>5. t[m - 1] = s[m]
    BY <1>1, <2>4
  <2>6. QED
    BY <1>2, <2>2, <2>4, <2>5 DEF Started
<1>5. GoesOn(t[n]) /\ t[n].of = of /\ h.cmd = CmdPing => Echoes(t[n].rep, of, h.want)
  BY <1>2 DEF EchoesWhole, Linked, Ghosts
<1>6. QED
  BY <1>3, <1>4, <1>5

LEMMA AheadCut ==
    ASSUME NEW ln \in Nat, NEW s, Ghosts(s, ln), NEW lt \in 0 .. ln, NEW r, NEW of, Ahead(s, r, of)
    PROVE  Ahead(Cut(s, lt), r, of)
<1> DEFINE t == Cut(s, lt)
<1>1. DOMAIN t = 1 .. lt /\ \A i \in 1 .. lt : t[i] = s[i] /\ i \in 1 .. ln
  BY DEF Cut
<1> HIDE DEF t
<1>2. ASSUME NEW n \in 1 .. lt, Started(s, n) PROVE Started(t, n)
  <2>1. \A m \in 1 .. n - 1 : m \in 1 .. lt
    OBVIOUS
  <2>2. QED
    BY <1>1, <1>2, <2>1 DEF Started
<1>3. QED
  BY <1>1, <1>2 DEF Ahead, Ghosts, t

LEMMA AheadBetween ==
    ASSUME NEW ln \in Nat, NEW s, Ghosts(s, ln), NEW at \in 0 .. ln, NEW x, x.of = 0,
           NEW r, NEW of, Ahead(s, r, of)
    PROVE  Ahead(Between(s, ln, at, x), r, of)
<1> DEFINE t == Between(s, ln, at, x)
           old(i) == IF i <= at THEN i ELSE i - 1
           new(i) == IF i <= at THEN i ELSE i + 1
<1>1. DOMAIN t = 1 .. ln + 1 /\ t[at + 1] = x
  BY DEF Between
<1>2. \A i \in 1 .. ln + 1 : i # at + 1 => old(i) \in 1 .. ln /\ t[i] = s[old(i)]
  BY DEF Between
<1>3. \A i \in 1 .. ln : new(i) \in 1 .. ln + 1 /\ t[new(i)] = s[i]
  BY DEF Between
<1>4. \A n \in 1 .. ln + 1 : n # at + 1 => \A m \in 1 .. old(n) - 1 : m \in 1 .. ln /\ new(m) \in 1 .. n - 1
  OBVIOUS
<1> HIDE DEF t, old, new
<1> SUFFICES ASSUME NEW n \in 1 .. ln + 1, t[n].of # 0
             PROVE  /\ of <= t[n].of
                    /\ Begins(t[n]) => of < t[n].of
                    /\ GoesOn(t[n]) /\ t[n].rep.ch = r.channel => t[n].of = of \/ Started(t, n)
                    /\ GoesOn(t[n]) /\ t[n].of = of /\ r.cmd = CmdPing => Echoes(t[n].rep, of, r.want)
  BY <1>1 DEF Ahead, t
<1>5. n # at + 1
  BY <1>1
<1>6. old(n) \in 1 .. ln /\ t[n] = s[old(n)]
  BY <1>2, <1>5
<1>7. ASSUME Started(s, old(n)) PROVE Started(t, n)
  <2>1. PICK m \in 1 .. old(n) - 1 : Starts(s[m]) /\ s[m].of = s[old(n)].of /\ s[m].rep.ch = s[old(n)].rep.ch
    BY <1>7 DEF Started
  <2>2. m \in 1 .. ln /\ new(m) \in 1 .. n - 1
    BY <1>4, <1>5
  <2>3. t[new(m)] = s[m]
    BY <1>3, <2>2
  <2>4. QED
    BY <1>6, <2>1, <2>2, <2>3 DEF Started
<1>8. QED
  BY <1>6, <1>7 DEF Ahead, Ghosts

LEMMA AheadJoined ==
    ASSUME NEW ln \in Nat, NEW s, Ghosts(s, ln), NEW ly \in Nat, NEW y, NEW j \in Nat, OneReply(y, ly, j),
           NEW r, NEW of \in Nat, of < j, Ahead(s, r, of)
    PROVE  Ahead(Joined(s, ln, y, ly), r, of)
<1> DEFINE t == Joined(s, ln, y, ly)
<1>1. DOMAIN t = 1 .. ln + ly
  BY DEF Joined
<1>2. \A i \in 1 .. ln + ly :
        \/ i \in 1 .. ln /\ t[i] = s[i]
        \/ i > ln /\ i - ln \in 1 .. ly /\ t[i] = y[i - ln]
  BY DEF Joined
<1> HIDE DEF t
<1> SUFFICES ASSUME NEW n \in 1 .. ln + ly, t[n].of # 0
             PROVE  /\ of <= t[n].of
                    /\ Begins(t[n]) => of < t[n].of
                    /\ GoesOn(t[n]) /\ t[n].rep.ch = r.channel => t[n].of = of \/ Started(t, n)
                    /\ GoesOn(t[n]) /\ t[n].of = of /\ r.cmd = CmdPing => Echoes(t[n].rep, of, r.want)
  BY <1>1 DEF Ahead, t
<1>3. CASE n \in 1 .. ln
  <2>1. t[n] = s[n] /\ \A i \in 1 .. n - 1 : i \in 1 .. ln /\ t[i] = s[i]
    BY <1>2, <1>3
  <2>2. Started(s, n) => Started(t, n)
    BY <2>1 DEF Started
  <2>3. QED
    BY <1>3, <2>1, <2>2 DEF Ahead, Ghosts
<1>4. CASE n > ln
  <2>1. t[n] = y[n - ln] /\ n - ln \in 1 .. ly
    BY <1>2, <1>4
  <2>2. t[n].of = j
    BY <2>1 DEF OneReply
  <2>3. ASSUME GoesOn(t[n]) PROVE Started(t, n)
    <3>1. n - ln # 1
      BY <2>1, <2>3 DEF OneReply
    <3>2. n - ln \in 2 .. ly /\ ln + 1 \in 1 .. n - 1 /\ ln + 1 \in 1 .. ln + ly /\ (ln + 1) - ln = 1 /\ 1 \in 1 .. ly
      BY <1>4, <2>1, <3>1
    <3>3. t[ln + 1] = y[1]
      BY <1>2, <3>2
    <3>4. Starts(y[1]) /\ y[1].of = y[n - ln].of /\ y[1].rep.ch = y[n - ln].rep.ch
      BY <3>2 DEF OneReply
    <3>5. QED
      BY <2>1, <3>2, <3>3, <3>4 DEF Started
  <2>4. QED
    BY <2>2, <2>3
<1>5. QED
  BY <1>3, <1>4

(* And what they are for the reports in the transport and in the device.     *)
LEMMA FlowAt ==
    ASSUME NEW S, NEW a \in Seq(S), NEW b \in Seq(S)
    PROVE  /\ Len(a) + Len(b) \in Nat /\ Len(a) \in 0 .. Len(a) + Len(b)
           /\ DOMAIN Flow(a, b) = 1 .. Len(a) + Len(b)
           /\ \A n \in 1 .. Len(a) + Len(b) : Flow(a, b)[n] \in S
           /\ \A n \in DOMAIN a : n \in 1 .. Len(a) + Len(b) /\ Flow(a, b)[n] = a[n]
           /\ \A n \in DOMAIN b : Len(a) + n \in 1 .. Len(a) + Len(b) /\ Flow(a, b)[Len(a) + n] = b[n]
BY DEF Flow

LEMMA FlowEmits ==
    ASSUME NEW S, NEW a \in Seq(S), NEW b \in Seq(S), b # << >>
    PROVE  Flow(Append(a, Head(b)), Tail(b)) = Flow(a, b)
<1> DEFINE c == Append(a, Head(b))
           d == Tail(b)
<1>1. /\ Len(a) \in Nat /\ Len(b) \in Nat /\ Len(b) >= 1
      /\ Len(c) = Len(a) + 1 /\ Len(d) = Len(b) - 1
      /\ \A i \in 1 .. Len(a) : c[i] = a[i]
      /\ c[Len(a) + 1] = b[1]
      /\ \A i \in 1 .. Len(b) - 1 : d[i] = b[i + 1]
  OBVIOUS
<1> HIDE DEF c, d
<1>2. Len(c) + Len(d) = Len(a) + Len(b)
  BY <1>1
<1>3. ASSUME NEW i \in 1 .. Len(a) + Len(b)
      PROVE  (IF i <= Len(c) THEN c[i] ELSE d[i - Len(c)]) = (IF i <= Len(a) THEN a[i] ELSE b[i - Len(a)])
  <2>1. CASE i <= Len(a)
    BY <1>1, <2>1
  <2>2. CASE i = Len(a) + 1
    BY <1>1, <2>2
  <2>3. CASE i > Len(a) + 1
    <3>1. i - Len(c) \in 1 .. Len(b) - 1 /\ (i - Len(c)) + 1 = i - Len(a)
      BY <1>1, <2>3
    <3>2. QED
      BY <1>1, <2>3, <3>1
  <2>4. QED
    BY <1>1, <2>1, <2>2, <2>3
<1>4. QED
  BY <1>2, <1>3 DEF Flow, c, d

LEMMA FlowRead ==
    ASSUME NEW S, NEW a \in Seq(S), NEW b \in Seq(S), a # << >>
    PROVE  /\ Flow(Tail(a), b) = Rest(Flow(a, b), Len(a) + Len(b))
           /\ Flow(a, b)[1] = Head(a) /\ Len(a) + Len(b) \in Nat \ {0}
<1> DEFINE c == Tail(a)
<1>1. /\ Len(a) \in Nat /\ Len(b) \in Nat /\ Len(a) >= 1 /\ Len(c) = Len(a) - 1
      /\ \A i \in 1 .. Len(a) - 1 : c[i] = a[i + 1]
  OBVIOUS
<1>2. Flow(a, b)[1] = Head(a)
  BY <1>1 DEF Flow
<1> HIDE DEF c
<1>3. Len(c) + Len(b) = Len(a) + Len(b) - 1
  BY <1>1
<1>4. ASSUME NEW i \in 1 .. Len(a) + Len(b) - 1
      PROVE  (IF i <= Len(c) THEN c[i] ELSE b[i - Len(c)]) = Flow(a, b)[i + 1]
  <2>1. i + 1 \in 1 .. Len(a) + Len(b)
    BY <1>1
  <2>2. Flow(a, b)[i + 1] = IF i + 1 <= Len(a) THEN a[i + 1] ELSE b[(i + 1) - Len(a)]
    BY <2>1 DEF Flow
  <2>3. CASE i <= Len(c)
    BY <1>1, <2>2, <2>3
  <2>4. CASE ~(i <= Len(c))
    <3>1. (i + 1) - Len(a) = i - Len(c) /\ ~(i + 1 <= Len(a))
      BY <1>1, <2>4
    <3>2. QED
      BY <2>2, <2>4, <3>1
  <2>5. QED
    BY <2>3, <2>4
<1>5. Flow(c, b) = Rest(Flow(a, b), Len(a) + Len(b))
  <2> DEFINE g == Flow(a, b)
  <2>1. \A i \in 1 .. Len(a) + Len(b) - 1 :
           (IF i <= Len(c) THEN c[i] ELSE b[i - Len(c)]) = g[i + 1]
    BY <1>4
  <2>2. PICK m : m = Len(a) + Len(b) - 1
    OBVIOUS
  <2> HIDE DEF g
  <2>3. Rest(g, Len(a) + Len(b)) = [i \in 1 .. m |-> g[i + 1]]
    BY <2>2 DEF Rest
  <2>4. Flow(c, b) = [i \in 1 .. m |-> IF i <= Len(c) THEN c[i] ELSE b[i - Len(c)]]
    BY <1>3, <2>2 DEF Flow
  <2>5. Flow(c, b) = Rest(g, Len(a) + Len(b))
    BY <2>1, <2>2, <2>3, <2>4
  <2>6. QED
    BY <2>5 DEF g
<1>6. Len(a) + Len(b) \in Nat \ {0}
  <2>1. Len(a) \in Nat /\ Len(b) \in Nat /\ Len(a) >= 1
    BY <1>1
  <2>2. QED
    BY <2>1
<1>7. QED
  BY <1>2, <1>5, <1>6 DEF c

LEMMA FlowCut ==
    ASSUME NEW S, NEW a \in Seq(S), NEW b \in Seq(S)
    PROVE  Flow(a, << >>) = Cut(Flow(a, b), Len(a))
<1>1. Len(a) \in Nat /\ Len(b) \in Nat /\ Len(<< >>) = 0
  OBVIOUS
<1>2. QED
  BY <1>1 DEF Flow, Cut

LEMMA FlowBetween ==
    ASSUME NEW S, NEW a \in Seq(S), NEW b \in Seq(S), NEW x
    PROVE  Flow(Append(a, x), b) = Between(Flow(a, b), Len(a) + Len(b), Len(a), x)
<1> DEFINE c == Append(a, x)
<1>1. /\ Len(a) \in Nat /\ Len(b) \in Nat /\ Len(c) = Len(a) + 1
      /\ \A i \in 1 .. Len(a) : c[i] = a[i]
      /\ c[Len(a) + 1] = x
  OBVIOUS
<1> HIDE DEF c
<1>2. Len(c) + Len(b) = Len(a) + Len(b) + 1
  BY <1>1
<1>3. ASSUME NEW i \in 1 .. Len(a) + Len(b) + 1
      PROVE  (IF i <= Len(c) THEN c[i] ELSE b[i - Len(c)])
               = (IF i <= Len(a) THEN Flow(a, b)[i] ELSE IF i = Len(a) + 1 THEN x ELSE Flow(a, b)[i - 1])
  <2>1. CASE i <= Len(a)
    BY <1>1, <2>1 DEF Flow
  <2>2. CASE i = Len(a) + 1
    BY <1>1, <2>2
  <2>3. CASE i > Len(a) + 1
    <3>1. i - 1 \in 1 .. Len(a) + Len(b) /\ ~(i - 1 <= Len(a)) /\ (i - 1) - Len(a) = i - Len(c) /\ ~(i <= Len(c))
      BY <1>1, <2>3
    <3>2. Flow(a, b)[i - 1] = b[(i - 1) - Len(a)]
      BY <3>1 DEF Flow
    <3>3. QED
      BY <1>1, <2>3, <3>1, <3>2
  <2>4. QED
    BY <1>1, <2>1, <2>2, <2>3
<1>4. QED
  BY <1>2, <1>3 DEF Flow, Between, c

LEMMA FlowJoined ==
    ASSUME NEW S, NEW a \in Seq(S), NEW b \in Seq(S)
    PROVE  Flow(a, b) = Joined(Flow(a, << >>), Len(a) + Len(<< >>), b, Len(b))
<1>1. Len(a) \in Nat /\ Len(b) \in Nat /\ Len(<< >>) = 0 /\ Len(a) + Len(<< >>) = Len(a)
  OBVIOUS
<1>2. ASSUME NEW i \in 1 .. Len(a) + Len(b)
      PROVE  (IF i <= Len(a) THEN a[i] ELSE b[i - Len(a)])
               = (IF i <= Len(a) THEN Flow(a, << >>)[i] ELSE b[i - Len(a)])
  BY <1>1 DEF Flow
<1>3. QED
  BY <1>1, <1>2 DEF Flow, Joined

LEMMA FlowJoinedOne ==
    ASSUME NEW S, NEW a \in Seq(S), NEW x \in S
    PROVE  Flow(Append(a, x), << >>) = Joined(Flow(a, << >>), Len(a) + Len(<< >>), <<x>>, 1)
<1> DEFINE c == Append(a, x)
<1>1. /\ Len(a) \in Nat /\ Len(<< >>) = 0 /\ Len(a) + Len(<< >>) = Len(a) /\ Len(c) = Len(a) + 1
      /\ \A i \in 1 .. Len(a) : c[i] = a[i]
      /\ c[Len(a) + 1] = x
  OBVIOUS
<1> HIDE DEF c
<1>2. ASSUME NEW i \in 1 .. Len(a) + 1
      PROVE  (IF i <= Len(c) THEN c[i] ELSE << >>[i - Len(c)])
               = (IF i <= Len(a) THEN Flow(a, << >>)[i] ELSE <<x>>[i - Len(a)])
  <2>1. CASE i <= Len(a)
    BY <1>1, <2>1 DEF Flow
  <2>2. CASE i = Len(a) + 1
    <3>1. i - Len(a) = 1 /\ <<x>>[1] = x
      BY <1>1, <2>2
    <3>2. QED
      BY <1>1, <2>2, <3>1
  <2>3. QED
    BY <1>1, <2>1, <2>2
<1>3. QED
  BY <1>1, <1>2 DEF Flow, Joined, c

LEMMA JoinAt ==
    ASSUME NEW a \in Seq(Nat), NEW b \in Seq(Nat)
    PROVE  /\ Len(a \o b) = Len(a) + Len(b)
           /\ \A p \in 1 .. Len(a) : (a \o b)[p] = a[p]
           /\ \A q \in 1 .. Len(b) : (a \o b)[Len(a) + q] = b[q]
<1>1. Len(a) \in Nat /\ Len(b) \in Nat
  OBVIOUS
<1>2. /\ Len(a \o b) = Len(a) + Len(b)
      /\ \A p \in 1 .. Len(a) + Len(b) :
            (a \o b)[p] = IF p <= Len(a) THEN a[p] ELSE b[p - Len(a)]
  BY ConcatProperties
<1>3. ASSUME NEW q \in 1 .. Len(b) PROVE (a \o b)[Len(a) + q] = b[q]
  <2>1. Len(a) + q \in 1 .. Len(a) + Len(b) /\ ~(Len(a) + q <= Len(a)) /\ (Len(a) + q) - Len(a) = q
    BY <1>1
  <2>2. QED
    BY <1>2, <2>1
<1>4. ASSUME NEW p \in 1 .. Len(a) PROVE (a \o b)[p] = a[p]
  BY <1>1, <1>2
<1>5. QED
  BY <1>2, <1>3, <1>4

(* A packet that is taken for the reply it belongs to keeps the count.       *)
LEMMA CountedTaken ==
    ASSUME NEW r \in Assembling(Channels), NEW rep \in Report, NEW of, Takes(r, rep),
           rep.init =>
             /\ Len(rep.body) = initPayload
             /\ rep.val = CmdPing => \A p \in 1 .. initPayload : p <= rep.len => rep.body[p] = of,
           ~rep.init =>
             /\ Len(rep.body) = contPayload /\ Counted(r, of)
             /\ r.cmd = CmdPing => Echoes(rep, of, r.want)
    PROVE  Counted(Taken(r, rep), of)
<1> DEFINE t == Taken(r, rep)
<1>1. CASE rep.init
  <2>1. t = Fields(r.channel, rep.val, rep.body, rep.len, 0, TRUE)
    BY <1>1 DEF Taken
  <2>2. QED
    BY <1>1, <2>1, SizesNat DEF Counted, Fields
<1>2. CASE ~rep.init
  <2> DEFINE d == r.data \o rep.body
  <2>1. t = Fields(r.channel, r.cmd, d, r.want, r.seq + 1, TRUE)
    BY <1>2 DEF Taken
  <2>2. /\ r.seq \in Nat /\ r.seq = rep.val /\ r.data \in Seq(Nat) /\ rep.body \in Seq(Nat)
        /\ Len(r.data) = Offset(r.seq) /\ Len(rep.body) = contPayload
    BY <1>2, SizesNat DEF Takes, Assembling, Report, Counted
  <2>3. /\ Offset(r.seq) \in Nat /\ contPayload \in Nat
        /\ Offset(r.seq + 1) = Offset(r.seq) + contPayload
    BY <2>2, OffsetStep
  <2>4. /\ Len(d) = Offset(r.seq) + contPayload
        /\ \A p \in 1 .. Offset(r.seq) : d[p] = r.data[p]
        /\ \A q \in 1 .. contPayload : d[Offset(r.seq) + q] = rep.body[q]
    <3>1. /\ Len(d) = Len(r.data) + Len(rep.body)
          /\ \A p \in 1 .. Len(r.data) : d[p] = r.data[p]
          /\ \A q \in 1 .. Len(rep.body) : d[Len(r.data) + q] = rep.body[q]
      BY <2>2, JoinAt
    <3> HIDE DEF d
    <3>2. QED
      BY <2>2, <3>1
  <2> HIDE DEF d
  <2>5. ASSUME r.cmd = CmdPing, NEW p \in 1 .. Len(d), p <= r.want PROVE d[p] = of
    <3>1. CASE p <= Offset(r.seq)
      <4>1. p \in 1 .. Offset(r.seq) /\ p \in 1 .. Len(r.data)
        BY <2>2, <2>3, <2>4, <3>1
      <4>2. Counted(r, of)
        BY <1>2
      <4>3. r.data[p] = of
        BY <2>5, <4>1, <4>2 DEF Counted
      <4>4. QED
        BY <2>4, <4>1, <4>3
    <3>2. CASE ~(p <= Offset(r.seq))
      <4>1. p - Offset(r.seq) \in 1 .. contPayload /\ Offset(r.seq) + (p - Offset(r.seq)) = p
        BY <2>3, <2>4, <3>2
      <4>2. d[p] = rep.body[p - Offset(r.seq)]
        BY <2>4, <4>1
      <4>3. QED
        BY <1>2, <2>2, <2>5, <4>1, <4>2 DEF Echoes
    <3>3. QED
      BY <3>1, <3>2
  <2>6. QED
    BY <2>1, <2>3, <2>4, <2>5 DEF Counted, Fields
<1>3. QED
  BY <1>1, <1>2

----------------------------------------------------------------------------
(***************************************************************************)
(* What does not change stays.                                             *)
(***************************************************************************)
LEMMA ComingStays ==
    ASSUME Coming, UNCHANGED <<inbox, pending, sent, given, consumed>> PROVE Coming'
BY DEF Coming, Stream

LEMMA WorkingStays ==
    ASSUME Working, UNCHANGED <<inbox, pending, sent, consumed, work>> PROVE Working'
BY DEF Working, Stream

LEMMA ReadingStays ==
    ASSUME Reading, UNCHANGED <<pc, rc, k, from, sent, consumed, work, inbox, pending>> PROVE Reading'
BY DEF Reading, Stream

LEMMA InboxStays ==
    ASSUME TypeOK, UNCHANGED <<inbox, pending, sent>>
    PROVE  inbox' \in Seq(InboxReport)' /\ pending' \in Seq(InboxReport)'
<1>1. InboxReport' = InboxReport
  BY DEF InboxReport
<1>2. QED
  BY <1>1 DEF TypeOK

LEMMA AskedStays == ASSUME Asked, UNCHANGED <<st, pc, sent, call>> PROVE Asked'
BY DEF Asked

LEMMA SendingStays ==
    ASSUME Sending, UNCHANGED <<pc, k, kasm, call, packets, inbox, pending, work, consumed, sent>>
    PROVE  Sending'
BY DEF Sending, Stream, Left

(* More requests than before. *)
LEMMA SoundGrows ==
    ASSUME NEW asked \in Seq(Commands), NEW cmd \in Commands, NEW r, NEW ch,
           r.of \in 0 .. Len(asked), Sound(r, asked, ch)
    PROVE  Sound(r, Append(asked, cmd), ch)
<1>1. r.of # 0 => Append(asked, cmd)[r.of] = asked[r.of]
  OBVIOUS
<1>2. QED
  BY <1>1 DEF Sound

LEMMA JobGrows ==
    ASSUME NEW asked \in Seq(Commands), NEW cmd \in Commands, NEW w \in Request, NEW used,
           Job(w, asked, used)
    PROVE  Job(w, Append(asked, cmd), used)
<1>1. Len(Append(asked, cmd)) = Len(asked) + 1 /\ Len(asked) \in Nat /\ w.id \in Nat \ {0}
  BY DEF Request
<1>2. w.id <= Len(asked)
  BY DEF Job
<1>3. Append(asked, cmd)[w.id] = asked[w.id]
  BY <1>1, <1>2
<1>4. QED
  BY <1>1, <1>2, <1>3 DEF Job

LEMMA ForeignShape ==
    ASSUME NEW rep \in Foreign
    PROVE  /\ rep \in Report /\ rep.init /\ rep.size = ReportSize
           /\ rep.ch \in Channels => rep.val = CmdInit /\ rep.len = 3 /\ rep.body[1] = OtherNonce
<1>1. CASE rep = InitPacket(OtherChannel, CmdPing, <<9>>)
  <2>1. CmdPing \in Numbers /\ OtherChannel \in Channels \cup {OtherChannel} /\ OtherChannel \notin Channels
    BY CommandNumbers DEF Commands
  <2>2. <<9>> \in Seq(Nat) /\ Len(<<9>>) <= MaxMessage
    BY SizesNat DEF InitReplyLen
  <2> DEFINE d == <<9>>
             p == InitPacket(OtherChannel, CmdPing, d)
  <2>3. d \in Seq(Nat) /\ Len(d) <= MaxMessage
    BY <2>2
  <2> HIDE DEF d
  <2>4. p \in Report
    BY <2>1, <2>3, InitPacketType
  <2>5. p.init /\ p.size = ReportSize /\ p.ch = OtherChannel
    BY DEF InitPacket
  <2>6. rep = p
    BY <1>1 DEF d
  <2> HIDE DEF p
  <2>7. QED
    BY <2>1, <2>4, <2>5, <2>6
<1>2. CASE rep = InitPacket(BroadcastChannel, CmdInit, InitReply(OtherNonce, OtherChannel, CapWink + CapCBOR))
  <2> DEFINE d == InitReply(OtherNonce, OtherChannel, CapWink + CapCBOR)
  <2>1. CmdInit \in Numbers /\ BroadcastChannel \in Channels \cup {OtherChannel}
    BY CommandNumbers DEF Commands, Channels
  <2>2. d = <<OtherNonce, 2, 5>> /\ OtherNonce \in Nat
    BY DEF InitReply, OtherChannel, CapWink, CapCBOR, OtherNonce
  <2> HIDE DEF d
  <2>3. d \in Seq(Nat) /\ Len(d) = 3 /\ d[1] = OtherNonce
    BY <2>2
  <2>4. 1 \in 1 .. initPayload /\ 3 <= MaxMessage
    BY SizesNat DEF InitReplyLen
  <2> DEFINE p == InitPacket(BroadcastChannel, CmdInit, d)
  <2>9. d \in Seq(Nat) /\ Len(d) <= MaxMessage
    BY <2>3, <2>4
  <2>5. /\ p \in Report /\ p.init /\ p.size = ReportSize /\ p.val = CmdInit /\ p.len = Len(d)
        /\ \A q \in 1 .. initPayload : p.body[q] = PadByte(d, q)
    <3> DEFINE ch == BroadcastChannel
               cmd == CmdInit
    <3>0. cmd \in Numbers /\ ch \in Channels \cup {OtherChannel} /\ p = InitPacket(ch, cmd, d)
      BY <2>1
    <3> HIDE DEF p, ch, cmd
    <3>1. p \in Report
      BY <3>0, <2>9, InitPacketType
    <3>2. p.init /\ p.size = ReportSize
      BY <3>0 DEF InitPacket
    <3>3. p.val = cmd /\ p.len = Len(d)
      BY <3>0, <2>9, InitPacketFields
    <3>4. \A q \in 1 .. initPayload : p.body[q] = PadByte(d, q)
      BY <3>0, InitPacketBody
    <3>5. QED
      BY <3>1, <3>2, <3>3, <3>4 DEF cmd
  <2>6. rep = p
    BY <1>2 DEF d
  <2> HIDE DEF p
  <2>7. rep.body[1] = OtherNonce
    BY <2>3, <2>4, <2>5, <2>6 DEF PadByte
  <2>8. QED
    BY <2>3, <2>5, <2>6, <2>7
<1>3. QED
  BY <1>1, <1>2 DEF Foreign

LEMMA ForeignPayload ==
    ASSUME NEW rep \in Foreign
    PROVE  /\ Len(rep.body) = initPayload
           /\ rep.val \in {CmdInit, CmdKeepalive} => rep.len <= initPayload
<1>1. PICK c, m, d : d \in Seq(Nat) /\ Len(d) <= 3 /\ rep = InitPacket(c, m, d)
  <2>1. CASE rep = InitPacket(OtherChannel, CmdPing, <<9>>)
    <3>1. <<9>> \in Seq(Nat) /\ Len(<<9>>) <= 3
      OBVIOUS
    <3>2. QED
      BY <2>1, <3>1
  <2>2. CASE rep = InitPacket(BroadcastChannel, CmdInit, InitReply(OtherNonce, OtherChannel, CapWink + CapCBOR))
    <3> DEFINE d == InitReply(OtherNonce, OtherChannel, CapWink + CapCBOR)
    <3>1. d \in Seq(Nat) /\ Len(d) <= 3
      BY DEF InitReply, OtherChannel, CapWink, CapCBOR, OtherNonce
    <3> HIDE DEF d
    <3>2. QED
      BY <2>2, <3>1 DEF d
  <2>3. QED
    BY <2>1, <2>2 DEF Foreign
<1>2. 3 <= initPayload /\ initPayload <= MaxMessage /\ initPayload \in Nat /\ MaxMessage \in Nat
  BY SizesNat DEF InitReplyLen
<1>3. Len(d) \in Nat /\ Len(d) <= MaxMessage
  BY <1>1, <1>2
<1>4. rep.len = Len(d) /\ Len(rep.body) = initPayload
  BY <1>1, <1>3, InitPacketFields
<1>5. QED
  BY <1>1, <1>2, <1>3, <1>4

LEMMA StreamGhosts ==
    ASSUME TypeOK, Coming
    PROVE  /\ Len(inbox) + Len(pending) \in Nat
           /\ Ghosts(Stream, Len(inbox) + Len(pending))
           /\ DOMAIN Stream = 1 .. Len(inbox) + Len(pending)
           /\ \A n \in 1 .. Len(inbox) + Len(pending) :
                Stream[n].rep \in Report /\ Stream[n].of \in 0 .. Len(sent)
<1>1. /\ Len(inbox) + Len(pending) \in Nat /\ DOMAIN Stream = 1 .. Len(inbox) + Len(pending)
      /\ \A n \in 1 .. Len(inbox) + Len(pending) : Stream[n] \in InboxReport
  BY FlowAt DEF TypeOK, Stream
<1>2. ASSUME NEW n \in 1 .. Len(inbox) + Len(pending), GoesOn(Stream[n]) PROVE Stream[n].of # 0
  <2>1. Stream[n].of = 0 => Stream[n].rep \in Foreign
    BY <1>1 DEF Coming, Sound
  <2>2. QED
    BY <1>2, <2>1, ForeignShape DEF GoesOn
<1>3. \A n \in 1 .. Len(inbox) + Len(pending) : Stream[n].rep \in Report /\ Stream[n].of \in 0 .. Len(sent)
  BY <1>1 DEF InboxReport
<1>4. \A n \in 1 .. Len(inbox) + Len(pending) : Stream[n].of \in Nat
  BY <1>3
<1>5. QED
  BY <1>1, <1>2, <1>3, <1>4 DEF Ghosts

----------------------------------------------------------------------------
(***************************************************************************)
(* What a report that the reassembler takes makes of it (Heard): the reply *)
(* of one request that was not used up, or another program's INIT reply.   *)
(***************************************************************************)
ReadAll == Rest(Stream, Len(inbox) + Len(pending))

Hears(r, h) ==
    /\ r.of = 0 => h.cmd = CmdInit /\ ~Short(h) /\ h.want = 3 /\ h.data[1] = OtherNonce
    /\ r.of # 0 =>
         /\ consumed < r.of /\ Counted(h, r.of)
         /\ h.cmd \in Commands => h.cmd = sent[r.of]
         /\ h.cmd = CmdInit =>
              /\ ~Short(h)
              /\ h.want >= InitReplyLen => given # 0 /\ h.data[2] = given /\ h.data[3] \in KeyCaps
         /\ Short(h) \/ h.cmd # CmdKeepalive =>
              (\A i \in DOMAIN work : r.of < work[i].id) /\ Ahead(ReadAll, h, r.of)

LEMMA HeadRead ==
    ASSUME TypeOK, Coming, inbox # << >>
    PROVE  LET r == Head(inbox) IN
           /\ Len(inbox) + Len(pending) \in Nat \ {0}
           /\ r = Stream[1] /\ 1 \in DOMAIN Stream /\ r \in InboxReport
           /\ r.rep \in Report /\ r.of \in 0 .. Len(sent)
           /\ Sound(r, sent, given) /\ Fresh(r, consumed)
           /\ GoesOn(r) => r.of # 0
           /\ Flow(Tail(inbox), pending) = ReadAll
           /\ Tail(inbox) \in Seq(InboxReport)
<1>1. inbox \in Seq(InboxReport) /\ pending \in Seq(InboxReport)
  BY DEF TypeOK
<1>2. /\ Flow(Tail(inbox), pending) = ReadAll
      /\ Stream[1] = Head(inbox) /\ Len(inbox) + Len(pending) \in Nat \ {0}
  BY <1>1, FlowRead DEF Stream, ReadAll
<1>3. 1 \in 1 .. Len(inbox) + Len(pending)
  BY <1>2
<1>4. /\ 1 \in DOMAIN Stream /\ Stream[1].rep \in Report /\ Stream[1].of \in 0 .. Len(sent)
      /\ GoesOn(Stream[1]) => Stream[1].of # 0
  BY <1>3, StreamGhosts DEF Ghosts
<1>5. Sound(Stream[1], sent, given) /\ Fresh(Stream[1], consumed)
  BY <1>4 DEF Coming
<1>6. Tail(inbox) \in Seq(InboxReport) /\ Head(inbox) \in InboxReport
  BY <1>1
<1>7. QED
  BY <1>2, <1>4, <1>5, <1>6

(* An initialisation packet. *)
LEMMA HeardFirst ==
    ASSUME TypeOK, Coming, Working, Reading, pc = "recv", inbox # << >>,
           Takes(rc, Head(inbox).rep), Head(inbox).rep.init
    PROVE  Hears(Head(inbox), Taken(rc, Head(inbox).rep))
<1> DEFINE r == Head(inbox)
           h == Taken(rc, r.rep)
<1>1. /\ Len(inbox) + Len(pending) \in Nat \ {0} /\ r = Stream[1] /\ 1 \in DOMAIN Stream
      /\ r.rep \in Report /\ r.of \in 0 .. Len(sent)
      /\ Sound(r, sent, given) /\ Fresh(r, consumed)
  BY HeadRead
<1>2. /\ h = Fields(rc.channel, r.rep.val, r.rep.body, r.rep.len, 0, TRUE)
      /\ r.rep.ch = rc.channel /\ rc.channel = k.channel /\ k.channel \in Channels
      /\ rc \in Assembling(Channels)
  BY DEF Taken, Takes, Reading, TypeOK
<1>3. h.channel = rc.channel /\ h.cmd = r.rep.val /\ h.data = r.rep.body /\ h.want = r.rep.len /\ h.seq = 0
  BY <1>2 DEF Fields
<1>4. Begins(r) /\ Len(r.rep.body) = initPayload
  <2>1. r.rep.size >= initHeader
    BY DEF Takes
  <2>2. contHeader - 1 < initHeader /\ initHeader \in Int /\ contHeader - 1 \in Int
    BY DEF contHeader, initHeader
  <2>3. r.rep.size = ReportSize
    BY <1>1, <2>1, <2>2 DEF Sound
  <2>4. Begins(r)
    BY <2>3 DEF Begins
  <2>5. QED
    BY <1>1, <2>4 DEF Sound
<1>5. Counted(h, r.of) \/ r.of = 0
  <2>1. r.of # 0 /\ r.rep.val = CmdPing => \A p \in 1 .. initPayload : p <= r.rep.len => r.rep.body[p] = r.of
    BY <1>1, <1>4 DEF Sound
  <2>2. QED
    BY <1>1, <1>2, <1>4, <2>1, CountedTaken
<1> HIDE DEF r, h
<1>6. CASE r.of = 0
  <2>1. h.cmd = CmdInit /\ h.want = 3 /\ h.data[1] = OtherNonce
    <3>1. r.rep \in Foreign
      BY <1>1, <1>6 DEF Sound
    <3>2. r.rep.ch \in Channels
      BY <1>2
    <3>3. r.rep.val = CmdInit /\ r.rep.len = 3 /\ r.rep.body[1] = OtherNonce
      BY <3>1, <3>2, ForeignShape
    <3>4. QED
      BY <1>3, <3>3
  <2>2. ~Short(h)
    BY <1>3, <1>4, <2>1, SizesNat DEF Short, InitReplyLen
  <2>3. QED
    BY <1>6, <2>1, <2>2 DEF Hears, r, h
<1>7. CASE r.of # 0
  <2>1. consumed < r.of
    BY <1>1, <1>4, <1>7 DEF Fresh
  <2>2. h.cmd \in Commands => h.cmd = sent[r.of]
    BY <1>1, <1>3, <1>4, <1>7 DEF Sound
  <2>3. h.cmd \in {CmdInit, CmdKeepalive} => ~Short(h)
    <3>1. h.cmd \in {CmdInit, CmdKeepalive} => h.want <= initPayload
      BY <1>1, <1>3, <1>4 DEF Sound
    <3>2. h.want \in Nat /\ Len(h.data) = initPayload /\ initPayload \in Nat
      BY <1>1, <1>3, <1>4, SizesNat DEF Report
    <3>3. QED
      BY <3>1, <3>2 DEF Short
  <2>4. h.cmd = CmdInit /\ h.want >= InitReplyLen => given # 0 /\ h.data[2] = given /\ h.data[3] \in KeyCaps
    BY <1>1, <1>3, <1>4, <1>7 DEF Sound
  <2>5. ASSUME Short(h) \/ h.cmd # CmdKeepalive
        PROVE  (\A i \in DOMAIN work : r.of < work[i].id) /\ Ahead(ReadAll, h, r.of)
    <3>1. Starts(r)
      BY <1>3, <1>4, <2>3, <2>5 DEF Starts
    <3>2. \A i \in DOMAIN work : r.of < work[i].id
      BY <1>1, <3>1 DEF Working, Before
    <3>3. Ahead(Rest(Stream, Len(inbox) + Len(pending)), h, Stream[1].of)
      <4>1. Linked(Stream) /\ Ghosts(Stream, Len(inbox) + Len(pending))
        BY StreamGhosts DEF Coming
      <4>2. Starts(Stream[1]) /\ Stream[1].of # 0
        BY <1>1, <1>7, <3>1
      <4>3. h.channel = Stream[1].rep.ch /\ h.cmd = Stream[1].rep.val /\ h.want = Stream[1].rep.len
        BY <1>1, <1>2, <1>3
      <4>4. QED
        BY <1>1, <4>1, <4>2, <4>3, AheadStarted
    <3>4. QED
      BY <1>1, <3>2, <3>3 DEF ReadAll
  <2>6. Counted(h, r.of)
    BY <1>5, <1>7
  <2>7. QED
    BY <1>7, <2>1, <2>2, <2>3, <2>4, <2>5, <2>6 DEF Hears, r, h
<1>8. QED
  BY <1>6, <1>7

(* A continuation packet: it belongs to the message that it is taken for. *)
LEMMA HeardNext ==
    ASSUME TypeOK, Coming, Working, Reading, pc = "recv", inbox # << >>,
           Takes(rc, Head(inbox).rep), ~Head(inbox).rep.init
    PROVE  Hears(Head(inbox), Taken(rc, Head(inbox).rep)) /\ from = {Head(inbox).of}
<1> DEFINE r == Head(inbox)
           h == Taken(rc, r.rep)
<1>1. /\ Len(inbox) + Len(pending) \in Nat \ {0} /\ r = Stream[1] /\ 1 \in DOMAIN Stream
      /\ r.rep \in Report /\ r.of \in 0 .. Len(sent)
      /\ Sound(r, sent, given) /\ r.of # 0
  BY HeadRead DEF GoesOn
<1>2. /\ h = Fields(rc.channel, rc.cmd, rc.data \o r.rep.body, rc.want, rc.seq + 1, TRUE)
      /\ r.rep.ch = rc.channel /\ rc.started
      /\ rc \in Assembling(Channels)
  BY DEF Taken, Takes, TypeOK
<1>3. h.channel = rc.channel /\ h.cmd = rc.cmd /\ h.want = rc.want
  BY <1>2 DEF Fields
<1>4. PICK of \in 1 .. Len(sent) :
         /\ from = {of} /\ consumed < of
         /\ Half(rc, of) /\ (rc.cmd \in Commands => rc.cmd = sent[of])
         /\ \A i \in DOMAIN work : of < work[i].id
         /\ Ahead(Stream, rc, of)
  BY <1>2 DEF Reading
<1>5. of = r.of
  <2>1. ~Started(Stream, 1)
    BY DEF Started
  <2>2. Stream[1].of = of \/ Started(Stream, 1)
    BY <1>1, <1>2, <1>4 DEF Ahead, GoesOn
  <2>3. QED
    BY <1>1, <2>1, <2>2
<1>6. Counted(h, of)
  <2>1. Len(r.rep.body) = contPayload
    BY <1>1 DEF Sound, GoesOn
  <2>2. rc.cmd = CmdPing => Echoes(r.rep, of, rc.want)
    BY <1>1, <1>4, <1>5 DEF Ahead, GoesOn
  <2>3. QED
    BY <1>1, <1>2, <1>4, <2>1, <2>2, CountedTaken DEF Half
<1> HIDE DEF h
<1>7. Ahead(ReadAll, h, of)
  <2>1. Ghosts(Stream, Len(inbox) + Len(pending))
    BY StreamGhosts
  <2>2. ~Starts(Stream[1])
    BY <1>1 DEF Starts, Begins
  <2>3. of \in Nat \ {0} /\ Ahead(Stream, rc, of)
    BY <1>4
  <2>4. QED
    BY <1>1, <1>3, <2>1, <2>2, <2>3, AheadRest DEF ReadAll
<1>8. h.cmd # CmdInit
  BY <1>3, <1>4 DEF Half
<1> HIDE DEF r
<1>9. QED
  BY <1>1, <1>3, <1>4, <1>5, <1>6, <1>7, <1>8 DEF Hears, r, h

(* What roundTrip learns of a report that is taken. *)
LEMMA Heard ==
    ASSUME TypeOK, Coming, Working, Reading, pc = "recv", inbox # << >>,
           Takes(rc, Head(inbox).rep)
    PROVE  LET h == Taken(rc, Head(inbox).rep) IN
           /\ Hears(Head(inbox), h)
           /\ h \in Assembling(Channels) /\ h.started /\ h.channel = k.channel
           /\ Fed = Finish(h) /\ FedFrom = {Head(inbox).of}
<1> DEFINE r == Head(inbox)
           h == Taken(rc, r.rep)
<1>1. r.rep \in Report /\ rc \in Assembling(Channels) /\ rc.channel = k.channel
  BY HeadRead DEF TypeOK, Reading
<1>2. Hears(r, h) /\ (~r.rep.init => from = {r.of})
  BY HeardFirst, HeardNext
<1>3. h \in Assembling(Channels) /\ h.started /\ h.channel = k.channel
  BY <1>1, TakenType
<1>4. Fed = Finish(h)
  BY <1>1, FeedTakes DEF Fed
<1>5. FedFrom = {r.of}
  <2>1. Fed.err = "none"
    BY <1>3, <1>4, FinishType
  <2>2. QED
    BY <1>2, <2>1 DEF FedFrom
<1>6. QED
  BY <1>2, <1>3, <1>4, <1>5

LEMMA ReceiveTypes ==
    ASSUME TypeOK, OneAnswer, Coming, Working, Reading, Receive
    PROVE  /\ pc = "recv" /\ inbox # << >>
           /\ inbox' \in Seq(InboxReport)' /\ pending' \in Seq(InboxReport)'
           /\ rc' \in Assembling(Channels)
           /\ from' \subseteq 0 .. Len(sent) /\ \A i, j \in from' : i = j
<1> DEFINE r == Head(inbox)
           h == Taken(rc, r.rep)
<1>1. /\ pc = "recv" /\ inbox # << >> /\ inbox' = Tail(inbox) /\ rc' = Fed.rc /\ from' = FedFrom
      /\ pending' = pending /\ sent' = sent
  BY DEF Receive, device
<1>2. Tail(inbox) \in Seq(InboxReport) /\ r.rep \in Report /\ r.of \in 0 .. Len(sent)
  BY <1>1, HeadRead
<1>3. inbox' \in Seq(InboxReport)' /\ pending' \in Seq(InboxReport)'
  <2>1. InboxReport' = InboxReport
    BY <1>1 DEF InboxReport
  <2>2. Tail(inbox) \in Seq(InboxReport) /\ pending \in Seq(InboxReport)
    BY <1>2 DEF TypeOK
  <2>3. QED
    BY <1>1, <2>1, <2>2
<1>4. CASE Takes(rc, r.rep)
  <2>1. h \in Assembling(Channels) /\ h.started /\ Fed = Finish(h) /\ FedFrom = {r.of}
    BY <1>1, <1>4, Heard
  <2>2. Finish(h).rc \in Assembling(Channels)
    BY <2>1, FinishType
  <2>3. QED
    BY <1>1, <1>2, <1>3, <2>1, <2>2
<1>5. CASE ~Takes(rc, r.rep)
  <2>1. Fed.rc = rc /\ Fed.err # "none"
    BY <1>2, <1>5, FeedRefuses DEF Fed
  <2>2. FedFrom = from
    BY <2>1 DEF FedFrom
  <2>3. QED
    BY <1>1, <1>3, <2>1, <2>2 DEF TypeOK, OneAnswer
<1>6. QED
  BY <1>4, <1>5

(* The reports behind the one that was read. *)
LEMMA ReadOn ==
    ASSUME TypeOK, Coming, Working, Receive,
           \/ consumed' = consumed
           \/ /\ consumed' \in Nat /\ \A i \in DOMAIN work : consumed' < work[i].id
              /\ \A n \in DOMAIN ReadAll : Fresh(ReadAll[n], consumed')
    PROVE  Coming' /\ Working' /\ Stream' = ReadAll
<1> DEFINE ln == Len(inbox) + Len(pending)
<1>1. /\ inbox # << >> /\ inbox' = Tail(inbox) /\ pending' = pending /\ sent' = sent
      /\ work' = work /\ given' = given
  BY DEF Receive, device
<1>2. ln \in Nat \ {0} /\ Flow(Tail(inbox), pending) = ReadAll
  BY <1>1, HeadRead
<1>3. Stream' = ReadAll
  BY <1>1, <1>2 DEF Stream
<1>4. Ghosts(Stream, ln) /\ DOMAIN Stream = 1 .. ln
  BY StreamGhosts
<1>5. DOMAIN ReadAll = 1 .. ln - 1 /\ \A n \in 1 .. ln - 1 : ReadAll[n] = Stream[n + 1] /\ n + 1 \in 1 .. ln
  BY <1>2 DEF ReadAll, Rest
<1> HIDE DEF ln
<1>6. Linked(ReadAll)
  BY <1>2, <1>4, ReadFirst DEF ReadAll, Coming, ln
<1>7. \A n \in DOMAIN ReadAll : Sound(ReadAll[n], sent, given) /\ Fresh(ReadAll[n], consumed')
  <2>1. \A n \in DOMAIN ReadAll : Sound(ReadAll[n], sent, given) /\ Fresh(ReadAll[n], consumed)
    BY <1>4, <1>5 DEF Coming
  <2>2. QED
    BY <2>1
<1>8. Coming'
  BY <1>1, <1>3, <1>6, <1>7 DEF Coming
<1>9. Working'
  <2>1. \A i \in DOMAIN work : Job(work[i], sent, consumed') /\ Before(ReadAll, work[i].id)
    <3> SUFFICES ASSUME NEW i \in DOMAIN work
                 PROVE  Job(work[i], sent, consumed') /\ Before(ReadAll, work[i].id)
      OBVIOUS
    <3>1. Job(work[i], sent, consumed) /\ Before(Stream, work[i].id)
      BY DEF Working
    <3>2. Job(work[i], sent, consumed')
      BY <3>1 DEF Job
    <3>3. Before(ReadAll, work[i].id)
      BY <1>2, <1>4, <3>1, BeforeRest DEF ReadAll, ln
    <3>4. QED
      BY <3>2, <3>3
  <2>2. QED
    BY <1>1, <1>3, <2>1 DEF Working
<1>10. QED
  BY <1>3, <1>8, <1>9

(* A reply that was read whole. *)
LEMMA ReadsWhole ==
    ASSUME TypeOK, OneAnswer, Coming, Working, Reading, Reads
    PROVE  LET h == Taken(rc, Head(inbox).rep)  of == Head(inbox).of IN
           /\ Hears(Head(inbox), h) /\ h \in Assembling(Channels) /\ FedFrom = {of}
           /\ Fed.msg.cmd = h.cmd /\ h.cmd # CmdKeepalive /\ ~Short(h)
           /\ Fed.msg.data \in Seq(Nat) /\ Len(Fed.msg.data) = h.want
           /\ h.want <= Len(h.data) /\ \A p \in 1 .. h.want : Fed.msg.data[p] = h.data[p]
           /\ of \in 0 .. Len(sent)
           /\ of = 0 => consumed' = consumed
           /\ of # 0 => consumed' = of
           /\ consumed <= consumed' /\ consumed' \in 0 .. Len(sent)
           /\ Coming' /\ Working'
<1> DEFINE r == Head(inbox)
           h == Taken(rc, r.rep)
<1>1. pc = "recv" /\ inbox # << >> /\ Receive /\ Fed.done /\ ~Skips /\ sent' = sent
  BY DEF Reads, Receive
<1>2. r.rep \in Report /\ r.of \in 0 .. Len(sent) /\ consumed \in 0 .. Len(sent)
  BY <1>1, HeadRead DEF TypeOK
<1>3. Takes(rc, r.rep)
  BY <1>1, <1>2, FeedRefuses DEF Fed
<1>4. /\ Hears(r, h) /\ h \in Assembling(Channels) /\ h.started
      /\ Fed = Finish(h) /\ FedFrom = {r.of}
  BY <1>1, <1>3, Heard
<1> HIDE DEF h
<1>5. ~Short(h)
  BY <1>1, <1>4, FinishType
<1>6. /\ Fed.msg.cmd = h.cmd /\ Fed.msg.data \in Seq(Nat) /\ Len(Fed.msg.data) = h.want
      /\ h.want <= Len(h.data) /\ \A p \in 1 .. h.want : Fed.msg.data[p] = h.data[p]
  BY <1>4, <1>5, FinishType
<1>7. h.cmd # CmdKeepalive
  BY <1>1, <1>6 DEF Skips
<1>8. r.of = 0 => consumed' = consumed
  BY <1>4 DEF Reads
<1>9. r.of # 0 => consumed' = r.of
  <2> SUFFICES ASSUME r.of # 0 PROVE consumed' = r.of
    OBVIOUS
  <2>1. consumed' = CHOOSE j \in {r.of} : \A i \in {r.of} : i <= j
    BY <1>4 DEF Reads
  <2>2. r.of <= r.of
    BY <1>2
  <2>3. QED
    BY <2>1, <2>2
<1>10. r.of # 0 => consumed < r.of
  BY <1>4 DEF Hears
<1>11. Coming' /\ Working'
  <2>1. CASE r.of = 0
    BY <1>1, <1>8, <2>1, ReadOn
  <2>2. CASE r.of # 0
    <3>1. (\A i \in DOMAIN work : r.of < work[i].id) /\ Ahead(ReadAll, h, r.of)
      BY <1>4, <1>7, <2>2 DEF Hears
    <3>2. \A n \in DOMAIN ReadAll : Fresh(ReadAll[n], r.of)
      BY <3>1 DEF Ahead, Fresh
    <3>3. consumed' \in Nat
      BY <1>2, <1>9, <2>2
    <3>4. QED
      BY <1>1, <1>9, <2>2, <3>1, <3>2, <3>3, ReadOn
  <2>3. QED
    BY <2>1, <2>2
<1>12. consumed <= consumed' /\ consumed' \in 0 .. Len(sent)
  BY <1>2, <1>8, <1>9, <1>10
<1> HIDE DEF r
<1>13. QED
  BY <1>2, <1>4, <1>5, <1>6, <1>7, <1>8, <1>9, <1>11, <1>12 DEF r, h

----------------------------------------------------------------------------
(***************************************************************************)
(* The steps of roundTrip keep the invariant.                              *)
(***************************************************************************)

(* Another program's report, a part of an answer, or a keepalive. *)
LEMMA KeepsWaitingKeeps == ASSUME AInv, KeepsWaiting PROVE Answers'
<1> DEFINE r == Head(inbox)
           h == Taken(rc, r.rep)
<1>1. /\ Answers /\ Receive /\ Skips /\ pc = "recv" /\ inbox # << >>
      /\ rc' = Fed.rc /\ from' = FedFrom
      /\ UNCHANGED <<st, k, pc, packets, last, closes, consumed, call, sent, device, foreign>>
  BY DEF KeepsWaiting, Receive, AInv
<1>2. /\ inbox' \in Seq(InboxReport)' /\ pending' \in Seq(InboxReport)'
      /\ rc' \in Assembling(Channels) /\ from' \subseteq 0 .. Len(sent) /\ \A i, j \in from' : i = j
  BY <1>1, ReceiveTypes DEF Answers
<1>3. Coming' /\ Working' /\ Stream' = ReadAll
  BY <1>1, ReadOn DEF Answers
<1>4. TypeOK' /\ OneAnswer'
  BY <1>1, <1>2 DEF Answers, TypeOK, OneAnswer, device
<1>5. Reading'
  <2>1. r.rep \in Report /\ r.of \in 0 .. Len(sent) /\ rc.channel = k.channel
    BY <1>1, HeadRead DEF Answers, Reading
  <2>2. CASE ~Takes(rc, r.rep)
    <3>1. Fed.rc = rc /\ Fed.err = "ErrWrongChannel" /\ r.rep.ch # rc.channel
      BY <1>1, <2>1, <2>2, FeedRefuses DEF Fed, Skips
    <3>2. rc' = rc /\ from' = from
      BY <1>1, <3>1 DEF FedFrom
    <3>3. ASSUME NEW of \in 1 .. Len(sent), Ahead(Stream, rc, of) PROVE Ahead(ReadAll, rc, of)
      <4>1. /\ Len(inbox) + Len(pending) \in Nat \ {0} /\ r = Stream[1]
            /\ Ghosts(Stream, Len(inbox) + Len(pending))
        BY <1>1, HeadRead, StreamGhosts DEF Answers
      <4>2. QED
        BY <3>1, <3>3, <4>1, AheadRest DEF ReadAll
    <3>4. QED
      BY <1>1, <1>3, <3>2, <3>3 DEF Reading, Answers, device
  <2>3. CASE Takes(rc, r.rep)
    <3>1. /\ Hears(r, h) /\ h \in Assembling(Channels) /\ h.started /\ h.channel = k.channel
          /\ Fed = Finish(h) /\ FedFrom = {r.of}
      BY <1>1, <2>3, Heard DEF Answers
    <3> HIDE DEF h
    <3>2. /\ rc'.channel = k.channel
          /\ Short(h) => rc' = h
          /\ ~Short(h) => ~rc'.started
      BY <1>1, <3>1, FinishType
    <3>3. ASSUME Short(h)
          PROVE  /\ r.of \in 1 .. Len(sent) /\ consumed < r.of
                 /\ Half(h, r.of) /\ (h.cmd \in Commands => h.cmd = sent[r.of])
                 /\ \A i \in DOMAIN work : r.of < work[i].id
                 /\ Ahead(ReadAll, h, r.of)
      <4>1. r.of # 0
        BY <3>1, <3>3 DEF Hears
      <4>2. r.of \in 1 .. Len(sent)
        BY <2>1, <4>1
      <4>3. QED
        BY <3>1, <3>3, <4>1, <4>2 DEF Hears, Half
    <3>4. CASE Short(h)
      <4>1. rc' = h /\ from' = {r.of}
        BY <1>1, <3>1, <3>2, <3>4
      <4>2. QED
        BY <1>1, <1>3, <3>1, <3>3, <3>4, <4>1 DEF Reading, device
    <3>5. CASE ~Short(h)
      BY <1>1, <3>2, <3>5 DEF Reading
    <3>6. QED
      BY <3>4, <3>5
  <2>4. QED
    BY <2>2, <2>3
<1>6. Asked' /\ Sending' /\ Opened'
  BY <1>1, AskedStays DEF Answers, Sending, Opened, OwnChannel, device
<1>7. QED
  BY <1>3, <1>4, <1>5, <1>6 DEF Answers

(* A call that fails. *)
LEMMA FailsWell ==
    ASSUME AInv, IInv', pc # "idle", NEW err, Fails(err),
           UNCHANGED <<k, call, sent, kasm, given>>,
           rc' \in Assembling(Channels), from' \subseteq 0 .. Len(sent), \A i, j \in from' : i = j,
           inbox' \in Seq(InboxReport)', pending' \in Seq(InboxReport)',
           consumed' \in 0 .. Len(sent), consumed <= consumed',
           Coming', Working'
    PROVE  Answers'
<1>1. /\ pc' = "idle" /\ last' = Result(call.op, err, << >>, {})
      /\ st' # "new" /\ (st' \in {"open", "closed"} => st' = st)
  BY DEF Fails, Ends, GivesBack, AInv, IInv, Phases
<1>2. closes' \in 0 .. 1 /\ st' \in {"new", "failed", "open", "closed", "panicked"}
  BY DEF IInv, Phases, Released
<1>3. TypeOK'
  BY <1>1, <1>2 DEF AInv, Answers, TypeOK
<1>4. OneAnswer'
  BY <1>1 DEF OneAnswer, Result
<1>5. Asked' /\ Reading' /\ Sending'
  BY <1>1 DEF AInv, Answers, Asked, Reading, Sending
<1>6. Opened'
  <2>1. consumed \in Int /\ consumed' \in Int
    BY DEF AInv, Answers, TypeOK
  <2>2. QED
    BY <1>1, <2>1 DEF AInv, Answers, Opened, OwnChannel
<1>7. QED
  BY <1>3, <1>4, <1>5, <1>6 DEF Answers

LEMMA SendFailsKeeps == ASSUME AInv, IInv', SendFails \/ ReceiveFails PROVE Answers'
<1>1. /\ pc # "idle" /\ UNCHANGED <<k, call, rc, sent, from, consumed, device, inbox, foreign>>
      /\ \E err : Fails(err)
  BY DEF SendFails, ReceiveFails, NotSending
<1>2. Coming' /\ Working'
  BY <1>1, ComingStays, WorkingStays DEF AInv, Answers, device
<1>3. /\ rc' \in Assembling(Channels) /\ from' \subseteq 0 .. Len(sent) /\ (\A i, j \in from' : i = j)
      /\ inbox' \in Seq(InboxReport)' /\ pending' \in Seq(InboxReport)'
      /\ consumed' \in 0 .. Len(sent) /\ consumed <= consumed'
  <2>1. TypeOK /\ OneAnswer
    BY DEF AInv, Answers
  <2>2. inbox' \in Seq(InboxReport)' /\ pending' \in Seq(InboxReport)'
    BY <1>1, <2>1, InboxStays DEF device
  <2>3. consumed' \in 0 .. Len(sent) /\ consumed <= consumed'
    BY <1>1, <2>1 DEF TypeOK
  <2>4. rc' \in Assembling(Channels) /\ from' \subseteq 0 .. Len(sent) /\ \A i, j \in from' : i = j
    BY <1>1, <2>1 DEF TypeOK, OneAnswer
  <2>5. QED
    BY <2>2, <2>3, <2>4
<1>4. QED
  BY <1>1, <1>2, <1>3, FailsWell DEF device

(* A report that no answer can contain. *)
LEMMA BadReportKeeps == ASSUME AInv, IInv', BadReport PROVE Answers'
<1>1. /\ Receive /\ pc = "recv" /\ UNCHANGED <<k, consumed, call, sent, device>>
      /\ \E err : Fails(err)
  BY DEF BadReport, Receive
<1>2. Coming' /\ Working'
  BY <1>1, ReadOn DEF AInv, Answers
<1>3. /\ rc' \in Assembling(Channels) /\ from' \subseteq 0 .. Len(sent) /\ (\A i, j \in from' : i = j)
      /\ inbox' \in Seq(InboxReport)' /\ pending' \in Seq(InboxReport)'
  BY <1>1, ReceiveTypes DEF AInv, Answers
<1>4. consumed' \in 0 .. Len(sent) /\ consumed <= consumed'
  BY <1>1 DEF AInv, Answers, TypeOK
<1>5. QED
  BY <1>1, <1>2, <1>3, <1>4, FailsWell DEF device

(* An answer that the call does not accept. *)
LEMMA ReadsInVain == ASSUME AInv, IInv', Reads, UNCHANGED k, NEW err, Fails(err) PROVE Answers'
<1>1. Receive /\ pc = "recv" /\ UNCHANGED <<call, sent, device>>
  BY DEF Reads, Receive
<1>2. Coming' /\ Working' /\ consumed' \in 0 .. Len(sent) /\ consumed <= consumed'
  BY ReadsWhole DEF AInv, Answers
<1>3. /\ rc' \in Assembling(Channels) /\ from' \subseteq 0 .. Len(sent) /\ (\A i, j \in from' : i = j)
      /\ inbox' \in Seq(InboxReport)' /\ pending' \in Seq(InboxReport)'
  BY <1>1, ReceiveTypes DEF AInv, Answers
<1>4. QED
  BY <1>1, <1>2, <1>3, FailsWell DEF device

(* A call that returns an answer. *)
LEMMA SucceedsWell ==
    ASSUME AInv, IInv', Reads, NEW data, Succeeds(data), st' # "new",
           k' \in [channel : Channels, caps : KeyCaps \cup {0}], Opened',
           call.op = "Ping" => \A i, j \in DOMAIN data : data[i] = data[j]
    PROVE  Answers'
<1> DEFINE of == Head(inbox).of
<1>1. /\ Receive /\ pc = "recv" /\ pc' = "idle" /\ UNCHANGED <<call, sent, device>>
      /\ last' = Result(call.op, "none", data, FedFrom)
  BY DEF Reads, Receive, Succeeds
<1>2. Coming' /\ Working' /\ consumed' \in 0 .. Len(sent) /\ FedFrom = {of}
  BY ReadsWhole DEF AInv, Answers
<1> HIDE DEF of
<1>3. /\ rc' \in Assembling(Channels) /\ from' \subseteq 0 .. Len(sent) /\ (\A i, j \in from' : i = j)
      /\ inbox' \in Seq(InboxReport)' /\ pending' \in Seq(InboxReport)'
  BY <1>1, ReceiveTypes DEF AInv, Answers
<1>4. closes' \in 0 .. 1 /\ st' \in {"new", "failed", "open", "closed", "panicked"}
  BY DEF IInv, Phases, Released
<1>5. TypeOK'
  BY <1>1, <1>2, <1>3, <1>4 DEF AInv, Answers, TypeOK, device
<1>6. OneAnswer'
  BY <1>1, <1>2, <1>3 DEF OneAnswer, Result
<1>7. Asked' /\ Reading' /\ Sending'
  BY <1>1 DEF AInv, Answers, Asked, Reading, Sending, device
<1>8. QED
  BY <1>2, <1>5, <1>6, <1>7 DEF Answers

LEMMA OpenReturnsKeeps == ASSUME AInv, IInv', OpenReturns PROVE Answers'
<1> DEFINE init == ParseInit(Fed.msg.data)
           r == Head(inbox)
           h == Taken(rc, r.rep)
<1>1. Reads /\ IsAnswer /\ call.op = "Open" /\ UNCHANGED <<sent, given>> /\ pc = "recv"
  BY DEF OpenReturns, Reads, Receive, device
<1>2. CASE init.err # "none"
  BY <1>1, <1>2, OpenRefuses, ReadsInVain DEF OpenReturns
<1>3. CASE init.err = "none" /\ ~OwnNonce(init)
  BY <1>1, <1>3, OpenRefuses, ReadsInVain DEF OpenReturns
<1>4. CASE init.err = "none" /\ OwnNonce(init)
  <2>1. st' = "open" /\ k' = [channel |-> init.channel, caps |-> init.caps] /\ Succeeds(<< >>)
    BY <1>1, <1>4 DEF OpenReturns
  <2>2. /\ Hears(r, h) /\ Fed.msg.cmd = h.cmd /\ Fed.msg.data \in Seq(Nat) /\ Len(Fed.msg.data) = h.want
        /\ \A p \in 1 .. h.want : Fed.msg.data[p] = h.data[p]
        /\ r.of \in 0 .. Len(sent)
        /\ r.of # 0 => consumed' = r.of
    BY <1>1, ReadsWhole DEF AInv, Answers
  <2> HIDE DEF h, r
  <2>3. h.want \in Nat /\ h.want >= InitReplyLen
    <3>1. ~(Len(Fed.msg.data) < InitReplyLen)
      BY <1>4 DEF ParseInit
    <3> HIDE DEF init
    <3>2. Len(Fed.msg.data) \in Nat
      BY <2>2
    <3>3. QED
      BY <2>2, <3>1, <3>2 DEF InitReplyLen
  <2>4. /\ init.nonce = h.data[1] /\ init.channel = h.data[2] /\ init.caps = h.data[3]
    BY <2>2, <2>3 DEF ParseInit, InitReplyLen
  <2>5. h.cmd = CmdInit
    BY <1>1, <2>2 DEF IsAnswer, AInv, Answers, Asked
  <2>6. r.of # 0
    BY <1>4, <2>2, <2>4 DEF Hears, OwnNonce, OurNonce, OtherNonce
  <2>7. given # 0 /\ init.channel = given /\ init.caps \in KeyCaps /\ given \in Channels
    BY <2>2, <2>3, <2>4, <2>5, <2>6 DEF Hears, AInv, Answers, Opened
  <2> HIDE DEF init
  <2>8. k' \in [channel : Channels, caps : KeyCaps \cup {0}]
    BY <2>1, <2>7
  <2>9. Opened'
    BY <1>1, <2>1, <2>2, <2>6, <2>7 DEF Opened, OwnChannel
  <2>10. QED
    BY <1>1, <2>1, <2>8, <2>9, SucceedsWell
<1>5. QED
  BY <1>2, <1>3, <1>4

(* A call other than Open leaves the Key as it was. *)
LEMMA OpenedStays ==
    ASSUME AInv, UNCHANGED <<st, k, given>>, consumed' \in Nat, consumed <= consumed'
    PROVE  Opened' /\ k' \in [channel : Channels, caps : KeyCaps \cup {0}]
<1>1. consumed \in Int
  BY DEF AInv, Answers, TypeOK
<1>2. QED
  BY <1>1 DEF AInv, Answers, Opened, OwnChannel, TypeOK

LEMMA PingReturnsKeeps == ASSUME AInv, IInv', PingReturns PROVE Answers'
<1> DEFINE r == Head(inbox)
           h == Taken(rc, r.rep)
           data == IF call.op = "Ping" THEN Fed.msg.data ELSE << >>
<1>1. /\ Reads /\ IsAnswer /\ call.op \in {"Ping", "Wink"} /\ Succeeds(data)
      /\ UNCHANGED <<st, k, sent, given>> /\ pc = "recv"
  BY DEF PingReturns, Reads, Receive, device
<1>2. /\ Hears(r, h) /\ Fed.msg.cmd = h.cmd /\ Fed.msg.data \in Seq(Nat) /\ Len(Fed.msg.data) = h.want
      /\ h.want <= Len(h.data)
      /\ \A p \in 1 .. h.want : Fed.msg.data[p] = h.data[p]
      /\ h \in Assembling(Channels) /\ consumed' \in 0 .. Len(sent) /\ consumed <= consumed'
  BY <1>1, ReadsWhole DEF AInv, Answers
<1> HIDE DEF h, r
<1>3. \A i, j \in DOMAIN data : data[i] = data[j]
  <2>1. CASE call.op = "Ping"
    <3>1. h.cmd = CmdPing
      BY <1>1, <1>2, <2>1 DEF IsAnswer, AInv, Answers, Asked
    <3>2. r.of # 0
      BY <1>2, <3>1 DEF Hears, CmdPing, CmdInit
    <3>3. \A p \in 1 .. Len(h.data) : p <= h.want => h.data[p] = r.of
      BY <1>2, <3>1, <3>2 DEF Hears, Counted
    <3>4. h.want \in Nat /\ Len(h.data) \in Nat /\ DOMAIN Fed.msg.data = 1 .. h.want
      BY <1>2, SizesNat DEF Assembling
    <3>5. \A p \in 1 .. h.want : Fed.msg.data[p] = r.of
      BY <1>2, <3>3, <3>4
    <3>6. QED
      BY <2>1, <3>4, <3>5
  <2>2. CASE call.op # "Ping"
    BY <2>2
  <2>3. QED
    BY <2>1, <2>2
<1>4. st' # "new"
  BY <1>1 DEF AInv, IInv, Phases
<1>5. Opened' /\ k' \in [channel : Channels, caps : KeyCaps \cup {0}]
  <2>1. consumed' \in Nat
    BY <1>2
  <2>2. QED
    BY <1>1, <1>2, <2>1, OpenedStays
<1> HIDE DEF data
<1>6. QED
  BY <1>1, <1>3, <1>4, <1>5, SucceedsWell

LEMMA CBORReturnsKeeps == ASSUME AInv, IInv', CBORReturns PROVE Answers'
<1>1. Reads /\ IsAnswer /\ call.op = "GetInfo" /\ UNCHANGED <<k, sent, given>> /\ pc = "recv"
  BY DEF CBORReturns, Reads, Receive, device
<1>2. CASE \E err : Fails(err)
  BY <1>1, <1>2, ReadsInVain
<1>3. CASE UNCHANGED st /\ \E data : Succeeds(data)
  <2>1. consumed' \in Nat /\ consumed <= consumed'
    <3>1. consumed' \in 0 .. Len(sent) /\ consumed <= consumed'
      BY <1>1, ReadsWhole DEF AInv, Answers
    <3>2. QED
      BY <3>1
  <2>2. Opened' /\ k' \in [channel : Channels, caps : KeyCaps \cup {0}]
    BY <1>1, <1>3, <2>1, OpenedStays
  <2>3. st' # "new"
    BY <1>1, <1>3 DEF AInv, IInv, Phases
  <2>4. QED
    BY <1>1, <1>3, <2>2, <2>3, SucceedsWell
<1>4. QED
  BY <1>2, <1>3 DEF CBORReturns

LEMMA ReceivesWell == ASSUME AInv, IInv', ReceiveStep PROVE Answers'
<1>1. CASE Refused \/ OtherCommand
  BY <1>1, ReadsInVain DEF Refused, OtherCommand
<1>2. QED
  BY <1>1, KeepsWaitingKeeps, BadReportKeeps, OpenReturnsKeeps, PingReturnsKeeps, CBORReturnsKeeps
     DEF ReceiveStep

(* A call that sends nothing. *)
LEMMA StaysIdle ==
    ASSUME AInv, IInv', pc = "idle",
           UNCHANGED <<k, pc, call, packets, rc, sent, from, consumed, device, inbox>>,
           st' \in {st, "failed", "panicked"} \/ (st \in {"open", "closed"} /\ st' = "closed"),
           last' = last \/ (last'.of = {} /\ last'.data = << >>)
    PROVE  Answers'
<1>1. closes' \in 0 .. 1 /\ st' \in {"new", "failed", "open", "closed", "panicked"}
  BY DEF IInv, Phases, Released
<1>2. TypeOK /\ OneAnswer
  BY DEF AInv, Answers
<1>3. inbox' \in Seq(InboxReport)' /\ pending' \in Seq(InboxReport)'
  BY <1>2, InboxStays DEF device
<1>4. TypeOK'
  BY <1>1, <1>2, <1>3 DEF TypeOK, device
<1>5. OneAnswer'
  BY <1>2 DEF OneAnswer
<1>6. Coming' /\ Working'
  BY ComingStays, WorkingStays DEF AInv, Answers, device
<1>7. Asked' /\ Reading' /\ Sending' /\ Opened'
  BY DEF AInv, Answers, Asked, Reading, Sending, Opened, OwnChannel, device
<1>8. QED
  BY <1>4, <1>5, <1>6, <1>7 DEF Answers

(* What is on its way when another request is made. *)
LEMMA AsksMore ==
    ASSUME AInv, NEW cmd \in Commands, sent' = Append(sent, cmd),
           UNCHANGED <<inbox, pending, given, work, consumed>>
    PROVE  /\ Coming' /\ Working' /\ Unheard(Stream, work, consumed, Len(sent) + 1)
           /\ inbox' \in Seq(InboxReport)' /\ pending' \in Seq(InboxReport)'
<1>1. /\ sent \in Seq(Commands) /\ Len(sent) \in Nat /\ Len(sent') = Len(sent) + 1
      /\ TypeOK /\ Coming /\ Working
  BY DEF AInv, Answers, Asked
<1>2. Stream' = Stream
  BY DEF Stream
<1>3. /\ Len(inbox) + Len(pending) \in Nat /\ DOMAIN Stream = 1 .. Len(inbox) + Len(pending)
      /\ \A n \in DOMAIN Stream : Stream[n].rep \in Report /\ Stream[n].of \in 0 .. Len(sent)
  BY <1>1, StreamGhosts
<1>4. Coming'
  <2>1. \A n \in DOMAIN Stream : Sound(Stream[n], sent', given)
    BY <1>1, <1>3, SoundGrows DEF Coming
  <2>2. QED
    BY <1>1, <1>2, <2>1 DEF Coming
<1>5. Working'
  <2>1. \A i \in DOMAIN work : work[i] \in Request /\ Job(work[i], sent, consumed)
    BY <1>1 DEF Working
  <2>2. \A i \in DOMAIN work : Job(work[i], sent', consumed)
    BY <1>1, <2>1, JobGrows
  <2>3. QED
    BY <1>1, <1>2, <2>2 DEF Working
<1>6. Unheard(Stream, work, consumed, Len(sent) + 1)
  <2>1. consumed \in 0 .. Len(sent)
    BY <1>1 DEF TypeOK
  <2>2. \A i \in DOMAIN work : work[i].id \in Nat /\ work[i].id <= Len(sent)
    <3> SUFFICES ASSUME NEW i \in DOMAIN work PROVE work[i].id \in Nat /\ work[i].id <= Len(sent)
      OBVIOUS
    <3>1. work[i] \in Request /\ Job(work[i], sent, consumed)
      BY <1>1 DEF Working
    <3>2. QED
      BY <3>1 DEF Job, Request
  <2>3. QED
    BY <1>1, <1>3, <2>1, <2>2 DEF Unheard
<1>7. inbox' \in Seq(InboxReport)' /\ pending' \in Seq(InboxReport)'
  <2>1. \A r \in InboxReport : r \in InboxReport'
    BY <1>1 DEF InboxReport
  <2>2. inbox \in Seq(InboxReport) /\ pending \in Seq(InboxReport)
    BY <1>1 DEF TypeOK
  <2>3. QED
    BY <2>1, <2>2
<1>8. QED
  BY <1>4, <1>5, <1>6, <1>7

LEMMA RoundTripWell ==
    ASSUME AInv, IInv', pc = "idle",
           NEW op \in {"Open", "Ping", "Wink", "GetInfo"}, NEW cmd \in Commands, NEW data \in Seq(Nat),
           op = "Open" <=> cmd = CmdInit, op = "Ping" <=> cmd = CmdPing, op = "Wink" <=> cmd = CmdWink,
           cmd = CmdInit => Len(data) = 1 /\ st = "new",
           cmd # CmdInit => st \in {"open", "closed"},
           cmd = CmdPing => \A p \in DOMAIN data : data[p] = Len(sent) + 1,
           RoundTrip(op, cmd, data)
    PROVE  Answers'
<1>1. CASE Rejected(op, "ErrTooLong")
  <2>1. /\ UNCHANGED <<st, k, pc, call, packets, rc, sent, from, consumed, device, inbox>>
        /\ last' = Result(op, "ErrTooLong", << >>, {})
    BY <1>1 DEF Rejected, NotSending
  <2>2. last'.of = {} /\ last'.data = << >>
    BY <2>1 DEF Result
  <2>3. QED
    BY <2>1, <2>2, StaysIdle
<1>2. CASE Gone /\ Panics
  <2>1. /\ UNCHANGED <<k, pc, call, packets, rc, sent, from, consumed, device, inbox>>
        /\ st' = "panicked" /\ last' = last
    BY <1>2 DEF Panics, NotSending
  <2>2. /\ st' \in {st, "failed", "panicked"} \/ (st \in {"open", "closed"} /\ st' = "closed")
        /\ last' = last \/ (last'.of = {} /\ last'.data = << >>)
    BY <2>1
  <2>3. UNCHANGED <<k, pc, call, packets, rc, sent, from, consumed, device, inbox>>
    BY <2>1
  <2>4. QED
    BY <2>2, <2>3, StaysIdle
<1>3. CASE ~TooLong(data) /\ ~Gone
  <2>1. /\ pc' = "send" /\ call' = [op |-> op, cmd |-> cmd, data |-> data]
        /\ packets' = Split(k.channel, cmd, data).packets
        /\ sent' = Append(sent, cmd)
        /\ UNCHANGED <<st, k, rc, last, closes, from, consumed, device, inbox>>
    BY <1>3 DEF RoundTrip, NotSending
  <2>2. TypeOK /\ OneAnswer /\ Asked /\ Sending /\ Opened
    BY DEF AInv, Answers
  <2>3. sent \in Seq(Commands) /\ Len(sent) \in Nat /\ Len(sent') = Len(sent) + 1
    BY <2>1, <2>2 DEF Asked
  <2>4. Packets(Len(data)) \in Nat \ {0} /\ Len(data) \in Nat /\ Len(data) <= MaxMessage
    BY <1>3, PacketCount, SizesNat DEF TooLong
  <2>5. packets' = [i \in 1 .. Packets(Len(data)) |-> Packet(k.channel, cmd, data, i)]
    BY <1>3, <2>1 DEF Split
  <2>6. /\ Coming' /\ Working' /\ Unheard(Stream, work, consumed, Len(sent) + 1)
        /\ inbox' \in Seq(InboxReport)' /\ pending' \in Seq(InboxReport)'
    BY <2>1, AsksMore DEF device
  <2>7. TypeOK'
    <3>1. packets' # << >>
      <4>1. DOMAIN packets' # {}
        BY <2>4, <2>5
      <4>2. QED
        BY <4>1
    <3>2. call' \in [op : {"none", "Open", "Ping", "Wink", "GetInfo"}, cmd : 0 .. HighBit - 1, data : Seq(Nat)]
      BY <2>1, CommandNumbers DEF Numbers
    <3>3. consumed' \in 0 .. Len(sent') /\ from' \subseteq 0 .. Len(sent')
      BY <2>1, <2>2, <2>3 DEF TypeOK
    <3>4. QED
      BY <2>1, <2>2, <2>6, <3>1, <3>2, <3>3 DEF TypeOK, device
  <2>8. OneAnswer'
    BY <2>1, <2>2 DEF OneAnswer
  <2>9. Asked'
    <3>1. sent' \in Seq(Commands) /\ sent'[Len(sent')] = cmd /\ sent' # << >>
      BY <2>1, <2>3
    <3>2. ASSUME NEW j \in DOMAIN sent', sent'[j] = CmdInit PROVE j = 1
      <4>1. j \in 1 .. Len(sent) + 1
        BY <2>3, <3>1, <3>2
      <4>2. CASE j \in 1 .. Len(sent)
        <5>1. sent'[j] = sent[j]
          BY <2>1, <2>3, <4>2
        <5>2. QED
          BY <2>2, <3>2, <4>2, <5>1 DEF Asked
      <4>3. CASE j = Len(sent) + 1
        <5>1. cmd = CmdInit
          BY <2>3, <3>1, <3>2, <4>3
        <5>2. sent = << >>
          BY <2>2, <5>1 DEF Asked
        <5>3. QED
          BY <4>3, <5>2
      <4>4. QED
        BY <4>1, <4>2, <4>3
    <3>3. QED
      BY <2>1, <2>3, <2>4, <3>1, <3>2 DEF Asked
  <2>10. Sending'
    <3>1. packets' = Left(1)'
      <4>1. Left(1)' = [i \in 1 .. Packets(Len(data)) - 1 + 1 |-> Packet(k.channel, cmd, data, 1 + i - 1)]
        BY <2>1 DEF Left
      <4>2. 1 .. Packets(Len(data)) - 1 + 1 = 1 .. Packets(Len(data))
        BY <2>4
      <4>3. \A i \in 1 .. Packets(Len(data)) : 1 + i - 1 = i
        BY <2>4
      <4>4. QED
        BY <2>5, <4>1, <4>2, <4>3
    <3>2. Stream' = Stream
      BY <2>1 DEF Stream, device
    <3>3. 1 \in 1 .. Packets(Len(data))
      BY <2>4
    <3>4. QED
      BY <2>1, <2>2, <2>3, <2>6, <3>1, <3>2, <3>3 DEF Sending, device
  <2>11. Reading' /\ Opened'
    BY <2>1, <2>2 DEF Reading, Opened, OwnChannel, device
  <2>12. QED
    BY <2>6, <2>7, <2>8, <2>9, <2>10, <2>11 DEF Answers
<1>4. QED
  BY <1>1, <1>2, <1>3 DEF RoundTrip

LEMMA CommandsDiffer ==
    /\ {CmdInit, CmdPing, CmdWink, CmdCBOR} \subseteq Commands
    /\ CmdPing # CmdInit /\ CmdWink # CmdInit /\ CmdCBOR # CmdInit
    /\ CmdWink # CmdPing /\ CmdCBOR # CmdPing /\ CmdCBOR # CmdWink
BY DEF Commands, CmdInit, CmdPing, CmdWink, CmdCBOR

LEMMA IncapableWell == ASSUME AInv, IInv', HasKey, NEW op, Incapable(op) PROVE Answers'
<1>1. CASE Panics
  <2>1. /\ UNCHANGED <<k, pc, call, packets, rc, sent, from, consumed, device, inbox>>
        /\ st' \in {st, "failed", "panicked"} /\ last' = last /\ pc = "idle"
    BY <1>1 DEF Panics, NotSending, HasKey
  <2>2. QED
    BY <2>1, StaysIdle
<1>2. CASE Rejected(op, "incapable")
  <2>1. /\ UNCHANGED <<k, pc, call, packets, rc, sent, from, consumed, device, inbox>>
        /\ st' \in {st, "failed", "panicked"} /\ pc = "idle"
        /\ last'.of = {} /\ last'.data = << >>
    BY <1>2 DEF Rejected, NotSending, HasKey, Result
  <2>2. QED
    BY <2>1, StaysIdle
<1>3. QED
  BY <1>1, <1>2 DEF Incapable

LEMMA CallsWell == ASSUME AInv, IInv', Open \/ Ping \/ Wink \/ GetInfo \/ Close PROVE Answers'
<1>1. CASE Open
  <2>1. pc = "idle" /\ st = "new"
    BY <1>1 DEF Open
  <2>2. CASE RoundTrip("Open", CmdInit, <<OurNonce>>)
    <3>1. <<OurNonce>> \in Seq(Nat) /\ Len(<<OurNonce>>) = 1
      BY DEF OurNonce
    <3>2. QED
      BY <2>1, <2>2, <3>1, CommandsDiffer, RoundTripWell
  <2>3. CASE ~RoundTrip("Open", CmdInit, <<OurNonce>>)
    <3>1. /\ st' = "failed" /\ last' = Result("Open", "nonce", << >>, {})
          /\ UNCHANGED <<k, pc, call, packets, rc, sent, from, consumed, device, inbox>>
      BY <1>1, <2>3 DEF Open, GivesBack, NotSending
    <3>2. last'.of = {} /\ last'.data = << >> /\ st' \in {st, "failed", "panicked"}
      BY <3>1 DEF Result
    <3>3. QED
      BY <2>1, <3>1, <3>2, StaysIdle
  <2>4. QED
    BY <2>2, <2>3
<1>2. CASE Ping
  <2>1. pc = "idle" /\ st \in {"open", "closed"}
    BY <1>2 DEF Ping, HasKey
  <2>2. PICK n \in PingLens : RoundTrip("Ping", CmdPing, [j \in 1 .. n |-> Len(sent) + 1])
    BY <1>2 DEF Ping
  <2> DEFINE data == [j \in 1 .. n |-> Len(sent) + 1]
  <2>3. n \in Nat /\ Len(sent) \in Nat
    BY SessionAssumption DEF AInv, Answers, Asked
  <2>4. data \in Seq(Nat) /\ \A p \in DOMAIN data : data[p] = Len(sent) + 1
    <3>1. data \in [1 .. n -> Nat]
      BY <2>3
    <3>2. QED
      BY <2>3, <3>1
  <2> HIDE DEF data
  <2>5. RoundTrip("Ping", CmdPing, data)
    BY <2>2 DEF data
  <2>6. QED
    BY <2>1, <2>4, <2>5, CommandsDiffer, RoundTripWell
<1>3. CASE Wink
  <2>1. pc = "idle" /\ st \in {"open", "closed"} /\ HasKey
    BY <1>3 DEF Wink, HasKey
  <2>2. CASE RoundTrip("Wink", CmdWink, << >>)
    <3>1. << >> \in Seq(Nat)
      OBVIOUS
    <3>2. QED
      BY <2>1, <2>2, <3>1, CommandsDiffer, RoundTripWell
  <2>3. QED
    BY <1>3, <2>1, <2>2, IncapableWell DEF Wink
<1>4. CASE GetInfo
  <2>1. pc = "idle" /\ st \in {"open", "closed"} /\ HasKey
    BY <1>4 DEF GetInfo, HasKey
  <2>2. CASE RoundTrip("GetInfo", CmdCBOR, <<CmdGetInfo>>)
    <3>1. <<CmdGetInfo>> \in Seq(Nat)
      BY DEF CmdGetInfo
    <3>2. QED
      BY <2>1, <2>2, <3>1, CommandsDiffer, RoundTripWell
  <2>3. QED
    BY <1>4, <2>1, <2>2, IncapableWell DEF GetInfo
<1>5. CASE Close
  <2>1. /\ pc = "idle" /\ st \in {"open", "closed"} /\ st' = "closed"
        /\ last'.of = {} /\ last'.data = << >>
        /\ UNCHANGED <<k, pc, call, packets, rc, sent, from, consumed, device, inbox>>
    BY <1>5 DEF Close, HasKey, NotSending, Result
  <2>2. QED
    BY <2>1, StaysIdle
<1>6. QED
  BY <1>1, <1>2, <1>3, <1>4, <1>5

LEMMA HeadTail ==
    ASSUME NEW m \in Nat \ {0}, NEW S, NEW f \in [1 .. m -> S]
    PROVE  /\ f # << >> /\ Len(f) = m /\ Head(f) = f[1]
           /\ Tail(f) = [i \in 1 .. m - 1 |-> f[i + 1]] /\ Len(Tail(f)) = m - 1
<1>1. f \in Seq(S) /\ Len(f) = m
  OBVIOUS
<1>2. f # << >>
  BY <1>1
<1>3. Head(f) = f[1]
  BY <1>1, <1>2, HeadTailProperties
<1>4. Tail(f) \in Seq(S) /\ Len(Tail(f)) = m - 1 /\ \A i \in 1 .. m - 1 : Tail(f)[i] = f[i + 1]
  BY <1>1, <1>2, HeadTailProperties
<1>5. Tail(f) = [i \in 1 .. m - 1 |-> f[i + 1]]
  <2> DEFINE g == [i \in 1 .. m - 1 |-> f[i + 1]]
  <2>1. g \in [1 .. m - 1 -> S] /\ m - 1 \in Nat
    <3>1. \A i \in 1 .. m - 1 : i + 1 \in 1 .. m
      OBVIOUS
    <3>2. QED
      BY <3>1
  <2>2. g \in Seq(S) /\ Len(g) = m - 1
    BY <2>1
  <2>3. \A i \in 1 .. m - 1 : g[i] = f[i + 1]
    OBVIOUS
  <2> HIDE DEF g
  <2>4. Tail(f) = g
    BY <1>4, <2>2, <2>3, SeqEqual
  <2>5. QED
    BY <2>4 DEF g
<1>6. QED
  BY <1>1, <1>2, <1>3, <1>4, <1>5

(* The packets that are left, and the first of them. *)
LEMMA LeftShape ==
    ASSUME TypeOK, Asked, pc = "send", NEW t \in 1 .. Packets(Len(call.data)), packets = Left(t)
    PROVE  LET n == Packets(Len(call.data)) IN
           /\ n \in Nat \ {0}
           /\ Head(packets) = Packet(k.channel, call.cmd, call.data, t)
           /\ t = n => Tail(packets) = << >>
           /\ t # n => Tail(packets) = Left(t + 1) /\ Tail(packets) # << >> /\ t + 1 \in 1 .. n
<1> DEFINE n == Packets(Len(call.data))
           P(i) == Packet(k.channel, call.cmd, call.data, i)
<1>1. n \in Nat \ {0} /\ t \in 1 .. n
  BY PacketCount DEF TypeOK
<1>2. packets = [i \in 1 .. n - t + 1 |-> P(t + i - 1)]
  BY DEF Left
<1> HIDE DEF n, P
<1> DEFINE m == n - t + 1
<1>3. m \in Nat \ {0} /\ packets \in [1 .. m -> {P(t + i - 1) : i \in 1 .. m}]
  <2>1. m \in Nat \ {0}
    BY <1>1
  <2> HIDE DEF m
  <2>2. packets = [i \in 1 .. m |-> P(t + i - 1)]
    BY <1>2 DEF m
  <2>3. QED
    BY <2>1, <2>2
<1>4. /\ packets # << >> /\ Len(packets) = m /\ Head(packets) = packets[1]
      /\ Tail(packets) = [i \in 1 .. m - 1 |-> packets[i + 1]]
      /\ Len(Tail(packets)) = m - 1
  <2> HIDE DEF m
  <2>1. QED
    BY <1>3, HeadTail
<1>5. Head(packets) = P(t)
  <2>1. 1 \in 1 .. n - t + 1 /\ t + 1 - 1 = t
    BY <1>1
  <2>2. QED
    BY <1>2, <1>4, <2>1
<1>6. m - 1 = n - t
  BY <1>1
<1>7. t = n => Tail(packets) = << >>
  <2>1. t = n => m - 1 = 0
    BY <1>1
  <2> HIDE DEF m
  <2>2. [i \in 1 .. 0 |-> packets[i + 1]] = << >>
    OBVIOUS
  <2>3. QED
    BY <1>4, <2>1, <2>2
<1>8. ASSUME t # n PROVE Tail(packets) = Left(t + 1) /\ Tail(packets) # << >> /\ t + 1 \in 1 .. n
  <2>1. \A i \in 1 .. n - t : packets[i + 1] = P((t + 1) + i - 1)
    <3> SUFFICES ASSUME NEW i \in 1 .. n - t PROVE packets[i + 1] = P((t + 1) + i - 1)
      OBVIOUS
    <3>1. i + 1 \in 1 .. n - t + 1 /\ t + (i + 1) - 1 = (t + 1) + i - 1
      BY <1>1
    <3>2. QED
      BY <1>2, <3>1
  <2>2. Left(t + 1) = [i \in 1 .. n - (t + 1) + 1 |-> P((t + 1) + i - 1)]
    BY DEF Left, n, P
  <2>3. n - (t + 1) + 1 = n - t /\ n - t \in Nat \ {0} /\ t + 1 \in 1 .. n
    BY <1>1, <1>8
  <2>4. Tail(packets) = Left(t + 1)
    BY <1>4, <1>6, <2>1, <2>2, <2>3
  <2>5. Len(Tail(packets)) # 0
    BY <1>4, <1>6, <2>3
  <2>6. QED
    BY <2>3, <2>4, <2>5
<1>9. QED
  BY <1>1, <1>5, <1>7, <1>8 DEF n, P

(* What the device makes of a packet of request j. *)
LEMMA KeyTakes ==
    ASSUME NEW a \in Assembling(Channels), NEW cmd \in Commands, NEW data \in Seq(Nat),
           Len(data) <= MaxMessage, NEW j \in Nat,
           cmd = CmdInit => Len(data) = 1,
           cmd = CmdPing => \A p \in DOMAIN data : data[p] = j,
           NEW t \in 1 .. Packets(Len(data)),
           t > 1 /\ a.started => a.cmd = cmd /\ a.want = Len(data) /\ Half(a, j),
           Takes(a, Packet(a.channel, cmd, data, t))
    PROVE  LET h == Taken(a, Packet(a.channel, cmd, data, t)) IN
           /\ t = 1 \/ a.started
           /\ h \in Assembling(Channels) /\ h.started /\ h.channel = a.channel
           /\ h.cmd = cmd /\ h.want = Len(data) /\ Counted(h, j)
<1> DEFINE p == Packet(a.channel, cmd, data, t)
           h == Taken(a, p)
<1>1. /\ cmd \in Numbers /\ a.channel \in Channels \cup {OtherChannel}
      /\ Len(data) \in Nat /\ Packets(Len(data)) \in Nat
  BY CommandNumbers, PacketCount DEF Assembling
<1>2. /\ p \in Report /\ p.ch = a.channel
      /\ t = 1 => p = InitPacket(a.channel, cmd, data) /\ p.init
      /\ t # 1 => p = ContPacket(a.channel, data, t - 2) /\ ~p.init /\ t - 2 \in Numbers
  BY <1>1, PacketShape
<1> HIDE DEF p
<1>3. h \in Assembling(Channels) /\ h.started /\ h.channel = a.channel
  BY <1>2, TakenType DEF p
<1>4. CASE t = 1
  <2>1. p = InitPacket(a.channel, cmd, data) /\ p.init
    BY <1>2, <1>4
  <2>2. p.val = cmd /\ p.len = Len(data) /\ Len(p.body) = initPayload
    BY <2>1, InitPacketFields
  <2>3. \A q \in 1 .. initPayload : p.body[q] = PadByte(data, q)
    BY <2>1, InitPacketBody
  <2>4. cmd = CmdPing => \A q \in 1 .. initPayload : q <= p.len => p.body[q] = j
    <3>1. DOMAIN data = 1 .. Len(data) /\ initPayload \in Nat
      BY SizesNat
    <3>2. QED
      BY <1>1, <2>2, <2>3, <3>1 DEF PadByte
  <2>5. Counted(h, j)
    BY <1>2, <2>1, <2>2, <2>4, CountedTaken DEF p
  <2>6. h = Fields(a.channel, p.val, p.body, p.len, 0, TRUE)
    BY <2>1 DEF Taken
  <2> HIDE DEF h
  <2>7. QED
    BY <1>3, <1>4, <2>2, <2>5, <2>6 DEF Fields, h, p
<1>5. CASE t # 1
  <2>1. p = ContPacket(a.channel, data, t - 2) /\ ~p.init /\ t - 2 \in Numbers /\ t > 1
    BY <1>1, <1>2, <1>5
  <2>2. p.val = t - 2 /\ Len(p.body) = contPayload
        /\ \A q \in 1 .. contPayload : p.body[q] = PadByte(data, Offset(t - 2) + q)
    BY <2>1, ContPacketFields
  <2>3. a.started /\ a.cmd = cmd /\ a.want = Len(data) /\ Half(a, j)
    BY <2>1 DEF Takes, p
  <2>4. cmd = CmdPing => Echoes(p, j, Len(data))
    <3> SUFFICES ASSUME cmd = CmdPing, NEW q \in 1 .. contPayload, Offset(p.val) + q <= Len(data)
                 PROVE  p.body[q] = j
      BY DEF Echoes
    <3>1. DOMAIN data = 1 .. Len(data) /\ contPayload \in Nat /\ Offset(t - 2) \in Nat
      BY <2>1, OffsetStep, SizesNat DEF Numbers
    <3>2. Offset(t - 2) + q \in 1 .. Len(data)
      <4>1. Offset(t - 2) + q <= Len(data) /\ Len(data) \in Nat
        BY <1>1, <2>2
      <4> DEFINE o == Offset(t - 2)
      <4>2. o \in Nat /\ o + q <= Len(data)
        BY <3>1, <4>1
      <4> HIDE DEF o
      <4>3. o + q \in 1 .. Len(data)
        BY <3>1, <4>1, <4>2
      <4>4. QED
        BY <4>3 DEF o
    <3>3. QED
      BY <2>2, <3>1, <3>2 DEF PadByte
  <2>5. Counted(h, j)
    BY <1>2, <2>1, <2>2, <2>3, <2>4, CountedTaken DEF p, Half
  <2>6. h = Fields(a.channel, a.cmd, a.data \o p.body, a.want, a.seq + 1, TRUE)
    BY <2>1 DEF Taken
  <2> HIDE DEF h
  <2>7. QED
    BY <1>3, <2>3, <2>5, <2>6 DEF Fields, h, p
<1>6. QED
  BY <1>4, <1>5

(* A request that is whole joins the others behind them. *)
LEMMA JoinsWork ==
    ASSUME NEW w \in Request, Working, Job(w, sent, consumed), Before(Stream, w.id),
           \A i \in DOMAIN work : work[i].id < w.id,
           work' = Append(work, w), UNCHANGED <<inbox, pending, sent, consumed>>
    PROVE  Working'
<1>1. Stream' = Stream
  BY DEF Stream
<1>2. /\ work \in Seq(Request) /\ work' \in Seq(Request) /\ Len(work') = Len(work) + 1
      /\ Len(work) \in Nat /\ DOMAIN work = 1 .. Len(work) /\ DOMAIN work' = 1 .. Len(work) + 1
      /\ \A i \in 1 .. Len(work) : work'[i] = work[i]
      /\ work'[Len(work) + 1] = w
  BY DEF Working
<1>3. \A i \in DOMAIN work' : work'[i] = w \/ (i \in DOMAIN work /\ work'[i] = work[i])
  BY <1>2
<1>4. \A i \in DOMAIN work' : Job(work'[i], sent, consumed) /\ Before(Stream, work'[i].id)
  BY <1>3 DEF Working
<1>5. \A i, j \in DOMAIN work' : i < j => work'[i].id < work'[j].id
  <2> SUFFICES ASSUME NEW i \in DOMAIN work', NEW j \in DOMAIN work', i < j
               PROVE  work'[i].id < work'[j].id
    OBVIOUS
  <2>1. i \in DOMAIN work /\ work'[i] = work[i]
    BY <1>2
  <2>2. CASE j \in DOMAIN work
    BY <1>2, <2>1, <2>2 DEF Working
  <2>3. CASE j = Len(work) + 1
    BY <1>2, <2>1, <2>3
  <2>4. QED
    BY <1>2, <2>2, <2>3
<1>6. QED
  BY <1>1, <1>2, <1>4, <1>5 DEF Working

(* One packet: the device holds it, or has the whole request. *)
LEMMA SendsOne ==
    ASSUME AInv, Send, NEW t \in 1 .. Packets(Len(call.data)), packets = Left(t),
           t = 1 \/ kasm[k.channel].started => Unheard(Stream, work, consumed, Len(sent)),
           t > 1 /\ kasm[k.channel].started =>
                 /\ kasm[k.channel].cmd = call.cmd /\ kasm[k.channel].want = Len(call.data)
                 /\ Half(kasm[k.channel], Len(sent))
    PROVE  /\ Working'
           /\ kasm' \in [Channels -> Assembling(Channels)] /\ \A c \in Channels : kasm'[c].channel = c
           /\ kasm'[k.channel].started =>
                \/ t = Packets(Len(call.data))
                \/ /\ Unheard(Stream, work', consumed, Len(sent))
                   /\ kasm'[k.channel].cmd = call.cmd /\ kasm'[k.channel].want = Len(call.data)
                   /\ Half(kasm'[k.channel], Len(sent))
<1> DEFINE n == Packets(Len(call.data))
           j == Len(sent)
           a == kasm[k.channel]
           p == Head(packets)
           f == Feed(a, p)
           h == Taken(a, p)
           w == [id |-> j, ch |-> p.ch, cmd |-> f.msg.cmd, data |-> f.msg.data]
<1>1. /\ pc = "send" /\ TypeOK /\ Asked /\ Working /\ Coming /\ Sending
      /\ UNCHANGED <<k, call, sent, consumed, inbox, pending>>
      /\ kasm' = [kasm EXCEPT ![p.ch] = Feed(kasm[p.ch], p).rc]
      /\ work' = IF Feed(kasm[p.ch], p).done
                 THEN Append(work, [id |-> j, ch |-> p.ch, cmd |-> Feed(kasm[p.ch], p).msg.cmd,
                                    data |-> Feed(kasm[p.ch], p).msg.data])
                 ELSE work
  BY DEF Send, KeyReceives, AInv, Answers
<1>2. /\ k.channel \in Channels /\ call.data \in Seq(Nat) /\ Len(call.data) <= MaxMessage
      /\ a \in Assembling(Channels) /\ a.channel = k.channel
      /\ call.cmd \in Commands /\ j \in Nat \ {0} /\ call.cmd = sent[j]
      /\ call.cmd = CmdInit => Len(call.data) = 1
      /\ call.cmd = CmdPing => \A q \in DOMAIN call.data : call.data[q] = j
  <2>1. k.channel \in Channels /\ call.data \in Seq(Nat) /\ a \in Assembling(Channels) /\ a.channel = k.channel
    BY <1>1 DEF TypeOK, Sending
  <2>2. /\ sent \in Seq(Commands) /\ sent # << >> /\ call.cmd = sent[Len(sent)]
        /\ Len(call.data) <= MaxMessage
        /\ call.cmd = CmdInit => Len(call.data) = 1
        /\ call.cmd = CmdPing => \A q \in DOMAIN call.data : call.data[q] = Len(sent)
    BY <1>1 DEF Asked
  <2>3. Len(sent) \in Nat \ {0} /\ sent[Len(sent)] \in Commands
    BY <2>2
  <2>4. QED
    BY <2>1, <2>2, <2>3
<1>3. p = Packet(k.channel, call.cmd, call.data, t) /\ n \in Nat \ {0}
  BY <1>1, LeftShape
<1>4. p \in Report /\ p.ch = k.channel
  BY <1>2, <1>3, PacketShape, CommandNumbers
<1>5. /\ kasm' = [kasm EXCEPT ![k.channel] = f.rc]
      /\ work' = IF f.done THEN Append(work, w) ELSE work
  BY <1>1, <1>4
<1>6. ASSUME f.rc \in Assembling(Channels), f.rc.channel = k.channel
      PROVE  /\ kasm' \in [Channels -> Assembling(Channels)] /\ \A c \in Channels : kasm'[c].channel = c
             /\ kasm'[k.channel] = f.rc
  <2> HIDE DEF f
  <2>1. kasm \in [Channels -> Assembling(Channels)] /\ \A c \in Channels : kasm[c].channel = c
    BY <1>1 DEF TypeOK, Sending
  <2>2. QED
    BY <1>2, <1>5, <1>6, <2>1
<1>7. CASE ~Takes(a, p)
  <2>1. f.rc = a /\ f.done = FALSE
    BY <1>4, <1>7, FeedRefuses
  <2> HIDE DEF a, f, w
  <2>2. work' = work
    BY <1>5, <2>1
  <2>3. Working'
    BY <1>1, <2>2, WorkingStays
  <2>4. t = 1 => ~a.started \/ Unheard(Stream, work, consumed, Len(sent))
    BY DEF a
  <2>5. kasm'[k.channel] = a
    BY <1>2, <1>6, <2>1
  <2>6. t # 1
    <3>1. SUFFICES ASSUME t = 1 PROVE Takes(a, p)
      BY <1>7, <3>1
    <3>2. p.init /\ p.size = ReportSize
      BY <1>2, <1>3, <3>1, PacketShape, CommandNumbers
    <3>3. ReportSize >= initHeader
      BY FramingAssumption DEF initHeader
    <3>4. QED
      BY <1>2, <1>4, <3>2, <3>3 DEF Takes
  <2>7. QED
    BY <1>2, <1>6, <2>1, <2>2, <2>3, <2>5, <2>6 DEF a
<1>8. CASE Takes(a, p)
  <2>1. /\ t = 1 \/ a.started
        /\ h \in Assembling(Channels) /\ h.started /\ h.channel = k.channel
        /\ h.cmd = call.cmd /\ h.want = Len(call.data) /\ Counted(h, j)
    BY <1>2, <1>3, <1>8, KeyTakes
  <2>2. f = Finish(h)
    BY <1>4, <1>8, FeedTakes
  <2>3. Unheard(Stream, work, consumed, j)
    BY <2>1
  <2> HIDE DEF a, f, h, p
  <2>4. /\ f.rc \in Assembling(Channels) /\ f.rc.channel = k.channel
        /\ Short(h) => ~f.done /\ f.rc = h
        /\ ~Short(h) =>
             /\ f.done /\ ~f.rc.started /\ f.msg.cmd = h.cmd
             /\ f.msg.data \in Seq(Nat) /\ Len(f.msg.data) = h.want /\ h.want <= Len(h.data)
             /\ \A q \in 1 .. h.want : f.msg.data[q] = h.data[q]
    BY <2>1, <2>2, FinishType
  <2>5. CASE Short(h)
    <3>1. work' = work
      BY <1>5, <2>4, <2>5
    <3>2. Working'
      BY <1>1, <3>1, WorkingStays
    <3>3. kasm'[k.channel] = h
      BY <1>6, <2>4, <2>5
    <3>4. call.cmd # CmdInit
      <4>1. call.cmd = CmdInit => h.want = 1 /\ t = 1
        <5>1. call.cmd = CmdInit => Packets(Len(call.data)) = 1
          <6>1. 1 <= initPayload
            BY SizesNat DEF InitReplyLen
          <6>2. QED
            BY <1>2, <6>1, PacketCount
        <5>2. QED
          BY <1>2, <2>1, <5>1
      <4>2. t = 1 => Len(h.data) = initPayload
        <5>1. t = 1 => p.init /\ p = InitPacket(k.channel, call.cmd, call.data)
          BY <1>2, <1>3, PacketShape, CommandNumbers
        <5>2. t = 1 => Len(p.body) = initPayload
          BY <1>2, <5>1, InitPacketFields
        <5>3. t = 1 => h.data = p.body
          BY <5>1 DEF h, Taken, Fields
        <5>4. QED
          BY <5>2, <5>3
      <4>3. QED
        BY <2>5, <4>1, <4>2, SizesNat DEF Short, InitReplyLen
    <3>5. Half(h, j)
      BY <2>1, <3>4 DEF Half
    <3>6. QED
      BY <1>6, <2>1, <2>3, <2>4, <3>1, <3>2, <3>3, <3>5
  <2>6. CASE ~Short(h)
    <3>1. work' = Append(work, w)
      BY <1>5, <2>4, <2>6
    <3>2. /\ w.id = j /\ w.ch = k.channel /\ w.cmd = call.cmd /\ w.data = f.msg.data
          /\ w \in Request
      BY <1>2, <1>4, <2>1, <2>4, <2>6 DEF Request
    <3> HIDE DEF w
    <3>3. Job(w, sent, consumed)
      <4>1. consumed < j
        BY <2>3 DEF Unheard
      <4> DEFINE d == w.data
      <4>0. d = f.msg.data /\ d \in Seq(Nat) /\ Len(d) = h.want
        BY <2>4, <2>6, <3>2
      <4> HIDE DEF d
      <4>2. Len(d) = Len(call.data)
        BY <2>1, <4>0
      <4>3. w.cmd = CmdInit => d # << >>
        <5>1. call.cmd = CmdInit => Len(call.data) = 1
          BY <1>2
        <5>2. w.cmd = call.cmd
          BY <3>2
        <5>3. w.cmd = CmdInit => Len(d) = 1
          BY <4>2, <5>1, <5>2
        <5>4. d \in Seq(Nat) /\ Len(d) = 1 => d # << >>
          OBVIOUS
        <5>5. QED
          BY <4>0, <5>3, <5>4
      <4>4. w.cmd = CmdPing => \A q \in DOMAIN d : d[q] = j
        <5>1. DOMAIN d = 1 .. h.want
          BY <4>0
        <5>2. h.want \in Nat /\ Len(h.data) \in Nat
          BY <2>1, SizesNat DEF Assembling
        <5>3. w.cmd = CmdPing => \A q \in 1 .. Len(h.data) : q <= h.want => h.data[q] = j
          BY <2>1, <3>2 DEF Counted
        <5>4. \A q \in 1 .. h.want : q \in 1 .. Len(h.data) /\ d[q] = h.data[q]
          BY <2>4, <2>6, <4>0, <5>2
        <5>5. QED
          BY <5>1, <5>2, <5>3, <5>4
      <4>5. QED
        BY <1>2, <3>2, <4>1, <4>2, <4>3, <4>4 DEF Job, d
    <3>4. Before(Stream, w.id) /\ \A i \in DOMAIN work : work[i].id < w.id
      <4>1. \A i \in DOMAIN Stream : Stream[i].of \in Nat
        BY <1>1, StreamGhosts
      <4>2. QED
        BY <1>2, <2>3, <3>2, <4>1 DEF Unheard, Before
    <3>5. Working'
      BY <1>1, <3>1, <3>2, <3>3, <3>4, JoinsWork
    <3>6. QED
      BY <1>6, <2>4, <2>6, <3>5
  <2>7. QED
    BY <2>5, <2>6
<1>9. QED
  BY <1>7, <1>8

LEMMA NewReassemblerType ==
    ASSUME NEW c \in Channels
    PROVE  /\ NewReassembler(c) \in Assembling(Channels)
           /\ NewReassembler(c).channel = c /\ NewReassembler(c).started = FALSE
<1>1. << >> \in Seq(Nat) /\ 0 \in 0 .. HighBit - 1 /\ 0 \in 0 .. MaxMessage /\ 0 \in 0 .. MaxContinuations
  BY SizesNat
<1>2. QED
  BY <1>1 DEF NewReassembler, Fields, Assembling

LEMMA SendKeeps == ASSUME AInv, IInv', Send PROVE Answers'
<1> DEFINE n == Packets(Len(call.data))
<1>1. /\ pc = "send" /\ packets' = Tail(packets)
      /\ Tail(packets) = << >> => pc' = "recv" /\ rc' = NewReassembler(k.channel) /\ from' = {}
      /\ Tail(packets) # << >> => UNCHANGED <<pc, rc, from>>
      /\ UNCHANGED <<st, k, call, last, closes, sent, consumed, inbox, foreign, given, pending>>
  BY DEF Send, KeyReceives
<1>2. TypeOK /\ OneAnswer /\ Coming /\ Working /\ Reading /\ Asked /\ Sending /\ Opened
  BY DEF AInv, Answers
<1>3. PICK t \in 1 .. Packets(Len(call.data)) :
        /\ packets = Left(t)
        /\ t = 1 \/ kasm[k.channel].started => Unheard(Stream, work, consumed, Len(sent))
        /\ t > 1 /\ kasm[k.channel].started =>
             /\ kasm[k.channel].cmd = call.cmd /\ kasm[k.channel].want = Len(call.data)
             /\ Half(kasm[k.channel], Len(sent))
  BY <1>1, <1>2 DEF Sending
<1>4. /\ n \in Nat \ {0}
      /\ t = n => Tail(packets) = << >>
      /\ t # n => Tail(packets) = Left(t + 1) /\ Tail(packets) # << >> /\ t + 1 \in 1 .. n
  BY <1>1, <1>2, <1>3, LeftShape
<1>5. /\ Working'
      /\ kasm' \in [Channels -> Assembling(Channels)] /\ \A c \in Channels : kasm'[c].channel = c
      /\ kasm'[k.channel].started =>
           \/ t = n
           \/ /\ Unheard(Stream, work', consumed, Len(sent))
              /\ kasm'[k.channel].cmd = call.cmd /\ kasm'[k.channel].want = Len(call.data)
              /\ Half(kasm'[k.channel], Len(sent))
  BY <1>3, SendsOne
<1>6. Coming'
  BY <1>1, <1>2, ComingStays
<1>7. k.channel \in Channels /\ pc' \in {"send", "recv"}
  BY <1>1, <1>2 DEF TypeOK
<1>8. TypeOK'
  <2>1. inbox' \in Seq(InboxReport)' /\ pending' \in Seq(InboxReport)'
    BY <1>1, <1>2, InboxStays
  <2>2. rc' \in Assembling(Channels) /\ from' \subseteq 0 .. Len(sent)
    BY <1>1, <1>2, <1>7, NewReassemblerType DEF TypeOK
  <2>3. pc' = "send" => packets' # << >>
    BY <1>1
  <2>4. QED
    BY <1>1, <1>2, <1>5, <1>7, <2>1, <2>2, <2>3 DEF TypeOK
<1>9. OneAnswer'
  BY <1>1, <1>2 DEF OneAnswer
<1>10. Reading'
  BY <1>1, <1>7, NewReassemblerType DEF Reading
<1>11. Asked' /\ Opened'
  BY <1>1, <1>2, <1>7 DEF Asked, Opened, OwnChannel
<1>12. Sending'
  <2>1. CASE t = n
    BY <1>1, <1>4, <1>5, <2>1 DEF Sending
  <2>2. CASE t # n
    <3>1. packets' = Left(t + 1)'
      BY <1>1, <1>4, <2>2 DEF Left
    <3>2. Stream' = Stream
      BY <1>1 DEF Stream
    <3>3. t + 1 \in 1 .. n /\ t + 1 # 1
      BY <1>3, <1>4, <2>2
    <3>4. QED
      BY <1>1, <1>5, <2>2, <3>1, <3>2, <3>3 DEF Sending
  <2>3. QED
    BY <2>1, <2>2
<1>13. QED
  BY <1>5, <1>6, <1>8, <1>9, <1>10, <1>11, <1>12 DEF Answers

----------------------------------------------------------------------------
(***************************************************************************)
(* The steps of the device, the transport and the other programs.          *)
(***************************************************************************)

(* What the device sends leaves the Key as it is. *)
LEMMA DeviceWell ==
    ASSUME AInv, UNCHANGED client, kasm' = kasm,
           inbox' \in Seq(InboxReport), pending' \in Seq(InboxReport),
           Coming', Working', Opened',
           \A i \in DOMAIN work' : \E j \in DOMAIN work : work'[i] = work[j],
           \A of \in Nat \ {0} :
              Ahead(Stream, rc, of) /\ (\A i \in DOMAIN work : of < work[i].id) => Ahead(Stream', rc, of),
           \A j \in Nat : Unheard(Stream, work, consumed, j) => \A n \in DOMAIN Stream' : Stream'[n].of < j
    PROVE  Answers'
<1>1. /\ UNCHANGED <<st, k, pc, call, packets, rc, last, closes, sent, from, consumed>>
      /\ TypeOK /\ OneAnswer /\ Reading /\ Asked /\ Sending
  BY DEF client, AInv, Answers
<1>2. TypeOK'
  <2>1. InboxReport' = InboxReport
    BY <1>1 DEF InboxReport
  <2>2. QED
    BY <1>1, <2>1 DEF TypeOK
<1>3. OneAnswer' /\ Asked'
  BY <1>1, AskedStays DEF OneAnswer
<1>4. Reading'
  <2>1. ASSUME NEW of \in 1 .. Len(sent), \A i \in DOMAIN work : of < work[i].id
        PROVE  \A i \in DOMAIN work' : of < work'[i].id
    BY <2>1
  <2>2. ASSUME NEW of \in 1 .. Len(sent), \A i \in DOMAIN work : of < work[i].id, Ahead(Stream, rc, of)
        PROVE  Ahead(Stream', rc, of)
    BY <2>2
  <2>3. QED
    BY <1>1, <2>1, <2>2 DEF Reading
<1>5. Sending'
  <2>1. ASSUME Unheard(Stream, work, consumed, Len(sent)) PROVE Unheard(Stream', work', consumed, Len(sent))
    <3>1. Len(sent) \in Nat
      BY <1>1 DEF Asked
    <3>2. \A n \in DOMAIN Stream' : Stream'[n].of < Len(sent)
      BY <2>1, <3>1
    <3>3. \A i \in DOMAIN work' : work'[i].id < Len(sent)
      BY <2>1 DEF Unheard
    <3>4. QED
      BY <2>1, <3>2, <3>3 DEF Unheard
  <2>2. ASSUME NEW t, packets = Left(t) PROVE packets' = Left(t)'
    BY <1>1, <2>2 DEF Left
  <2>3. QED
    BY <1>1, <2>1, <2>2 DEF Sending
<1>6. QED
  BY <1>2, <1>3, <1>4, <1>5 DEF Answers

LEMMA KeyEmitsKeeps == ASSUME AInv, KeyEmits PROVE Answers'
<1>1. /\ pending # << >> /\ inbox' = Append(inbox, Head(pending)) /\ pending' = Tail(pending)
      /\ UNCHANGED <<client, given, kasm, work>> /\ UNCHANGED <<st, k, sent, consumed>>
  BY DEF KeyEmits, client
<1>2. TypeOK /\ Coming /\ Working /\ Opened
  BY DEF AInv, Answers
<1>3. inbox \in Seq(InboxReport) /\ pending \in Seq(InboxReport)
  BY <1>2 DEF TypeOK
<1>4. Stream' = Stream
  BY <1>1, <1>3, FlowEmits DEF Stream
<1>5. inbox' \in Seq(InboxReport) /\ pending' \in Seq(InboxReport)
  BY <1>1, <1>3
<1>6. Coming' /\ Working' /\ Opened'
  BY <1>1, <1>2, <1>4 DEF Coming, Working, Opened, OwnChannel
<1>7. QED
  BY <1>1, <1>4, <1>5, <1>6, DeviceWell DEF Unheard

LEMMA KeyCutsKeeps == ASSUME AInv, KeyCuts PROVE Answers'
<1> DEFINE ln == Len(inbox) + Len(pending)
           lt == Len(inbox)
           s == Cut(Stream, lt)
<1>1. /\ pending' = << >> /\ UNCHANGED <<client, given, kasm, work, inbox>>
      /\ UNCHANGED <<st, k, sent, consumed>>
  BY DEF KeyCuts, client
<1>2. TypeOK /\ Coming /\ Working /\ Opened
  BY DEF AInv, Answers
<1>3. inbox \in Seq(InboxReport) /\ pending \in Seq(InboxReport)
  BY <1>2 DEF TypeOK
<1>4. Stream' = s
  BY <1>1, <1>3, FlowCut DEF Stream
<1>5. ln \in Nat /\ lt \in 0 .. ln /\ Ghosts(Stream, ln) /\ DOMAIN Stream = 1 .. ln
  BY <1>2, <1>3, StreamGhosts, FlowAt
<1>6. DOMAIN s = 1 .. lt /\ \A n \in 1 .. lt : s[n] = Stream[n] /\ n \in 1 .. ln
  BY <1>5 DEF Cut
<1> HIDE DEF s, lt, ln
<1>7. Linked(s)
  BY <1>2, <1>5, BrokenOff DEF Coming, s
<1>8. Coming'
  BY <1>1, <1>2, <1>4, <1>5, <1>6, <1>7 DEF Coming
<1>9. Working'
  <2>1. \A i \in DOMAIN work : Before(s, work[i].id)
    BY <1>2, <1>5, BeforeCut DEF Working, s
  <2>2. QED
    BY <1>1, <1>2, <1>4, <2>1 DEF Working
<1>10. inbox' \in Seq(InboxReport) /\ pending' \in Seq(InboxReport)
  BY <1>1, <1>3
<1>11. \A of : Ahead(Stream, rc, of) => Ahead(s, rc, of)
  BY <1>5, AheadCut DEF s
<1>12. \A j : Unheard(Stream, work, consumed, j) => \A n \in DOMAIN s : s[n].of < j
  BY <1>5, <1>6 DEF Unheard
<1>13. Opened'
  BY <1>1, <1>2 DEF Opened, OwnChannel
<1>14. QED
  BY <1>1, <1>4, <1>8, <1>9, <1>10, <1>11, <1>12, <1>13, DeviceWell

LEMMA OtherProgramKeeps == ASSUME AInv, OtherProgram PROVE Answers'
<1> DEFINE ln == Len(inbox) + Len(pending)
           at == Len(inbox)
<1>1. PICK rep \in Foreign :
         /\ inbox' = Append(inbox, [rep |-> rep, of |-> 0])
         /\ UNCHANGED <<client, given, kasm, work, pending>> /\ UNCHANGED <<st, k, sent, consumed>>
  BY DEF OtherProgram, Foreign, client, device
<1> DEFINE x == [rep |-> rep, of |-> 0]
           s == Between(Stream, ln, at, x)
<1>2. TypeOK /\ Coming /\ Working /\ Opened /\ Asked
  BY DEF AInv, Answers
<1>3. inbox \in Seq(InboxReport) /\ pending \in Seq(InboxReport)
  BY <1>2 DEF TypeOK
<1>4. x.of = 0 /\ x.rep = rep /\ rep \in Report /\ rep.init /\ rep.size = ReportSize
  BY ForeignShape
<1>5. x \in InboxReport /\ ~GoesOn(x)
  <2>1. 0 \in 0 .. Len(sent)
    BY <1>2 DEF Asked
  <2>2. QED
    BY <1>4, <2>1 DEF InboxReport, GoesOn
<1>6. Sound(x, sent, given) /\ Fresh(x, consumed)
  <2> HIDE DEF x
  <2>1. Begins(x) => /\ Len(x.rep.body) = initPayload
                     /\ x.rep.val \in {CmdInit, CmdKeepalive} => x.rep.len <= initPayload
    BY <1>4, ForeignPayload
  <2>2. QED
    BY <1>4, <1>5, <2>1 DEF Sound, Fresh
<1> HIDE DEF x
<1>7. inbox' \in Seq(InboxReport) /\ pending' \in Seq(InboxReport)
  BY <1>1, <1>3, <1>5 DEF x
<1>8. Stream' = s
  BY <1>1, <1>3, FlowBetween DEF Stream, x
<1>9. ln \in Nat /\ at \in 0 .. ln /\ Ghosts(Stream, ln) /\ DOMAIN Stream = 1 .. ln
  BY <1>2, <1>3, StreamGhosts, FlowAt
<1> HIDE DEF ln, at
<1>10. DOMAIN s = 1 .. ln + 1 /\ \A n \in 1 .. ln + 1 : s[n] = x \/ \E m \in 1 .. ln : s[n] = Stream[m]
  <2>1. DOMAIN s = 1 .. ln + 1
    BY DEF Between
  <2>2. ASSUME NEW n \in 1 .. ln + 1 PROVE s[n] = x \/ \E m \in 1 .. ln : s[n] = Stream[m]
    <3>1. n <= at => n \in 1 .. ln /\ s[n] = Stream[n]
      BY <1>9 DEF Between
    <3>2. n = at + 1 => s[n] = x
      BY <1>9 DEF Between
    <3>3. ~(n <= at) /\ n # at + 1 => n - 1 \in 1 .. ln /\ s[n] = Stream[n - 1]
      BY <1>9 DEF Between
    <3>4. QED
      BY <3>1, <3>2, <3>3
  <2> HIDE DEF s
  <2>3. QED
    BY <2>1, <2>2
<1> HIDE DEF s
<1>11. Linked(s)
  BY <1>2, <1>4, <1>5, <1>9, ComesBetween DEF Coming, s
<1>12. Coming'
  BY <1>1, <1>2, <1>6, <1>8, <1>9, <1>10, <1>11 DEF Coming
<1>13. Working'
  <2>1. ASSUME NEW i \in DOMAIN work PROVE Before(s, work[i].id)
    <3>1. work[i].id \in Nat \ {0} /\ Before(Stream, work[i].id)
      <4>1. work[i] \in Request /\ Before(Stream, work[i].id)
        BY <1>2 DEF Working
      <4>2. QED
        BY <4>1 DEF Request
    <3>2. QED
      BY <1>4, <1>9, <3>1, BeforeBetween DEF s
  <2>2. QED
    BY <1>1, <1>2, <1>8, <2>1 DEF Working
<1>14. \A of : Ahead(Stream, rc, of) => Ahead(s, rc, of)
  BY <1>4, <1>9, AheadBetween DEF s
<1>15. \A j \in Nat : Unheard(Stream, work, consumed, j) => \A n \in DOMAIN s : s[n].of < j
  <2> SUFFICES ASSUME NEW j \in Nat, Unheard(Stream, work, consumed, j), NEW n \in DOMAIN s
               PROVE  s[n].of < j
    OBVIOUS
  <2>1. consumed < j /\ consumed \in Nat
    BY <1>2 DEF Unheard, TypeOK
  <2>2. QED
    BY <1>4, <1>9, <1>10, <2>1 DEF Unheard
<1>16. Opened'
  BY <1>1, <1>2 DEF Opened, OwnChannel
<1>17. QED
  BY <1>1, <1>7, <1>8, <1>12, <1>13, <1>14, <1>15, <1>16, DeviceWell

(* The next reports of the request that the device works on. *)
LEMMA NextReports ==
    ASSUME AInv, work # << >>, NEW y, NEW ly \in Nat, OneReply(y, ly, Head(work).id)
    PROVE  LET ln == Len(inbox) + Len(pending)  s == Joined(Stream, ln, y, ly) IN
           /\ 1 \in DOMAIN work /\ Head(work) = work[1] /\ Head(work) \in Request
           /\ Job(Head(work), sent, consumed) /\ Before(Stream, Head(work).id)
           /\ Linked(s)
           /\ \A n \in DOMAIN s : (\E m \in DOMAIN Stream : s[n] = Stream[m]) \/ \E m \in 1 .. ly : s[n] = y[m]
           /\ \A i \in DOMAIN work : Before(y, work[i].id) => Before(s, work[i].id)
           /\ \A of \in Nat \ {0} :
                 Ahead(Stream, rc, of) /\ (\A i \in DOMAIN work : of < work[i].id) => Ahead(s, rc, of)
           /\ \A j \in Nat : Unheard(Stream, work, consumed, j) => \A n \in DOMAIN s : s[n].of < j
<1> DEFINE ln == Len(inbox) + Len(pending)
           s == Joined(Stream, ln, y, ly)
           id == Head(work).id
<1>1. TypeOK /\ Coming /\ Working
  BY DEF AInv, Answers
<1>2. 1 \in DOMAIN work /\ Head(work) = work[1] /\ Head(work) \in Request
  BY <1>1 DEF Working
<1>3. Job(Head(work), sent, consumed) /\ Before(Stream, id) /\ id \in Nat \ {0}
  BY <1>1, <1>2 DEF Working, Request
<1>4. ln \in Nat /\ Ghosts(Stream, ln) /\ DOMAIN Stream = 1 .. ln
  BY <1>1, StreamGhosts
<1>5. DOMAIN s = 1 .. ln + ly
  BY DEF Joined
<1>6. \A n \in 1 .. ln + ly :
         \/ n \in 1 .. ln /\ s[n] = Stream[n]
         \/ n - ln \in 1 .. ly /\ s[n] = y[n - ln]
  BY <1>4 DEF Joined
<1>7. \A n \in DOMAIN s : (\E m \in DOMAIN Stream : s[n] = Stream[m]) \/ \E m \in 1 .. ly : s[n] = y[m]
  <2> HIDE DEF s, ln
  <2>1. QED
    BY <1>4, <1>5, <1>6
<1> HIDE DEF ln, id
<1>8. Linked(s)
  <2>1. Linked(Stream)
    BY <1>1 DEF Coming
  <2>2. \A n \in 1 .. ln : Stream[n].of <= id /\ (Starts(Stream[n]) => Stream[n].of < id)
    BY <1>3, <1>4 DEF Before
  <2>3. OneReply(y, ly, id)
    BY DEF id
  <2>4. QED
    BY <1>3, <1>4, <2>1, <2>2, <2>3, Follows
<1>9. DOMAIN y = 1 .. ly /\ \A n \in 1 .. ly : y[n].of = id
  BY DEF OneReply, id
<1>10. ASSUME NEW i \in DOMAIN work, Before(y, work[i].id) PROVE Before(s, work[i].id)
  <2>1. Before(Stream, work[i].id)
    BY <1>1 DEF Working
  <2>2. QED
    BY <1>4, <1>9, <1>10, <2>1, BeforeJoined
<1>11. ASSUME NEW of \in Nat \ {0}, Ahead(Stream, rc, of), \A i \in DOMAIN work : of < work[i].id
       PROVE  Ahead(s, rc, of)
  <2>1. of < id /\ id \in Nat
    BY <1>2, <1>3, <1>11 DEF id
  <2>2. OneReply(y, ly, id)
    BY DEF id
  <2>3. QED
    BY <1>4, <1>11, <2>1, <2>2, AheadJoined
<1>12. ASSUME NEW j \in Nat, Unheard(Stream, work, consumed, j), NEW n \in DOMAIN s PROVE s[n].of < j
  <2>1. id < j /\ \A m \in DOMAIN Stream : Stream[m].of < j
    BY <1>2, <1>12 DEF Unheard, id
  <2> HIDE DEF s
  <2>2. QED
    BY <1>7, <1>9, <2>1
<1> HIDE DEF s
<1>13. QED
  BY <1>2, <1>3, <1>7, <1>8, <1>10, <1>11, <1>12 DEF s, ln, id

LEMMA KeyKeepsAliveKeeps == ASSUME AInv, KeyKeepsAlive PROVE Answers'
<1> DEFINE req == Head(work)
           x == [rep |-> InitPacket(req.ch, CmdKeepalive, <<2>>), of |-> req.id]
           y == <<x>>
           ln == Len(inbox) + Len(pending)
           s == Joined(Stream, ln, y, 1)
<1>1. /\ work # << >> /\ pending = << >> /\ inbox' = Append(inbox, x)
      /\ UNCHANGED <<client, given, kasm, work, pending>> /\ UNCHANGED <<st, k, sent, consumed>>
  BY DEF KeyKeepsAlive, client
<1>2. TypeOK /\ Coming /\ Working /\ Opened /\ Asked
  BY DEF AInv, Answers
<1>3. inbox \in Seq(InboxReport) /\ pending \in Seq(InboxReport)
  BY <1>2 DEF TypeOK
<1>4. req \in Request /\ Job(req, sent, consumed)
  BY <1>1, <1>2 DEF Working
<1>5. /\ x.of = req.id /\ req.id \in Nat \ {0} /\ req.id <= Len(sent) /\ consumed < req.id
      /\ x.rep \in Report /\ x.rep.size = ReportSize /\ x.rep.init /\ x.rep.val = CmdKeepalive
      /\ x.rep.len = 1 /\ Len(x.rep.body) = initPayload
  <2>1. PICK c \in Channels, m \in Numbers, d \in Seq(Nat) : Len(d) = 1 /\ c = req.ch /\ m = CmdKeepalive /\ d = <<2>>
    <3>1. <<2>> \in Seq(Nat) /\ Len(<<2>>) = 1
      OBVIOUS
    <3>2. CmdKeepalive \in Numbers
      BY CommandNumbers
    <3>3. req.ch \in Channels
      BY <1>4 DEF Request
    <3>4. QED
      BY <3>1, <3>2, <3>3, Zenon
  <2>2. Len(d) <= MaxMessage
    BY <2>1, SizesNat DEF InitReplyLen
  <2>3. /\ InitPacket(c, m, d) \in Report /\ InitPacket(c, m, d).size = ReportSize
        /\ InitPacket(c, m, d).init
    BY <2>2, InitPacketType DEF InitPacket
  <2>4. /\ InitPacket(c, m, d).val = m /\ InitPacket(c, m, d).len = Len(d)
        /\ Len(InitPacket(c, m, d).body) = initPayload
    BY <2>2, InitPacketFields
  <2>5. x.rep = InitPacket(c, m, d) /\ x.of = req.id
    BY <2>1
  <2> HIDE DEF x
  <2>6. /\ x.rep \in Report /\ x.rep.size = ReportSize /\ x.rep.init /\ x.rep.val = CmdKeepalive
        /\ x.rep.len = 1 /\ Len(x.rep.body) = initPayload
    BY <2>1, <2>3, <2>4, <2>5
  <2> HIDE DEF req
  <2>7. req.id \in Nat \ {0} /\ req.id <= Len(sent) /\ consumed < req.id
    BY <1>4 DEF Request, Job
  <2>8. QED
    BY <2>5, <2>6, <2>7
<1> HIDE DEF x
<1>6. x \in InboxReport
  <2>1. Len(sent) \in Nat
    BY <1>2 DEF Asked
  <2>2. x.of \in 0 .. Len(sent)
    BY <1>5, <2>1
  <2>3. QED
    BY <1>5, <2>2 DEF InboxReport, x
<1>7. Begins(x) /\ ~Starts(x) /\ ~GoesOn(x)
  BY <1>5 DEF Begins, Starts, GoesOn
<1>8. Sound(x, sent, given) /\ Fresh(x, consumed)
  <2>1. CmdKeepalive \notin Commands /\ CmdKeepalive # CmdInit /\ CmdKeepalive # CmdPing
    BY DEF Commands, CmdKeepalive, CmdInit, CmdPing, CmdWink, CmdCBOR
  <2>2. 1 <= initPayload
    BY SizesNat DEF InitReplyLen
  <2>3. consumed <= req.id
    BY <1>2, <1>5 DEF TypeOK
  <2>4. QED
    BY <1>5, <1>7, <2>1, <2>2, <2>3 DEF Sound, Fresh
<1>9. DOMAIN y = 1 .. 1 /\ y[1] = x
  OBVIOUS
<1> HIDE DEF y
<1>10. OneReply(y, 1, Head(work).id)
  BY <1>5, <1>7, <1>9 DEF OneReply
<1>11. Stream' = s
  BY <1>1, <1>3, <1>6, FlowJoinedOne DEF Stream, y
<1>12. inbox' \in Seq(InboxReport) /\ pending' \in Seq(InboxReport)
  BY <1>1, <1>3, <1>6
<1>13. /\ Linked(s)
       /\ \A n \in DOMAIN s : (\E m \in DOMAIN Stream : s[n] = Stream[m]) \/ \E m \in 1 .. 1 : s[n] = y[m]
       /\ \A i \in DOMAIN work : Before(y, work[i].id) => Before(s, work[i].id)
       /\ \A of \in Nat \ {0} :
             Ahead(Stream, rc, of) /\ (\A i \in DOMAIN work : of < work[i].id) => Ahead(s, rc, of)
       /\ \A j \in Nat : Unheard(Stream, work, consumed, j) => \A n \in DOMAIN s : s[n].of < j
  BY <1>1, <1>10, NextReports
<1> HIDE DEF s
<1>14. Coming'
  BY <1>1, <1>2, <1>8, <1>9, <1>11, <1>13 DEF Coming
<1>15. Working'
  <2>1. ASSUME NEW i \in DOMAIN work PROVE Before(s, work[i].id)
    <3>1. req.id <= work[i].id
      <4>1. 1 \in DOMAIN work /\ req = work[1] /\ (i # 1 => 1 < i)
        BY <1>1, <1>2 DEF Working
      <4>2. i # 1 => work[1].id < work[i].id
        BY <1>2, <4>1 DEF Working
      <4>3. work[i] \in Request /\ work[1] \in Request
        BY <1>2, <4>1 DEF Working
      <4>4. work[i].id \in Nat /\ work[1].id \in Nat
        BY <4>3 DEF Request
      <4> HIDE DEF req
      <4>5. QED
        BY <4>1, <4>2, <4>4
    <3>2. Before(y, work[i].id)
      BY <1>5, <1>7, <1>9, <3>1 DEF Before
    <3>3. QED
      BY <1>13, <3>2
  <2>2. QED
    BY <1>1, <1>2, <1>11, <2>1 DEF Working
<1>16. Opened'
  BY <1>1, <1>2 DEF Opened, OwnChannel
<1>17. QED
  BY <1>1, <1>11, <1>12, <1>13, <1>14, <1>15, <1>16, DeviceWell

(* A message that fits request id of those asked, when the device gave ch.   *)
Fits(id, asked, ch, cmd, data) ==
    /\ cmd # CmdKeepalive /\ Len(data) <= MaxMessage
    /\ cmd \in Commands => cmd = asked[id]
    /\ cmd = CmdInit =>
         /\ Len(data) <= initPayload
         /\ Len(data) >= InitReplyLen => ch # 0 /\ data[2] = ch /\ data[3] \in KeyCaps
    /\ cmd = CmdPing => \A p \in DOMAIN data : data[p] = id

LEMMA AnswerFits ==
    ASSUME NEW req \in Request, NEW asked, NEW used, Job(req, asked, used),
           NEW channel \in Channels, NEW caps \in KeyCaps, NEW cmd, NEW data,
           Answering(req, cmd, data, channel, caps), NEW ch, req.cmd = CmdInit => ch = channel
    PROVE  Fits(req.id, asked, ch, cmd, data)
<1>1. /\ cmd # CmdKeepalive /\ data \in Seq(Nat) /\ Len(data) <= MaxMessage
      /\ cmd \in Commands => cmd = req.cmd
      /\ cmd = CmdInit => data = << >> \/ \E nonce \in Nat : data = InitReply(nonce, channel, caps)
      /\ cmd = CmdPing => data = req.data
  BY DEF Answering
<1>2. cmd \in Commands => cmd = asked[req.id]
  BY <1>1 DEF Job
<1>3. ASSUME cmd = CmdInit
      PROVE  /\ Len(data) <= initPayload
             /\ Len(data) >= InitReplyLen => ch # 0 /\ data[2] = ch /\ data[3] \in KeyCaps
  <2>1. req.cmd = CmdInit /\ ch = channel /\ channel # 0
    BY <1>1, <1>3, CommandNumbers DEF Commands
  <2>2. InitReplyLen = 3 /\ 3 <= initPayload /\ initPayload \in Nat
    BY SizesNat DEF InitReplyLen
  <2>3. CASE data = << >>
    BY <2>2, <2>3
  <2>4. CASE \E nonce \in Nat : data = InitReply(nonce, channel, caps)
    <3>1. PICK nonce \in Nat : data = <<nonce, channel, caps>>
      BY <2>4 DEF InitReply
    <3>2. Len(data) = 3 /\ data[2] = channel /\ data[3] = caps
      BY <3>1
    <3>3. QED
      BY <2>1, <2>2, <3>2
  <2>5. QED
    BY <1>1, <1>3, <2>3, <2>4
<1>4. cmd = CmdPing => \A p \in DOMAIN data : data[p] = req.id
  BY <1>1 DEF Job, Commands
<1>5. QED
  BY <1>1, <1>2, <1>3, <1>4 DEF Fits

(* A packet of an answer. *)
IsFirst(x, c, id, cmd, data) ==
    /\ c \in Channels /\ id \in Nat \ {0} /\ cmd \in Numbers /\ data \in Seq(Nat)
    /\ x.rep = InitPacket(c, cmd, data) /\ x.of = id

LEMMA FirstSound ==
    ASSUME NEW x, NEW c, NEW id, NEW cmd, NEW data, IsFirst(x, c, id, cmd, data),
           NEW asked, NEW ch, Fits(id, asked, ch, cmd, data)
    PROVE  /\ x.rep \in Report /\ x.rep.ch = c /\ Starts(x) /\ ~GoesOn(x)
           /\ x.rep.val = cmd /\ x.rep.len = Len(data) /\ Sound(x, asked, ch)
<1>0. /\ c \in Channels /\ id \in Nat \ {0} /\ cmd \in Numbers /\ data \in Seq(Nat)
      /\ x.rep = InitPacket(c, cmd, data) /\ x.of = id
  BY DEF IsFirst
<1>1. cmd # CmdKeepalive /\ Len(data) <= MaxMessage
  BY DEF Fits
<1>2. x.rep \in Report
  BY <1>0, <1>1, InitPacketType
<1>3. x.rep.ch = c /\ x.rep.size = ReportSize /\ x.rep.init
  BY <1>0 DEF InitPacket
<1>4. x.rep.val = cmd /\ x.rep.len = Len(data) /\ Len(x.rep.body) = initPayload
  BY <1>0, <1>1, InitPacketFields
<1>5. \A q \in 1 .. initPayload : x.rep.body[q] = PadByte(data, q)
  BY <1>0, InitPacketBody
<1>6. Begins(x) /\ Starts(x) /\ ~GoesOn(x)
  BY <1>1, <1>3, <1>4 DEF Begins, Starts, GoesOn
<1>7. ASSUME cmd = CmdInit, Len(data) >= InitReplyLen
      PROVE  ch # 0 /\ x.rep.body[2] = ch /\ x.rep.body[3] \in KeyCaps
  <2>1. 2 \in 1 .. initPayload /\ 3 \in 1 .. initPayload
    BY SizesNat DEF InitReplyLen
  <2>2. x.rep.body[2] = PadByte(data, 2) /\ x.rep.body[3] = PadByte(data, 3)
    BY <1>5, <2>1
  <2>3. PadByte(data, 2) = data[2] /\ PadByte(data, 3) = data[3]
    BY <1>0, <1>7 DEF PadByte, InitReplyLen
  <2>4. QED
    BY <1>7, <2>2, <2>3 DEF Fits
<1>8. ASSUME cmd = CmdPing, NEW p \in 1 .. initPayload, p <= Len(data) PROVE x.rep.body[p] = id
  <2>1. p \in DOMAIN data /\ PadByte(data, p) = data[p]
    BY <1>0, <1>8, SizesNat DEF PadByte
  <2>2. QED
    BY <1>5, <1>8, <2>1 DEF Fits
<1>9. Sound(x, asked, ch)
  BY <1>0, <1>3, <1>4, <1>6, <1>7, <1>8 DEF Sound, Fits
<1>10. QED
  BY <1>2, <1>3, <1>4, <1>6, <1>9

LEMMA NextSound ==
    ASSUME NEW c \in Channels, NEW id \in Nat \ {0}, NEW asked, NEW ch, NEW cmd,
           NEW data \in Seq(Nat), Fits(id, asked, ch, cmd, data), NEW seq \in Numbers,
           NEW x, x.rep = ContPacket(c, data, seq), x.of = id
    PROVE  /\ x.rep \in Report /\ x.rep.ch = c /\ GoesOn(x) /\ ~Begins(x) /\ ~Starts(x)
           /\ cmd = CmdPing => Echoes(x.rep, id, Len(data))
           /\ Sound(x, asked, ch)
<1>1. x.rep \in Report
  BY ContPacketType
<1>2. x.rep.ch = c /\ x.rep.size = ReportSize
  BY DEF ContPacket
<1>3. ~x.rep.init
  BY ContPacketGoesOn
<1>4. x.rep.val = seq /\ Len(x.rep.body) = contPayload
  BY ContPacketFields
<1>5. \A q \in 1 .. contPayload : x.rep.body[q] = PadByte(data, Offset(seq) + q)
  BY ContPacketFields
<1>6. ~Begins(x) /\ ~Starts(x) /\ GoesOn(x)
  BY <1>3 DEF Begins, Starts, GoesOn
<1>7. cmd = CmdPing => Echoes(x.rep, id, Len(data))
  <2> SUFFICES ASSUME cmd = CmdPing, NEW q \in 1 .. contPayload, Offset(seq) + q <= Len(data)
               PROVE  x.rep.body[q] = id
    BY <1>4 DEF Echoes
  <2>1. Offset(seq) \in Nat /\ contPayload \in Nat
    BY OffsetStep, SizesNat DEF Numbers
  <2> DEFINE p == Offset(seq) + q
  <2>2. p \in 1 .. Len(data)
    BY <2>1
  <2> HIDE DEF p
  <2>3. p \in DOMAIN data /\ PadByte(data, p) = data[p]
    BY <2>2 DEF PadByte
  <2>4. data[p] = id
    BY <2>3 DEF Fits
  <2>5. QED
    BY <1>5, <2>3, <2>4 DEF p
<1>8. Sound(x, asked, ch)
  BY <1>2, <1>3, <1>4, <1>6 DEF Sound
<1>9. QED
  BY <1>1, <1>2, <1>6, <1>7, <1>8

LEMMA ShortSound ==
    ASSUME NEW req \in Request, NEW asked, NEW ch, NEW x, x.rep = ShortReport(req.ch), x.of = req.id
    PROVE  x.rep \in Report /\ x.rep.ch = req.ch /\ ~GoesOn(x) /\ ~Begins(x) /\ Sound(x, asked, ch)
<1>1. req.ch \in Channels /\ req.id \in Nat \ {0}
  BY DEF Request
<1>2. << >> \in Seq(Nat) /\ 0 \in 0 .. HighBit - 1 /\ 0 \in 0 .. MaxMessage
  BY SizesNat
<1>3. contHeader - 1 \in 0 .. ReportSize /\ contHeader - 1 # ReportSize
  BY FramingAssumption DEF contHeader, initHeader
<1>4. x.rep \in Report /\ x.rep.ch = req.ch /\ x.rep.size = contHeader - 1 /\ x.rep.init
  BY <1>1, <1>2, <1>3 DEF ShortReport, Report
<1>5. ~GoesOn(x) /\ ~Begins(x)
  BY <1>3, <1>4 DEF GoesOn, Begins
<1>6. QED
  BY <1>1, <1>4, <1>5 DEF Sound

(* The reports of an answer to request id. *)
Labelled(y, reports, id) ==
    /\ DOMAIN y = 1 .. Len(reports)
    /\ \A n \in 1 .. Len(reports) : y[n].rep = reports[n] /\ y[n].of = id

AnswersWell(y, ly, id, asked, ch) ==
    /\ ly \in Nat /\ OneReply(y, ly, id)
    /\ \A n \in 1 .. ly : y[n].rep \in Report /\ y[n].of = id /\ Sound(y[n], asked, ch)

LEMMA SplitSound ==
    ASSUME NEW c \in Channels, NEW id \in Nat \ {0}, NEW asked, NEW ch, NEW cmd \in Numbers,
           NEW data \in Seq(Nat), Fits(id, asked, ch, cmd, data),
           NEW y, Labelled(y, Split(c, cmd, data).packets, id)
    PROVE  AnswersWell(y, Len(Split(c, cmd, data).packets), id, asked, ch)
<1> DEFINE m == Packets(Len(data))
           reports == Split(c, cmd, data).packets
<1>1. Len(data) \in Nat /\ m \in Nat \ {0}
  BY PacketCount
<1>2. reports = [i \in 1 .. m |-> Packet(c, cmd, data, i)]
  BY <1>1, SizesNat DEF Split, TooLong, Fits
<1> HIDE DEF reports
<1>3. Len(reports) = m /\ \A i \in 1 .. m : reports[i] = Packet(c, cmd, data, i)
  BY <1>1, <1>2
<1>4. DOMAIN y = 1 .. m /\ \A n \in 1 .. m : y[n].rep = Packet(c, cmd, data, n) /\ y[n].of = id
  BY <1>3 DEF Labelled, reports
<1>5. ASSUME NEW n \in 1 .. m
      PROVE  /\ y[n].rep \in Report /\ y[n].rep.ch = c /\ Sound(y[n], asked, ch)
             /\ n = 1 => Starts(y[n]) /\ ~GoesOn(y[n]) /\ y[n].rep.val = cmd /\ y[n].rep.len = Len(data)
             /\ n # 1 =>
                  /\ GoesOn(y[n]) /\ ~Begins(y[n]) /\ ~Starts(y[n])
                  /\ cmd = CmdPing => Echoes(y[n].rep, id, Len(data))
  <2>1. PICK x : x = y[n]
    OBVIOUS
  <2>2. x.rep = Packet(c, cmd, data, n) /\ x.of = id
    BY <1>4, <2>1
  <2>3. /\ x.rep \in Report /\ x.rep.ch = c /\ Sound(x, asked, ch)
        /\ n = 1 => Starts(x) /\ ~GoesOn(x) /\ x.rep.val = cmd /\ x.rep.len = Len(data)
        /\ n # 1 =>
             /\ GoesOn(x) /\ ~Begins(x) /\ ~Starts(x)
             /\ cmd = CmdPing => Echoes(x.rep, id, Len(data))
    <3>1. CASE n = 1
      <4>1. x.rep = InitPacket(c, cmd, data) /\ x.of = id
        BY <2>2, <3>1 DEF Packet
      <4> HIDE DEF m
      <4>2. /\ x.rep \in Report /\ x.rep.ch = c /\ Starts(x) /\ ~GoesOn(x)
            /\ x.rep.val = cmd /\ x.rep.len = Len(data) /\ Sound(x, asked, ch)
        BY <4>1, FirstSound DEF IsFirst
      <4>3. QED
        BY <3>1, <4>2
    <3>2. CASE n # 1
      <4>1. PICK seq \in Numbers : seq = n - 2
        BY <3>2, PacketNumber DEF Fits
      <4>2. x.rep = ContPacket(c, data, seq)
        BY <2>2, <3>2, <4>1 DEF Packet
      <4>3. /\ x.rep \in Report /\ x.rep.ch = c /\ GoesOn(x) /\ ~Begins(x) /\ ~Starts(x)
            /\ cmd = CmdPing => Echoes(x.rep, id, Len(data))
            /\ Sound(x, asked, ch)
        BY <2>2, <4>2, NextSound
      <4>4. QED
        BY <3>2, <4>3
    <3>3. QED
      BY <3>1, <3>2
  <2>4. QED
    BY <2>1, <2>3
<1> HIDE DEF m
<1>6. 1 \in 1 .. m /\ m \in Nat /\ \A n \in 2 .. m : n \in 1 .. m /\ n # 1
  BY <1>1
<1>7. OneReply(y, m, id)
  BY <1>4, <1>5, <1>6 DEF OneReply
<1>8. AnswersWell(y, m, id, asked, ch)
  BY <1>4, <1>5, <1>6, <1>7 DEF AnswersWell
<1>9. QED
  BY <1>3, <1>8 DEF reports

LEMMA ReplySound ==
    ASSUME NEW req \in Request, NEW asked, NEW used, Job(req, asked, used),
           NEW kind \in ReplyKinds, Suits(kind, req.cmd), NEW channel \in Channels, NEW caps \in KeyCaps,
           NEW ch, req.cmd = CmdInit => ch = channel,
           NEW y, NEW reports, reports = Reply(req, kind, channel, caps), Labelled(y, reports, req.id)
    PROVE  AnswersWell(y, Len(reports), req.id, asked, ch)
<1>1. Len(req.data) <= MaxMessage /\ (req.cmd = CmdInit => req.data # << >>)
  BY DEF Job
<1>2. CASE reports = << >>
  <2>1. Len(reports) = 0
    BY <1>2
  <2>2. QED
    BY <2>1 DEF OneReply, AnswersWell, Labelled
<1>3. CASE reports = <<ShortReport(req.ch)>>
  <2>1. Len(reports) = 1 /\ reports[1] = ShortReport(req.ch)
    BY <1>3
  <2>2. DOMAIN y = 1 .. 1 /\ y[1].rep = ShortReport(req.ch) /\ y[1].of = req.id
    BY <2>1 DEF Labelled
  <2>3. y[1].rep \in Report /\ ~GoesOn(y[1]) /\ Sound(y[1], asked, ch)
    BY <2>2, ShortSound
  <2>4. QED
    BY <2>1, <2>2, <2>3 DEF OneReply, AnswersWell
<1>4. CASE \E cmd, data : Answering(req, cmd, data, channel, caps) /\ reports = Split(req.ch, cmd, data).packets
  <2>1. PICK cmd \in Numbers, data \in Seq(Nat) :
           Answering(req, cmd, data, channel, caps) /\ reports = Split(req.ch, cmd, data).packets
    BY <1>4 DEF Answering
  <2>2. PICK c \in Channels, id \in Nat \ {0} : c = req.ch /\ id = req.id
    BY DEF Request
  <2>3. Fits(id, asked, ch, cmd, data)
    BY <2>1, <2>2, AnswerFits
  <2>4. Labelled(y, Split(c, cmd, data).packets, id)
    BY <2>1, <2>2
  <2>5. AnswersWell(y, Len(Split(c, cmd, data).packets), id, asked, ch)
    BY <2>3, <2>4, SplitSound
  <2>6. QED
    BY <2>1, <2>2, <2>5
<1>5. QED
  BY <1>1, <1>2, <1>3, <1>4, ReplyShape

(* The channel that the device gives is asked for once, by the first request. *)
LEMMA GivenOnce ==
    ASSUME NEW asked, \A j \in DOMAIN asked : asked[j] = CmdInit => j = 1,
           NEW r, r.of \in DOMAIN asked \cup {0}, NEW old, NEW new, Sound(r, asked, old),
           Starts(r) => r.of < 1
    PROVE  Sound(r, asked, new)
<1>1. ~(Begins(r) /\ r.of # 0 /\ r.rep.val = CmdInit)
  <2> SUFFICES ASSUME Begins(r), r.of # 0, r.rep.val = CmdInit PROVE FALSE
    OBVIOUS
  <2>1. Starts(r)
    BY DEF Starts, CmdInit, CmdKeepalive
  <2>2. CmdInit \in Commands
    BY DEF Commands
  <2>3. asked[r.of] = CmdInit
    BY <2>2 DEF Sound
  <2>4. QED
    BY <2>1, <2>3
<1>2. QED
  BY <1>1 DEF Sound

LEMMA AnswerFrame ==
    ASSUME AInv, KeyAnswers
    PROVE  /\ work # << >> /\ pending = << >> /\ work' = Tail(work)
           /\ UNCHANGED client /\ UNCHANGED <<kasm, inbox, st, k, sent, consumed>>
           /\ Head(work) \in Request /\ Job(Head(work), sent, consumed)
           /\ given' = given \/ (Head(work).cmd = CmdInit /\ given' \in Channels)
           /\ AnswersWell(pending', Len(pending'), Head(work).id, sent, given')
           /\ pending' \in Seq(InboxReport)
<1> DEFINE req == Head(work)
<1>1. /\ work # << >> /\ pending = << >> /\ work' = Tail(work)
      /\ UNCHANGED client /\ UNCHANGED <<kasm, inbox, st, k, sent, consumed>>
  BY DEF KeyAnswers, client
<1>2. PICK kind, caps, channel, reports :
        /\ kind \in ReplyKinds /\ caps \in KeyCaps /\ channel \in Channels
        /\ Suits(kind, req.cmd) /\ reports = Reply(req, kind, channel, caps)
        /\ pending' = [i \in 1 .. Len(reports) |-> [rep |-> reports[i], of |-> req.id]]
        /\ given' = IF req.cmd = CmdInit THEN channel ELSE given
  BY DEF KeyAnswers
<1>3. TypeOK /\ Working /\ Asked
  BY DEF AInv, Answers
<1>4. req \in Request /\ Job(req, sent, consumed)
  BY <1>1, <1>3 DEF Working
<1>5. req.id \in Nat \ {0} /\ req.id <= Len(sent) /\ Len(sent) \in Nat
  BY <1>3, <1>4 DEF Request, Job, Asked
<1> HIDE DEF req
<1>6. Labelled(pending', reports, req.id)
  BY <1>2 DEF Labelled
<1>7. AnswersWell(pending', Len(reports), req.id, sent, given')
  BY <1>2, <1>4, <1>6, ReplySound
<1>8. Len(reports) \in Nat /\ \A n \in 1 .. Len(reports) : reports[n] \in Report
  BY <1>6, <1>7 DEF AnswersWell, Labelled
<1>9. pending' \in [1 .. Len(reports) -> InboxReport]
  <2>1. \A n \in 1 .. Len(reports) : [rep |-> reports[n], of |-> req.id] \in InboxReport
    BY <1>5, <1>8 DEF InboxReport
  <2>2. QED
    BY <1>2, <2>1
<1>10. pending' \in Seq(InboxReport) /\ Len(pending') = Len(reports)
  BY <1>8, <1>9
<1>11. given' = given \/ (req.cmd = CmdInit /\ given' \in Channels)
  BY <1>2
<1>12. QED
  BY <1>1, <1>4, <1>7, <1>10, <1>11 DEF req

LEMMA KeyAnswersKeeps == ASSUME AInv, KeyAnswers PROVE Answers'
<1> DEFINE req == Head(work)
           y == pending'
           ly == Len(pending')
           ln == Len(inbox) + Len(pending)
           s == Joined(Stream, ln, y, ly)
<1>1. /\ work # << >> /\ pending = << >> /\ work' = Tail(work)
      /\ UNCHANGED client /\ UNCHANGED <<kasm, inbox, st, k, sent, consumed>>
      /\ req \in Request /\ Job(req, sent, consumed)
      /\ given' = given \/ (req.cmd = CmdInit /\ given' \in Channels)
      /\ AnswersWell(y, ly, req.id, sent, given')
      /\ pending' \in Seq(InboxReport)
  BY AnswerFrame
<1>2. TypeOK /\ Coming /\ Working /\ Opened /\ Asked
  BY DEF AInv, Answers
<1>3. inbox \in Seq(InboxReport)
  BY <1>2 DEF TypeOK
<1>4. req.id \in Nat \ {0} /\ req.id <= Len(sent) /\ consumed < req.id /\ req.cmd = sent[req.id]
  BY <1>1 DEF Request, Job
<1>5. ly \in Nat /\ OneReply(y, ly, req.id)
  BY <1>1 DEF AnswersWell
<1>6. Stream' = s
  BY <1>1, <1>3, FlowJoined DEF Stream
<1>7. DOMAIN y = 1 .. ly /\ \A n \in 1 .. ly : y[n].of = req.id
  BY <1>5 DEF OneReply
<1>8. /\ 1 \in DOMAIN work /\ req = work[1] /\ Before(Stream, req.id)
      /\ Linked(s)
      /\ \A n \in DOMAIN s : (\E m \in DOMAIN Stream : s[n] = Stream[m]) \/ \E m \in 1 .. ly : s[n] = y[m]
      /\ \A i \in DOMAIN work : Before(y, work[i].id) => Before(s, work[i].id)
      /\ \A of \in Nat \ {0} :
            Ahead(Stream, rc, of) /\ (\A i \in DOMAIN work : of < work[i].id) => Ahead(s, rc, of)
      /\ \A j \in Nat : Unheard(Stream, work, consumed, j) => \A n \in DOMAIN s : s[n].of < j
  BY <1>1, <1>5, NextReports
<1> HIDE DEF s, y, ly, ln
<1>9. req.cmd = CmdInit => req.id = 1
  BY <1>2, <1>4 DEF Asked
<1> HIDE DEF req
<1>10. ASSUME NEW m \in DOMAIN Stream PROVE Sound(Stream[m], sent, given') /\ Fresh(Stream[m], consumed)
  <2>1. Sound(Stream[m], sent, given) /\ Fresh(Stream[m], consumed)
    BY <1>2 DEF Coming
  <2>2. CASE given' = given
    BY <2>1, <2>2
  <2>3. CASE req.cmd = CmdInit
    <3>1. Starts(Stream[m]) => Stream[m].of < 1
      BY <1>8, <1>9, <2>3 DEF Before
    <3>2. Stream[m].of \in DOMAIN sent \cup {0}
      BY <1>2, StreamGhosts DEF Asked
    <3>3. \A j \in DOMAIN sent : sent[j] = CmdInit => j = 1
      BY <1>2 DEF Asked
    <3>4. PICK r : r = Stream[m]
      OBVIOUS
    <3>5. Sound(r, sent, given')
      BY <2>1, <3>1, <3>2, <3>3, <3>4, GivenOnce
    <3>6. QED
      BY <2>1, <3>4, <3>5
  <2>4. QED
    BY <1>1, <2>2, <2>3
<1>11. ASSUME NEW m \in 1 .. ly PROVE Sound(y[m], sent, given') /\ Fresh(y[m], consumed)
  <2>1. consumed \in Nat
    BY <1>2 DEF TypeOK, Asked
  <2>2. Sound(y[m], sent, given') /\ y[m].of = req.id
    BY <1>1 DEF AnswersWell, y, ly, req
  <2>3. QED
    BY <1>4, <2>1, <2>2 DEF Fresh
<1>12. Coming'
  <2>1. \A n \in DOMAIN s : Sound(s[n], sent, given') /\ Fresh(s[n], consumed)
    BY <1>8, <1>10, <1>11
  <2>2. QED
    BY <1>1, <1>6, <1>8, <2>1 DEF Coming
<1>13. /\ Tail(work) \in Seq(Request) /\ Len(work) \in Nat \ {0} /\ Len(Tail(work)) = Len(work) - 1
       /\ \A i \in DOMAIN Tail(work) : i + 1 \in DOMAIN work /\ i + 1 > 1 /\ Tail(work)[i] = work[i + 1]
  BY <1>1, <1>2 DEF Working
<1>14. Working'
  <2>1. ASSUME NEW i \in DOMAIN Tail(work)
        PROVE  Job(Tail(work)[i], sent, consumed) /\ Before(s, Tail(work)[i].id)
    <3>1. PICK j \in DOMAIN work : j > 1 /\ Tail(work)[i] = work[j]
      BY <1>13
    <3>2. Job(work[j], sent, consumed) /\ work[1].id < work[j].id /\ work[j] \in Request
      BY <1>2, <1>8, <3>1 DEF Working
    <3>3. req.id < work[j].id /\ work[j].id \in Nat
      BY <1>8, <3>2 DEF Request
    <3>4. Before(y, work[j].id)
      BY <1>4, <1>7, <3>3 DEF Before
    <3>5. QED
      BY <1>8, <3>1, <3>2, <3>4
  <2>2. ASSUME NEW i \in DOMAIN Tail(work), NEW j \in DOMAIN Tail(work), i < j
        PROVE  Tail(work)[i].id < Tail(work)[j].id
    <3>1. i + 1 \in DOMAIN work /\ j + 1 \in DOMAIN work /\ i + 1 < j + 1
      BY <1>13, <2>2
    <3>2. work[i + 1].id < work[j + 1].id
      BY <1>2, <3>1 DEF Working
    <3>3. QED
      BY <1>13, <3>2
  <2>3. QED
    BY <1>1, <1>6, <1>13, <2>1, <2>2 DEF Working
<1>15. Opened'
  <2>1. st \in {"open", "closed"} => given' = given
    <3>1. consumed >= 1 => req.id # 1
      BY <1>2, <1>4 DEF TypeOK, Asked
    <3>2. QED
      BY <1>1, <1>2, <1>9, <3>1 DEF Opened, req
  <2>2. given' \in Channels \cup {0}
    BY <1>1, <1>2 DEF Opened
  <2>3. QED
    BY <1>1, <1>2, <2>1, <2>2 DEF Opened, OwnChannel
<1>16. \A i \in DOMAIN work' : \E j \in DOMAIN work : work'[i] = work[j]
  BY <1>1, <1>13
<1>17. inbox' \in Seq(InboxReport)
  BY <1>1, <1>3
<1>18. QED
  BY <1>1, <1>6, <1>8, <1>12, <1>14, <1>15, <1>16, <1>17, DeviceWell

----------------------------------------------------------------------------
(***************************************************************************)
(* The theorems.                                                           *)
(***************************************************************************)
LEMMA AnswersStart == ASSUME Init PROVE AInv
<1>1. /\ st = "new" /\ pc = "idle" /\ k = [channel |-> BroadcastChannel, caps |-> 0]
      /\ call = NoCall /\ last = NoResult /\ rc = NewReassembler(BroadcastChannel)
      /\ closes = 0 /\ sent = << >> /\ from = {} /\ consumed = 0 /\ given = 0
      /\ kasm = [c \in Channels |-> NewReassembler(c)]
      /\ work = << >> /\ pending = << >> /\ inbox = << >>
  BY DEF Init
<1>2. BroadcastChannel \in Channels /\ Len(sent) = 0
  BY <1>1 DEF Channels
<1>3. DOMAIN Stream = {}
  BY <1>1 DEF Stream, Flow
<1>4. TypeOK
  <2>1. call \in [op : {"none", "Open", "Ping", "Wink", "GetInfo"}, cmd : 0 .. HighBit - 1, data : Seq(Nat)]
    <3>1. << >> \in Seq(Nat) /\ 0 \in 0 .. HighBit - 1
      BY SizesNat
    <3>2. QED
      BY <1>1, <3>1 DEF NoCall
  <2>2. rc \in Assembling(Channels)
    BY <1>1, <1>2, NewReassemblerType
  <2>3. kasm \in [Channels -> Assembling(Channels)]
    BY <1>1, NewReassemblerType
  <2>4. inbox \in Seq(InboxReport) /\ pending \in Seq(InboxReport)
    BY <1>1
  <2>5. k \in [channel : Channels, caps : KeyCaps \cup {0}]
    BY <1>1, <1>2
  <2>6. QED
    BY <1>1, <1>2, <2>1, <2>2, <2>3, <2>4, <2>5 DEF TypeOK
<1>5. OneAnswer
  BY <1>1 DEF OneAnswer, NoResult, Result
<1>6. Coming
  BY <1>3 DEF Coming, Linked, InOrder, Chained, EchoesWhole
<1>7. Working
  BY <1>1 DEF Working
<1>8. Reading
  BY <1>1 DEF Reading
<1>9. Asked
  BY <1>1 DEF Asked
<1>10. Sending
  BY <1>1, NewReassemblerType DEF Sending
<1>11. Opened
  BY <1>1 DEF Opened, OwnChannel
<1>12. QED
  BY <1>4, <1>5, <1>6, <1>7, <1>8, <1>9, <1>10, <1>11, Start DEF AInv, Answers

LEMMA AnswersStep == ASSUME AInv, [Next]_vars PROVE AInv'
<1>1. IInv'
  BY Step DEF AInv
<1>2. Answers'
  <2>1. CASE UNCHANGED vars
    <3>1. UNCHANGED <<st, k, pc, call, packets, rc, last, closes, sent, from, consumed, given, kasm, work,
                      pending, inbox>>
      BY <2>1 DEF vars, client, device
    <3>2. TypeOK /\ OneAnswer /\ Coming /\ Working /\ Reading /\ Asked /\ Sending /\ Opened
      BY DEF AInv, Answers
    <3>3. TypeOK'
      <4>1. InboxReport' = InboxReport
        BY <3>1 DEF InboxReport
      <4>2. QED
        BY <3>1, <3>2, <4>1 DEF TypeOK
    <3>4. OneAnswer' /\ Opened'
      BY <3>1, <3>2 DEF OneAnswer, Opened, OwnChannel
    <3>5. Coming' /\ Working' /\ Reading' /\ Asked' /\ Sending'
      BY <3>1, <3>2, ComingStays, WorkingStays, ReadingStays, AskedStays, SendingStays
    <3>6. QED
      BY <3>3, <3>4, <3>5 DEF Answers
  <2>2. CASE Open \/ Ping \/ Wink \/ GetInfo \/ Close
    BY <1>1, <2>2, CallsWell
  <2>3. CASE Send
    BY <1>1, <2>3, SendKeeps
  <2>4. CASE SendFails \/ ReceiveFails
    BY <1>1, <2>4, SendFailsKeeps
  <2>5. CASE ReceiveStep
    BY <1>1, <2>5, ReceivesWell
  <2>6. CASE KeyAnswers
    BY <2>6, KeyAnswersKeeps
  <2>7. CASE KeyEmits
    BY <2>7, KeyEmitsKeeps
  <2>8. CASE KeyKeepsAlive
    BY <2>8, KeyKeepsAliveKeeps
  <2>9. CASE KeyCuts
    BY <2>9, KeyCutsKeeps
  <2>10. CASE OtherProgram
    BY <2>10, OtherProgramKeeps
  <2>11. QED
    BY <2>1, <2>2, <2>3, <2>4, <2>5, <2>6, <2>7, <2>8, <2>9, <2>10 DEF Next, DeviceStep
<1>3. QED
  BY <1>1, <1>2 DEF AInv

THEOREM AnswersInvariance == Spec => []AInv
<1>1. Init => AInv
  BY AnswersStart
<1>2. AInv /\ [Next]_vars => AInv'
  BY AnswersStep
<1>3. QED
  BY <1>1, <1>2, PTL DEF Spec

(* Type correctness of a session: what is in rc, in the device and on its    *)
(* way, whatever was broken off or lost.                                     *)
THEOREM SessionTypes == Spec => []TypeOK
<1>1. AInv => TypeOK
  BY DEF AInv, Answers
<1>2. QED
  BY <1>1, AnswersInvariance, PTL

(* A message is put together from the reports of one answer only (the new    *)
(* Reassembler of every roundTrip, the restart at an initialisation packet,  *)
(* the sequence check).                                                      *)
THEOREM NeverMixed == Spec => []OneAnswer
<1>1. AInv => OneAnswer
  BY DEF AInv, Answers
<1>2. QED
  BY <1>1, AnswersInvariance, PTL

(* The channel of an open Key is the one the device gave to this Key's own   *)
(* INIT (the nonce check of Open).                                           *)
THEOREM TalksOnItsOwn == Spec => []OwnChannel
<1>1. AInv => OwnChannel
  BY DEF AInv, Answers, Opened
<1>2. QED
  BY <1>1, AnswersInvariance, PTL

----------------------------------------------------------------------------
(***************************************************************************)
(* The session keeps the promise of RequestReply: a request is a Call, a   *)
(* call refused before its first packet a Reject, an answer that is        *)
(* returned an Answer, any other end of a call a Fail, the rest stutters.  *)
(***************************************************************************)
Quietly == UNCHANGED <<sent, consumed, pc, last>>

LEMMA QuietlyMaps == ASSUME Quietly PROVE UNCHANGED Promise!vars
BY DEF Quietly, Promise!vars

LEMMA RejectedMaps == ASSUME pc = "idle", NEW op, NEW err, Rejected(op, err) PROVE Promise!Next
BY DEF Rejected, Result, Promise!Next, Promise!Reject

LEMMA PanicsMaps == ASSUME Panics PROVE UNCHANGED Promise!vars
BY QuietlyMaps DEF Panics, Quietly

LEMMA RoundTripMaps ==
    ASSUME pc = "idle", NEW op, NEW cmd \in Commands, NEW data, RoundTrip(op, cmd, data)
    PROVE  [Promise!Next]_(Promise!vars)
<1>1. CASE Rejected(op, "ErrTooLong")
  BY <1>1, RejectedMaps
<1>2. CASE Panics
  BY <1>2, PanicsMaps
<1>3. CASE pc' = "send" /\ sent' = Append(sent, cmd) /\ UNCHANGED <<last, consumed>>
  <2>1. Promise!Call
    BY <1>3 DEF Promise!Call, Commands
  <2>2. QED
    BY <2>1 DEF Promise!Next
<1>4. QED
  BY <1>1, <1>2, <1>3 DEF RoundTrip

LEMMA CallMaps == ASSUME Open \/ Ping \/ Wink \/ GetInfo \/ Close PROVE [Promise!Next]_(Promise!vars)
<1>1. CmdInit \in Commands /\ CmdPing \in Commands /\ CmdWink \in Commands /\ CmdCBOR \in Commands
  BY DEF Commands
<1>2. CASE Open
  <2>1. pc = "idle"
    BY <1>2 DEF Open
  <2>2. CASE last' = Result("Open", "nonce", << >>, {}) /\ UNCHANGED <<sent, consumed, pc>>
    BY <2>1, <2>2 DEF Result, Promise!Next, Promise!Reject
  <2>3. CASE RoundTrip("Open", CmdInit, <<OurNonce>>)
    BY <1>1, <2>1, <2>3, RoundTripMaps
  <2>4. QED
    BY <1>2, <2>2, <2>3 DEF Open
<1>3. CASE Ping
  BY <1>1, <1>3, RoundTripMaps DEF Ping, HasKey
<1>4. CASE Wink
  BY <1>1, <1>4, RoundTripMaps, PanicsMaps, RejectedMaps DEF Wink, HasKey, Incapable
<1>5. CASE GetInfo
  BY <1>1, <1>5, RoundTripMaps, PanicsMaps, RejectedMaps DEF GetInfo, HasKey, Incapable
<1>6. CASE Close
  BY <1>6 DEF Close, HasKey, Result, Promise!Next, Promise!Reject
<1>7. QED
  BY <1>2, <1>3, <1>4, <1>5, <1>6

(* A call that fails, whatever it read. *)
LEMMA FailsMaps ==
    ASSUME pc # "idle", consumed' \in consumed .. Len(sent), sent' = sent, NEW err, Fails(err)
    PROVE  Promise!Next
BY DEF Fails, Ends, GivesBack, Result, Promise!Next, Promise!Fail

(* A message of the command that was sent, which Open believes, is a reply   *)
(* to one of the Key's requests that was not used up.                        *)
LEMMA AnswerIsOwn ==
    ASSUME AInv, Reads, IsAnswer,
           call.op = "Open" => ParseInit(Fed.msg.data).err = "none" /\ OwnNonce(ParseInit(Fed.msg.data))
    PROVE  \E j \in consumed + 1 .. Len(sent) :
              sent[j] = sent[Len(sent)] /\ consumed' = j /\ FedFrom = {j}
<1> DEFINE r == Head(inbox)
           h == Taken(rc, r.rep)
<1>1. /\ Hears(r, h) /\ Fed.msg.cmd = h.cmd /\ Fed.msg.data \in Seq(Nat) /\ Len(Fed.msg.data) = h.want
      /\ \A p \in 1 .. h.want : Fed.msg.data[p] = h.data[p]
      /\ r.of \in 0 .. Len(sent) /\ FedFrom = {r.of}
      /\ r.of # 0 => consumed' = r.of
  BY ReadsWhole DEF AInv, Answers
<1>2. pc = "recv" /\ TypeOK /\ Asked
  BY DEF Reads, Receive, AInv, Answers
<1> HIDE DEF r, h
<1>3. h.cmd = sent[Len(sent)] /\ h.cmd \in Commands /\ Len(sent) \in Nat \ {0}
  <2>1. sent \in Seq(Commands) /\ sent # << >> /\ call.cmd = sent[Len(sent)]
    BY <1>2 DEF Asked
  <2>2. h.cmd = call.cmd
    BY <1>1 DEF IsAnswer
  <2>3. QED
    BY <2>1, <2>2
<1>4. r.of # 0
  <2> SUFFICES ASSUME r.of = 0 PROVE FALSE
    OBVIOUS
  <2>1. h.cmd = CmdInit /\ h.want = 3 /\ h.data[1] = OtherNonce
    BY <1>1 DEF Hears
  <2>2. call.op = "Open"
    BY <1>1, <1>2, <2>1 DEF Asked, IsAnswer
  <2>3. ParseInit(Fed.msg.data).nonce = OtherNonce
    BY <1>1, <2>1, <2>2 DEF ParseInit, InitReplyLen
  <2>4. QED
    BY <2>2, <2>3 DEF OwnNonce, OurNonce, OtherNonce
<1>5. consumed < r.of /\ sent[r.of] = h.cmd /\ consumed \in Nat
  BY <1>1, <1>2, <1>3, <1>4 DEF Hears, TypeOK
<1>6. r.of \in consumed + 1 .. Len(sent)
  BY <1>1, <1>3, <1>5
<1>7. QED
  BY <1>1, <1>3, <1>4, <1>5, <1>6

LEMMA SucceedsMaps ==
    ASSUME AInv, Reads, IsAnswer, NEW data, Succeeds(data),
           call.op = "Open" => ParseInit(Fed.msg.data).err = "none" /\ OwnNonce(ParseInit(Fed.msg.data))
    PROVE  Promise!Next
<1>1. PICK j \in consumed + 1 .. Len(sent) :
        sent[j] = sent[Len(sent)] /\ consumed' = j /\ FedFrom = {j}
  BY AnswerIsOwn
<1>2. pc = "recv" /\ pc' = "idle" /\ sent' = sent /\ last'.of = FedFrom
  BY DEF Reads, Receive, Succeeds, Result
<1>3. Promise!Answer
  BY <1>1, <1>2 DEF Promise!Answer
<1>4. QED
  BY <1>3 DEF Promise!Next

LEMMA ReceiveMaps == ASSUME AInv, ReceiveStep PROVE [Promise!Next]_(Promise!vars)
<1>1. consumed \in 0 .. Len(sent) /\ Len(sent) \in Nat
  BY DEF AInv, Answers, TypeOK, Asked
<1>2. ASSUME Reads, NEW err, Fails(err) PROVE Promise!Next
  <2>1. consumed <= consumed' /\ consumed' \in 0 .. Len(sent)
    BY <1>2, ReadsWhole DEF AInv, Answers
  <2>2. pc = "recv" /\ sent' = sent
    BY <1>2 DEF Reads, Receive
  <2>3. consumed' \in consumed .. Len(sent)
    BY <1>1, <2>1
  <2>4. QED
    BY <1>2, <2>2, <2>3, FailsMaps
<1>3. CASE KeepsWaiting
  BY <1>3, QuietlyMaps DEF KeepsWaiting, Receive, Quietly
<1>4. CASE BadReport
  <2>1. pc = "recv" /\ sent' = sent /\ consumed' = consumed /\ Fails(Fed.err)
    BY <1>4 DEF BadReport, Receive
  <2>2. consumed' \in consumed .. Len(sent)
    BY <1>1, <2>1
  <2>3. QED
    BY <2>1, <2>2, FailsMaps
<1>5. CASE Refused \/ OtherCommand
  BY <1>2, <1>5 DEF Refused, OtherCommand
<1>6. CASE OpenReturns
  <2> DEFINE init == ParseInit(Fed.msg.data)
  <2>1. Reads /\ IsAnswer
    BY <1>6 DEF OpenReturns
  <2>2. CASE \E err : Fails(err)
    BY <1>2, <2>1, <2>2
  <2>3. CASE init.err = "none" /\ OwnNonce(init) /\ Succeeds(<< >>)
    BY <2>1, <2>3, SucceedsMaps
  <2>4. QED
    BY <1>6, <2>2, <2>3, OpenRefuses DEF OpenReturns
<1>7. CASE PingReturns
  <2>1. Reads /\ IsAnswer /\ call.op # "Open" /\ \E data : Succeeds(data)
    BY <1>7 DEF PingReturns
  <2>2. QED
    BY <2>1, SucceedsMaps
<1>8. CASE CBORReturns
  <2>1. Reads /\ IsAnswer /\ call.op # "Open" /\ ((\E err : Fails(err)) \/ \E data : Succeeds(data))
    BY <1>8 DEF CBORReturns
  <2>2. QED
    BY <1>2, <2>1, SucceedsMaps
<1>9. QED
  BY <1>3, <1>4, <1>5, <1>6, <1>7, <1>8 DEF ReceiveStep

LEMMA StepMaps == ASSUME AInv, [Next]_vars PROVE [Promise!Next]_(Promise!vars)
<1>1. CASE Open \/ Ping \/ Wink \/ GetInfo \/ Close
  BY <1>1, CallMaps
<1>2. CASE Send
  <2>1. pc = "send" /\ pc' \in {"send", "recv"} /\ UNCHANGED <<sent, consumed, last>>
    BY <1>2 DEF Send
  <2>2. QED
    BY <2>1 DEF Promise!vars
<1>3. CASE SendFails \/ ReceiveFails
  <2>1. pc # "idle" /\ UNCHANGED <<sent, consumed>> /\ \E err : Fails(err)
    BY <1>3 DEF SendFails, ReceiveFails
  <2>2. consumed' \in consumed .. Len(sent)
    BY <2>1 DEF AInv, Answers, TypeOK
  <2>3. QED
    BY <2>1, <2>2, FailsMaps
<1>4. CASE ReceiveStep
  BY <1>4, ReceiveMaps
<1>5. CASE DeviceStep \/ KeyCuts \/ OtherProgram \/ UNCHANGED vars
  <2>1. Quietly
    BY <1>5 DEF DeviceStep, KeyAnswers, KeyEmits, KeyKeepsAlive, KeyCuts, OtherProgram, vars, client, Quietly
  <2>2. QED
    BY <2>1, QuietlyMaps
<1>6. QED
  BY <1>1, <1>2, <1>3, <1>4, <1>5 DEF Next

(* Every answer a caller gets is the reply to one of its own requests, for   *)
(* the same command, each at most once and in order.                         *)
THEOREM PromiseKept == Spec => AnswersInOrder
<1>1. Init => Promise!Init
  BY DEF Init, NoResult, Result, Promise!Init
<1>2. AInv /\ [Next]_vars => [Promise!Next]_(Promise!vars)
  BY StepMaps
<1>3. QED
  BY <1>1, <1>2, AnswersInvariance, PTL DEF Spec, AnswersInOrder, Promise!Spec

----------------------------------------------------------------------------
(***************************************************************************)
(* A ping comes back whole, from a device that answers in full over a      *)
(* transport that loses nothing.                                           *)
(*                                                                         *)
(* What is on its way then belongs to the call under way or is not ours    *)
(* (OfCall).  The packets of an answer come in their order (Rising) and    *)
(* none is missing (Whole), so that the next one is the one that the       *)
(* reassembler waits for; those that are left are needed (Due), so that    *)
(* nothing of the answer is left for the next call.                        *)
(***************************************************************************)
(* A packet of an answer, keepalives aside, and the sequence number of the next. *)
Part(r) == r.of # 0 /\ (GoesOn(r) \/ Starts(r))

NextSeq(r) == IF r.rep.init THEN 0 ELSE r.rep.val + 1

(* Only continuation packets of the same answer follow a part of it. *)
Rising(s) ==
    \A a, b \in DOMAIN s : a < b /\ Part(s[a]) /\ s[b].of # 0 =>
        /\ GoesOn(s[b]) /\ NextSeq(s[a]) <= s[b].rep.val
        /\ Starts(s[a]) => Offset(s[b].rep.val) < s[a].rep.len

(* None of them is missing; those in seqs are expected at once. *)
Whole(s, seqs) ==
    \A n \in DOMAIN s : GoesOn(s[n]) =>
        s[n].rep.val \in seqs \/ \E m \in 1 .. n - 1 : Part(s[m]) /\ s[n].rep.val = NextSeq(s[m])

(* All that is left for r, in the middle of its message. *)
Due(s, r) ==
    \A n \in DOMAIN s : s[n].of # 0 =>
        GoesOn(s[n]) /\ r.seq <= s[n].rep.val /\ Offset(s[n].rep.val) < r.want

Expected == IF pc = "recv" /\ rc.started THEN {rc.seq} ELSE {}

(* A report or a request of the call under way. *)
OfCall(r) ==
    /\ r.rep.size = ReportSize
    /\ r.of # 0 =>
         /\ pc # "idle" /\ r.of = Len(sent) /\ r.rep.ch = k.channel
         /\ Starts(r) /\ call.op = "Ping" => r.rep.len = Len(call.data)

CallsWork(w) ==
    /\ pc # "idle" /\ w.id = Len(sent) /\ w.ch = k.channel
    /\ call.op = "Ping" => Len(w.data) = Len(call.data)

Flowing ==
    /\ given \in {0, KeyChannel}
    /\ \A i \in DOMAIN work : CallsWork(work[i])
    /\ \A n \in DOMAIN Stream : OfCall(Stream[n]) /\ (Part(Stream[n]) => work = << >>)
    /\ Rising(Stream) /\ Whole(Stream, Expected)
    /\ pc = "recv" /\ rc.started =>
         /\ work = << >> /\ Due(Stream, rc)
         /\ call.op = "Ping" => rc.want = Len(call.data)

Echoed ==
    /\ PingEchoes
    /\ st = "failed" => last.op = "Open"
    /\ st # "failed" => Flowing

LEMMA RisingRest ==
    ASSUME NEW ln \in Nat \ {0}, NEW s, DOMAIN s = 1 .. ln, Rising(s)
    PROVE  Rising(Rest(s, ln))
<1> DEFINE t == Rest(s, ln)
<1>1. DOMAIN t = 1 .. ln - 1 /\ \A n \in 1 .. ln - 1 : n + 1 \in 1 .. ln /\ t[n] = s[n + 1]
  BY DEF Rest
<1> HIDE DEF t
<1>2. SUFFICES ASSUME NEW a \in 1 .. ln - 1, NEW b \in 1 .. ln - 1, a < b, Part(t[a]), t[b].of # 0
               PROVE  /\ GoesOn(t[b]) /\ NextSeq(t[a]) <= t[b].rep.val
                      /\ Starts(t[a]) => Offset(t[b].rep.val) < t[a].rep.len
  BY <1>1 DEF Rising, t
<1>3. a + 1 \in DOMAIN s /\ b + 1 \in DOMAIN s /\ a + 1 < b + 1 /\ t[a] = s[a + 1] /\ t[b] = s[b + 1]
  BY <1>1, <1>2
<1>4. QED
  BY <1>2, <1>3 DEF Rising

(* The first report is no part of an answer. *)
LEMMA WholeRest ==
    ASSUME NEW ln \in Nat \ {0}, NEW s, DOMAIN s = 1 .. ln, NEW seqs, Whole(s, seqs), ~Part(s[1])
    PROVE  Whole(Rest(s, ln), seqs)
<1> DEFINE t == Rest(s, ln)
<1>1. DOMAIN t = 1 .. ln - 1 /\ \A n \in 1 .. ln - 1 : n + 1 \in 1 .. ln /\ t[n] = s[n + 1]
  BY DEF Rest
<1> HIDE DEF t
<1>2. SUFFICES ASSUME NEW n \in 1 .. ln - 1, GoesOn(t[n]), t[n].rep.val \notin seqs
               PROVE  \E m \in 1 .. n - 1 : Part(t[m]) /\ t[n].rep.val = NextSeq(t[m])
  BY <1>1 DEF Whole, t
<1>3. n + 1 \in DOMAIN s /\ t[n] = s[n + 1]
  BY <1>1, <1>2
<1>4. PICK m \in 1 .. n : Part(s[m]) /\ t[n].rep.val = NextSeq(s[m])
  BY <1>2, <1>3 DEF Whole
<1>5. m - 1 \in 1 .. n - 1 /\ m - 1 \in 1 .. ln - 1 /\ (m - 1) + 1 = m
  BY <1>2, <1>4
<1>6. t[m - 1] = s[m]
  BY <1>1, <1>5
<1>7. QED
  BY <1>4, <1>5, <1>6

(* It is one: then the next is expected. *)
LEMMA WholeRead ==
    ASSUME NEW ln \in Nat \ {0}, NEW s, DOMAIN s = 1 .. ln, \A n \in 1 .. ln : s[n].rep \in Report,
           NEW seqs, Whole(s, seqs), Rising(s), Part(s[1]),
           \A n \in 1 .. ln : GoesOn(s[n]) => s[n].of # 0,
           \A v \in seqs : v \in Int /\ v < NextSeq(s[1])
    PROVE  Whole(Rest(s, ln), {NextSeq(s[1])})
<1> DEFINE t == Rest(s, ln)
<1>1. DOMAIN t = 1 .. ln - 1 /\ \A n \in 1 .. ln - 1 : n + 1 \in 1 .. ln /\ t[n] = s[n + 1]
  BY DEF Rest
<1> HIDE DEF t
<1>2. SUFFICES ASSUME NEW n \in 1 .. ln - 1, GoesOn(t[n]), t[n].rep.val # NextSeq(s[1])
               PROVE  \E m \in 1 .. n - 1 : Part(t[m]) /\ t[n].rep.val = NextSeq(t[m])
  BY <1>1 DEF Whole, t
<1>3. n + 1 \in 1 .. ln /\ t[n] = s[n + 1] /\ 1 \in 1 .. ln /\ 1 < n + 1
  BY <1>1, <1>2
<1>4. s[1].rep \in Report /\ s[n + 1].rep \in Report
  BY <1>3
<1>5. NextSeq(s[1]) \in Int /\ s[n + 1].rep.val \in Int
  BY <1>4 DEF NextSeq, Report
<1>6. NextSeq(s[1]) <= s[n + 1].rep.val
  BY <1>2, <1>3 DEF Rising
<1>7. s[n + 1].rep.val \notin seqs
  BY <1>5, <1>6
<1>8. PICK m \in 1 .. n : Part(s[m]) /\ t[n].rep.val = NextSeq(s[m])
  BY <1>2, <1>3, <1>7 DEF Whole
<1>9. m # 1
  BY <1>2, <1>8
<1>10. m - 1 \in 1 .. n - 1 /\ m - 1 \in 1 .. ln - 1 /\ (m - 1) + 1 = m
  BY <1>2, <1>8, <1>9
<1>11. t[m - 1] = s[m]
  BY <1>1, <1>10
<1>12. QED
  BY <1>8, <1>10, <1>11

LEMMA DueRest ==
    ASSUME NEW ln \in Nat \ {0}, NEW s, DOMAIN s = 1 .. ln, NEW r, Due(s, r)
    PROVE  Due(Rest(s, ln), r)
<1>1. \A n \in DOMAIN Rest(s, ln) : n + 1 \in DOMAIN s /\ Rest(s, ln)[n] = s[n + 1]
  BY DEF Rest
<1>2. QED
  BY <1>1 DEF Due

(* A part was taken, and the rest is due. *)
LEMMA DueRead ==
    ASSUME NEW ln \in Nat \ {0}, NEW s, DOMAIN s = 1 .. ln, Rising(s), Part(s[1]),
           NEW h, h.seq = NextSeq(s[1]), Starts(s[1]) => h.want = s[1].rep.len,
           NEW r, GoesOn(s[1]) => Due(s, r) /\ h.want = r.want
    PROVE  Due(Rest(s, ln), h)
<1> DEFINE t == Rest(s, ln)
<1>1. \A n \in DOMAIN t : n + 1 \in 1 .. ln /\ t[n] = s[n + 1] /\ 1 \in 1 .. ln /\ 1 < n + 1
  BY DEF Rest
<1> HIDE DEF t
<1>2. SUFFICES ASSUME NEW n \in DOMAIN t, t[n].of # 0
               PROVE  GoesOn(t[n]) /\ h.seq <= t[n].rep.val /\ Offset(t[n].rep.val) < h.want
  BY DEF Due, t
<1>3. /\ GoesOn(s[n + 1]) /\ h.seq <= s[n + 1].rep.val
      /\ Starts(s[1]) => Offset(s[n + 1].rep.val) < s[1].rep.len
  BY <1>1, <1>2 DEF Rising
<1>4. CASE GoesOn(s[1])
  BY <1>1, <1>2, <1>3, <1>4 DEF Due
<1>5. CASE Starts(s[1])
  BY <1>1, <1>3, <1>5
<1>6. QED
  BY <1>4, <1>5 DEF Part

(* Nothing is due when the message is there. *)
LEMMA NothingDue ==
    ASSUME NEW s, NEW h \in Assembling(Channels), Len(h.data) = Offset(h.seq), ~Short(h), Due(s, h),
           NEW n \in DOMAIN s, s[n].rep \in Report
    PROVE  s[n].of = 0
<1> SUFFICES ASSUME s[n].of # 0 PROVE FALSE
  OBVIOUS
<1>1. PICK u, v : u = h.seq /\ v = s[n].rep.val
  OBVIOUS
<1>2. u \in Nat /\ v \in Nat /\ h.want \in Nat
  BY <1>1, SizesNat DEF Assembling, Report
<1>3. u <= v /\ Offset(v) < h.want
  BY <1>1 DEF Due
<1>4. h.want <= Offset(u)
  BY <1>1, SizesNat DEF Short, Assembling
<1>5. Offset(u) <= Offset(v)
  BY <1>2, <1>3, OffsetMonotone
<1>6. Offset(u) \in Int /\ Offset(v) \in Int
  <2>1. \A i \in Nat : Offset(i) \in Nat
    BY OffsetStep
  <2>2. QED
    BY <1>2, <2>1
<1>7. QED
  BY <1>2, <1>3, <1>4, <1>5, <1>6

(* A report of another program comes between. *)
LEMMA BetweenAt ==
    ASSUME NEW ln \in Nat, NEW s, DOMAIN s = 1 .. ln, NEW at \in 0 .. ln, NEW x
    PROVE  LET t == Between(s, ln, at, x) IN
           /\ DOMAIN t = 1 .. ln + 1
           /\ \A i \in 1 .. ln + 1 :
                 \/ i <= at /\ i \in 1 .. ln /\ t[i] = s[i]
                 \/ i = at + 1 /\ t[i] = x
                 \/ i > at + 1 /\ i - 1 \in 1 .. ln /\ t[i] = s[i - 1]
           /\ \A m \in 1 .. ln : \/ m <= at /\ t[m] = s[m]
                                 \/ m > at /\ m + 1 \in 1 .. ln + 1 /\ t[m + 1] = s[m]
<1> DEFINE t == Between(s, ln, at, x)
<1>1. DOMAIN t = 1 .. ln + 1
  BY DEF Between
<1>2. \A i \in 1 .. ln + 1 : t[i] = IF i <= at THEN s[i] ELSE IF i = at + 1 THEN x ELSE s[i - 1]
  BY DEF Between
<1> HIDE DEF t
<1>3. ASSUME NEW m \in 1 .. ln, m > at PROVE m + 1 \in 1 .. ln + 1 /\ t[m + 1] = s[m]
  <2>1. m + 1 \in 1 .. ln + 1 /\ ~(m + 1 <= at) /\ m + 1 # at + 1 /\ (m + 1) - 1 = m
    BY <1>3
  <2>2. QED
    BY <1>2, <2>1
<1>4. ASSUME NEW m \in 1 .. ln, m <= at PROVE t[m] = s[m]
  BY <1>2, <1>4
<1>5. ASSUME NEW i \in 1 .. ln + 1
      PROVE  \/ i <= at /\ i \in 1 .. ln /\ t[i] = s[i]
             \/ i = at + 1 /\ t[i] = x
             \/ i > at + 1 /\ i - 1 \in 1 .. ln /\ t[i] = s[i - 1]
  BY <1>2
<1>6. \A m \in 1 .. ln : \/ m <= at /\ t[m] = s[m]
                         \/ m > at /\ m + 1 \in 1 .. ln + 1 /\ t[m + 1] = s[m]
  BY <1>3, <1>4
<1>7. QED
  BY <1>1, <1>5, <1>6 DEF t

LEMMA FlowsBetween ==
    ASSUME NEW ln \in Nat, NEW s, DOMAIN s = 1 .. ln, NEW at \in 0 .. ln,
           NEW x, x.of = 0, ~GoesOn(x), NEW seqs, Rising(s), Whole(s, seqs)
    PROVE  LET t == Between(s, ln, at, x) IN
           /\ Rising(t) /\ Whole(t, seqs)
           /\ \A r : Due(s, r) => Due(t, r)
<1> DEFINE t == Between(s, ln, at, x)
<1>1. /\ DOMAIN t = 1 .. ln + 1
      /\ \A i \in 1 .. ln + 1 :
            \/ i <= at /\ i \in 1 .. ln /\ t[i] = s[i]
            \/ i = at + 1 /\ t[i] = x
            \/ i > at + 1 /\ i - 1 \in 1 .. ln /\ t[i] = s[i - 1]
      /\ \A m \in 1 .. ln : \/ m <= at /\ t[m] = s[m]
                            \/ m > at /\ m + 1 \in 1 .. ln + 1 /\ t[m + 1] = s[m]
  BY BetweenAt
<1> HIDE DEF t
<1>2. ASSUME NEW i \in 1 .. ln + 1, t[i].of # 0 \/ GoesOn(t[i])
      PROVE  \E m \in 1 .. ln : t[i] = s[m] /\ ((m <= at /\ m = i) \/ (m > at /\ m + 1 = i))
  <2>1. t[i] # x
    BY <1>2
  <2>2. CASE i <= at /\ i \in 1 .. ln /\ t[i] = s[i]
    BY <2>2
  <2>3. CASE i > at + 1 /\ i - 1 \in 1 .. ln /\ t[i] = s[i - 1]
    <3>1. i - 1 > at /\ (i - 1) + 1 = i
      BY <2>3
    <3>2. QED
      BY <2>3, <3>1
  <2>4. QED
    BY <1>1, <2>1, <2>2, <2>3
<1>3. Rising(t)
  <2>1. SUFFICES ASSUME NEW a \in 1 .. ln + 1, NEW b \in 1 .. ln + 1, a < b, Part(t[a]), t[b].of # 0
                 PROVE  /\ GoesOn(t[b]) /\ NextSeq(t[a]) <= t[b].rep.val
                        /\ Starts(t[a]) => Offset(t[b].rep.val) < t[a].rep.len
    BY <1>1 DEF Rising
  <2>2. t[a].of # 0
    BY <2>1 DEF Part
  <2>3. PICK i \in 1 .. ln : t[a] = s[i] /\ ((i <= at /\ i = a) \/ (i > at /\ i + 1 = a))
    BY <1>2, <2>2
  <2>4. PICK j \in 1 .. ln : t[b] = s[j] /\ ((j <= at /\ j = b) \/ (j > at /\ j + 1 = b))
    BY <1>2, <2>1
  <2>5. i < j
    BY <2>1, <2>3, <2>4
  <2>6. QED
    BY <2>1, <2>3, <2>4, <2>5 DEF Rising
<1>4. Whole(t, seqs)
  <2>1. SUFFICES ASSUME NEW n \in 1 .. ln + 1, GoesOn(t[n]), t[n].rep.val \notin seqs
                 PROVE  \E m \in 1 .. n - 1 : Part(t[m]) /\ t[n].rep.val = NextSeq(t[m])
    BY <1>1 DEF Whole
  <2>2. PICK j \in 1 .. ln : t[n] = s[j] /\ ((j <= at /\ j = n) \/ (j > at /\ j + 1 = n))
    BY <1>2, <2>1
  <2>3. PICK m \in 1 .. j - 1 : Part(s[m]) /\ s[j].rep.val = NextSeq(s[m])
    BY <2>1, <2>2 DEF Whole
  <2>4. m \in 1 .. ln
    BY <2>2, <2>3
  <2>5. CASE m <= at /\ t[m] = s[m]
    <3>1. m \in 1 .. n - 1
      BY <2>2, <2>3, <2>4
    <3>2. QED
      BY <2>2, <2>3, <2>5, <3>1
  <2>6. CASE m > at /\ t[m + 1] = s[m]
    <3>1. m + 1 \in 1 .. n - 1
      BY <2>2, <2>3, <2>4, <2>6
    <3>2. QED
      BY <2>2, <2>3, <2>6, <3>1
  <2>7. QED
    BY <1>1, <2>4, <2>5, <2>6
<1>5. ASSUME NEW r, Due(s, r) PROVE Due(t, r)
  <2>1. SUFFICES ASSUME NEW n \in 1 .. ln + 1, t[n].of # 0
                 PROVE  GoesOn(t[n]) /\ r.seq <= t[n].rep.val /\ Offset(t[n].rep.val) < r.want
    BY <1>1 DEF Due
  <2>2. PICK m \in 1 .. ln : t[n] = s[m]
    BY <1>2, <2>1
  <2>3. QED
    BY <1>5, <2>1, <2>2 DEF Due
<1>6. QED
  BY <1>3, <1>4, <1>5 DEF t

LEMMA JoinedEach ==
    ASSUME NEW ln \in Nat, NEW s, NEW ly \in Nat, NEW y
    PROVE  LET t == Joined(s, ln, y, ly) IN
           /\ DOMAIN t = 1 .. ln + ly
           /\ \A n \in 1 .. ln + ly :
                 (n \in 1 .. ln /\ t[n] = s[n]) \/ (n - ln \in 1 .. ly /\ t[n] = y[n - ln])
<1> DEFINE t == Joined(s, ln, y, ly)
<1>1. DOMAIN t = 1 .. ln + ly /\ \A i \in 1 .. ln + ly : t[i] = IF i <= ln THEN s[i] ELSE y[i - ln]
  BY DEF Joined
<1> HIDE DEF t
<1>2. \A i \in 1 .. ln + ly : (i \in 1 .. ln /\ t[i] = s[i]) \/ (i - ln \in 1 .. ly /\ t[i] = y[i - ln])
  BY <1>1
<1>3. QED
  BY <1>1, <1>2 DEF t

(* An answer, or a keepalive, follows where no part of an answer was. *)
LEMMA FlowsOn ==
    ASSUME NEW ln \in Nat, NEW s, DOMAIN s = 1 .. ln, \A n \in 1 .. ln : ~Part(s[n]) /\ ~GoesOn(s[n]),
           NEW ly \in Nat, NEW y, DOMAIN y = 1 .. ly, Rising(y), Whole(y, {}), NEW seqs
    PROVE  LET t == Joined(s, ln, y, ly) IN Rising(t) /\ Whole(t, seqs)
<1> DEFINE t == Joined(s, ln, y, ly)
<1>1. /\ DOMAIN t = 1 .. ln + ly
      /\ \A i \in 1 .. ln + ly :
            (i \in 1 .. ln /\ t[i] = s[i]) \/ (i - ln \in 1 .. ly /\ t[i] = y[i - ln])
  BY JoinedEach
<1>2. \A m \in 1 .. ly : ln + m \in 1 .. ln + ly /\ t[ln + m] = y[m]
  <2> SUFFICES ASSUME NEW m \in 1 .. ly PROVE ln + m \in 1 .. ln + ly /\ t[ln + m] = y[m]
    OBVIOUS
  <2>1. ln + m \in 1 .. ln + ly /\ ~(ln + m <= ln) /\ (ln + m) - ln = m
    OBVIOUS
  <2>2. QED
    BY <2>1 DEF Joined
<1> HIDE DEF t
<1>3. Rising(t)
  <2>1. SUFFICES ASSUME NEW a \in 1 .. ln + ly, NEW b \in 1 .. ln + ly, a < b, Part(t[a]), t[b].of # 0
                 PROVE  /\ GoesOn(t[b]) /\ NextSeq(t[a]) <= t[b].rep.val
                        /\ Starts(t[a]) => Offset(t[b].rep.val) < t[a].rep.len
    BY <1>1 DEF Rising
  <2>2. a - ln \in 1 .. ly /\ t[a] = y[a - ln]
    BY <1>1, <2>1
  <2>3. b - ln \in 1 .. ly /\ t[b] = y[b - ln] /\ a - ln < b - ln
    BY <1>1, <2>1, <2>2
  <2>4. QED
    BY <2>1, <2>2, <2>3 DEF Rising
<1>4. Whole(t, seqs)
  <2>1. SUFFICES ASSUME NEW n \in 1 .. ln + ly, GoesOn(t[n])
                 PROVE  \E m \in 1 .. n - 1 : Part(t[m]) /\ t[n].rep.val = NextSeq(t[m])
    BY <1>1 DEF Whole
  <2>2. n - ln \in 1 .. ly /\ t[n] = y[n - ln]
    BY <1>1, <2>1
  <2>3. PICK m \in 1 .. n - ln - 1 : Part(y[m]) /\ t[n].rep.val = NextSeq(y[m])
    BY <2>1, <2>2 DEF Whole
  <2>4. m \in 1 .. ly /\ ln + m \in 1 .. n - 1
    BY <2>2, <2>3
  <2>5. QED
    BY <1>2, <2>3, <2>4
<1>5. QED
  BY <1>3, <1>4 DEF t

(* The packets of a message. *)
LEMMA SplitFlows ==
    ASSUME NEW c \in Channels, NEW id \in Nat \ {0}, NEW cmd \in Numbers \ {CmdKeepalive},
           NEW data \in Seq(Nat), Len(data) <= MaxMessage,
           NEW y, Labelled(y, Split(c, cmd, data).packets, id)
    PROVE  /\ Len(Split(c, cmd, data).packets) \in Nat
           /\ DOMAIN y = 1 .. Len(Split(c, cmd, data).packets)
           /\ Rising(y) /\ Whole(y, {})
           /\ \A n \in DOMAIN y :
                /\ y[n].of = id /\ y[n].rep.ch = c /\ y[n].rep.size = ReportSize
                /\ Starts(y[n]) => y[n].rep.len = Len(data)
<1> DEFINE m == Packets(Len(data))
           reports == Split(c, cmd, data).packets
<1>1. Len(data) \in Nat /\ m \in Nat \ {0}
  BY PacketCount
<1>2. reports = [i \in 1 .. m |-> Packet(c, cmd, data, i)]
  BY <1>1, SizesNat DEF Split, TooLong
<1> HIDE DEF reports
<1>3. Len(reports) = m /\ \A i \in 1 .. m : reports[i] = Packet(c, cmd, data, i)
  BY <1>1, <1>2
<1>4. DOMAIN y = 1 .. m /\ \A n \in 1 .. m : y[n].rep = Packet(c, cmd, data, n) /\ y[n].of = id
  BY <1>3 DEF Labelled, reports
<1>5. ASSUME NEW n \in 1 .. m
      PROVE  /\ y[n].rep.ch = c /\ y[n].rep.size = ReportSize /\ Part(y[n])
             /\ n = 1 => Starts(y[n]) /\ ~GoesOn(y[n]) /\ y[n].rep.len = Len(data) /\ NextSeq(y[n]) = 0
             /\ n # 1 =>
                  /\ GoesOn(y[n]) /\ ~Starts(y[n]) /\ y[n].rep.val = n - 2 /\ NextSeq(y[n]) = n - 1
                  /\ Offset(n - 2) < Len(data)
  <2>1. PICK p, ch : p = y[n].rep /\ p = Packet(ch, cmd, data, n) /\ ch = c /\ ch \in Channels \cup {OtherChannel}
    BY <1>4
  <2>2. /\ p.ch = ch /\ p.size = ReportSize
        /\ n = 1 => p = InitPacket(ch, cmd, data) /\ p.init
        /\ n # 1 => p = ContPacket(ch, data, n - 2) /\ ~p.init /\ n - 2 \in Numbers
    BY <2>1, PacketShape
  <2>3. CASE n = 1
    <3>1. p.val = cmd /\ p.len = Len(data)
      BY <2>2, <2>3, InitPacketFields
    <3>2. QED
      BY <1>4, <2>1, <2>2, <2>3, <3>1 DEF Part, Starts, Begins, GoesOn, NextSeq
  <2>4. CASE n # 1
    <3>1. PICK seq \in Numbers : seq = n - 2
      BY <2>2, <2>4
    <3>2. p.val = seq /\ seq \in Nat
      BY <2>2, <2>4, <3>1, ContPacketFields DEF Numbers
    <3>3. seq < Continuations(Len(data))
      BY <1>1, <2>4, <3>1, ContinuationsLeast DEF Packets
    <3>4. Offset(seq) < Len(data)
      BY <1>1, <3>2, <3>3, ContinuationsLeast
    <3>5. p.val + 1 = n - 1
      BY <3>1, <3>2
    <3>6. QED
      BY <1>4, <2>1, <2>2, <2>4, <3>1, <3>2, <3>4, <3>5 DEF Part, Starts, Begins, GoesOn, NextSeq
  <2>5. QED
    BY <2>3, <2>4
<1> HIDE DEF m
<1>6. Rising(y)
  <2>1. SUFFICES ASSUME NEW a \in 1 .. m, NEW b \in 1 .. m, a < b
                 PROVE  /\ GoesOn(y[b]) /\ NextSeq(y[a]) <= y[b].rep.val
                        /\ Starts(y[a]) => Offset(y[b].rep.val) < y[a].rep.len
    BY <1>4 DEF Rising
  <2>2. b # 1 /\ a - 1 <= b - 2 /\ 0 <= b - 2
    BY <1>1, <2>1
  <2>3. CASE a = 1
    BY <1>5, <2>2, <2>3
  <2>4. CASE a # 1
    BY <1>5, <2>2, <2>4
  <2>5. QED
    BY <2>3, <2>4
<1>7. Whole(y, {})
  <2>1. SUFFICES ASSUME NEW n \in 1 .. m, GoesOn(y[n])
                 PROVE  \E i \in 1 .. n - 1 : Part(y[i]) /\ y[n].rep.val = NextSeq(y[i])
    BY <1>4 DEF Whole
  <2>2. n # 1
    BY <1>5, <2>1
  <2>3. n - 1 \in 1 .. n - 1 /\ n - 1 \in 1 .. m /\ y[n].rep.val = n - 2
    BY <1>1, <1>5, <2>2
  <2>4. Part(y[n - 1]) /\ NextSeq(y[n - 1]) = n - 2
    <3>1. CASE n - 1 = 1
      BY <1>5, <2>3, <3>1
    <3>2. CASE n - 1 # 1
      <4>1. PICK i \in 1 .. m : i = n - 1 /\ i - 1 = n - 2
        BY <2>3
      <4>2. QED
        BY <1>5, <3>2, <4>1
    <3>3. QED
      BY <3>1, <3>2
  <2>5. QED
    BY <2>3, <2>4
<1>8. \A n \in DOMAIN y : Starts(y[n]) => y[n].rep.len = Len(data)
  BY <1>4, <1>5
<1>9. QED
  BY <1>1, <1>3, <1>4, <1>5, <1>6, <1>7, <1>8 DEF reports

----------------------------------------------------------------------------
(* Nothing of this Key is on its way. *)
Clear ==
    /\ work = << >>
    /\ \A n \in DOMAIN Stream : Stream[n].rep.size = ReportSize /\ Stream[n].of = 0 /\ ~GoesOn(Stream[n])

EchoInv == AInv /\ Echoed

LEMMA ClearFlows ==
    ASSUME given' \in {0, KeyChannel}, Clear', pc' # "recv" \/ ~rc'.started
    PROVE  Flowing'
<1>1. (\A i \in DOMAIN work : CallsWork(work[i]))'
  BY DEF Clear
<1>2. (\A n \in DOMAIN Stream : OfCall(Stream[n]) /\ ~Part(Stream[n]))'
  BY DEF Clear, OfCall, Part
<1>3. (Rising(Stream) /\ Whole(Stream, Expected))'
  BY <1>2 DEF Rising, Whole, Clear
<1>4. QED
  BY <1>1, <1>2, <1>3 DEF Flowing

LEMMA IdleClear == ASSUME AInv, Flowing, pc = "idle" PROVE Clear
<1>1. work = << >>
  <2>1. work \in Seq(Request) /\ \A i \in DOMAIN work : FALSE
    BY DEF AInv, Answers, Working, Flowing, CallsWork
  <2>2. work # << >> => 1 \in DOMAIN work
    BY <2>1
  <2>3. QED
    BY <2>1, <2>2
<1>2. ASSUME NEW n \in DOMAIN Stream
      PROVE  Stream[n].rep.size = ReportSize /\ Stream[n].of = 0 /\ ~GoesOn(Stream[n])
  <2>1. Stream[n].rep.size = ReportSize /\ Stream[n].of = 0
    BY DEF Flowing, OfCall
  <2>2. n \in 1 .. Len(inbox) + Len(pending) /\ (GoesOn(Stream[n]) => Stream[n].of # 0)
    BY StreamGhosts DEF Ghosts, AInv, Answers
  <2>3. QED
    BY <2>1, <2>2
<1>3. QED
  BY <1>1, <1>2 DEF Clear

(* A call that sends nothing, or sends its first packet later. *)
LEMMA EchoesIdle ==
    ASSUME AInv, Echoed, pc = "idle", st # "failed", st' # "failed",
           UNCHANGED <<inbox, pending, given, work>>,
           \/ pc' = "send"
           \/ pc' = "idle" /\ UNCHANGED <<last, call>>
           \/ pc' = "idle" /\ last'.op # "Ping"
           \/ pc' = "idle" /\ last'.err # "none"
    PROVE  Echoed'
<1>1. Flowing /\ Clear
  BY IdleClear DEF Echoed
<1>2. Flowing'
  BY <1>1, ClearFlows DEF Flowing, Clear, Stream
<1>3. PingEchoes'
  BY DEF Echoed, PingEchoes
<1>4. QED
  BY <1>2, <1>3 DEF Echoed

LEMMA RoundTripEchoes ==
    ASSUME AInv, Echoed, pc = "idle", st # "failed", NEW op, NEW cmd, NEW data, RoundTrip(op, cmd, data)
    PROVE  Echoed'
<1>1. CASE Rejected(op, "ErrTooLong")
  <2>1. /\ pc' = "idle" /\ st' # "failed" /\ UNCHANGED <<inbox, pending, given, work>>
        /\ last'.err # "none"
    BY <1>1 DEF Rejected, Result, NotSending, device
  <2>2. QED
    BY <2>1, EchoesIdle
<1>2. CASE Panics
  <2>1. pc' = "idle" /\ st' # "failed" /\ UNCHANGED <<inbox, pending, given, work>> /\ UNCHANGED <<last, call>>
    BY <1>2 DEF Panics, NotSending, device
  <2>2. QED
    BY <2>1, EchoesIdle
<1>3. CASE ~TooLong(data) /\ ~Gone
  <2>1. pc' = "send" /\ st' # "failed" /\ UNCHANGED <<inbox, pending, given, work>>
    BY <1>3 DEF RoundTrip, NotSending, device
  <2>2. QED
    BY <2>1, EchoesIdle
<1>4. QED
  BY <1>1, <1>2, <1>3 DEF RoundTrip

LEMMA CallEchoes ==
    ASSUME AInv, Echoed, ~Unreliable, Open \/ Ping \/ Wink \/ GetInfo \/ Close
    PROVE  Echoed'
<1>1. pc = "idle" /\ st # "failed"
  BY DEF Open, Ping, Wink, GetInfo, Close, HasKey
<1>2. CASE \E op : Incapable(op)
  <2>1. PICK op : Incapable(op)
    BY <1>2
  <2>2. CASE Panics
    <3>1. pc' = "idle" /\ st' # "failed" /\ UNCHANGED <<inbox, pending, given, work>> /\ UNCHANGED <<last, call>>
      BY <1>1, <2>2 DEF Panics, NotSending, device
    <3>2. QED
      BY <1>1, <3>1, EchoesIdle
  <2>3. CASE Rejected(op, "incapable")
    <3>1. /\ pc' = "idle" /\ st' # "failed" /\ UNCHANGED <<inbox, pending, given, work>>
          /\ last'.err # "none"
      BY <1>1, <2>3 DEF Rejected, Result, NotSending, device
    <3>2. QED
      BY <1>1, <3>1, EchoesIdle
  <2>4. QED
    BY <2>1, <2>2, <2>3 DEF Incapable
<1>3. CASE Close
  <2>1. pc' = "idle" /\ st' # "failed" /\ UNCHANGED <<inbox, pending, given, work>> /\ last'.op # "Ping"
    BY <1>1, <1>3 DEF Close, Result, NotSending, device
  <2>2. QED
    BY <1>1, <2>1, EchoesIdle
<1>4. CASE \E op, cmd, data : RoundTrip(op, cmd, data)
  BY <1>1, <1>4, RoundTripEchoes
<1>5. QED
  BY <1>2, <1>3, <1>4 DEF Open, Ping, Wink, GetInfo

----------------------------------------------------------------------------
(* What a report read next is. *)
LEMMA NextRead ==
    ASSUME AInv, Flowing, pc = "recv", inbox # << >>
    PROVE  LET r == Head(inbox) IN
           /\ r = Stream[1] /\ OfCall(r) /\ (Part(r) => work = << >>)
           /\ r.of # 0 => Takes(rc, r.rep)
           /\ Takes(rc, r.rep) /\ r.of = 0 => call.op = "Open"
           /\ r.of # 0 /\ ~Part(r) =>
                /\ r.rep.init /\ r.rep.val = CmdKeepalive /\ ~rc.started
                /\ r.rep.len <= initPayload /\ Len(r.rep.body) = initPayload
           /\ Starts(r) /\ r.of # 0 => ~rc.started
           /\ GoesOn(r) => rc.started /\ r.rep.val = rc.seq
<1> DEFINE r == Head(inbox)
<1>1. /\ TypeOK /\ Coming /\ Reading /\ Opened
      /\ r = Stream[1] /\ 1 \in DOMAIN Stream /\ r.rep \in Report /\ r.of \in 0 .. Len(sent)
      /\ Sound(r, sent, given) /\ (GoesOn(r) => r.of # 0)
  BY HeadRead DEF AInv, Answers
<1>2. OfCall(r) /\ (Part(r) => work = << >>)
  BY <1>1 DEF Flowing
<1> HIDE DEF r
<1>3. rc.channel = k.channel /\ r.rep.size = ReportSize /\ ReportSize >= initHeader /\ ReportSize >= contHeader
  BY <1>1, <1>2, FramingAssumption DEF Reading, OfCall, initHeader, contHeader
<1>4. r.of # 0 => r.rep.ch = rc.channel
  BY <1>2, <1>3 DEF OfCall
<1>5. ASSUME GoesOn(r) PROVE rc.started /\ r.rep.val = rc.seq
  <2>1. r.rep.val \in Expected
    <3>1. \A m \in 1 .. 1 - 1 : FALSE
      OBVIOUS
    <3>2. QED
      BY <1>1, <1>5, <3>1 DEF Flowing, Whole
  <2>2. QED
    BY <2>1 DEF Expected
<1>6. ASSUME r.of # 0, rc.started PROVE GoesOn(r)
  BY <1>1, <1>6 DEF Flowing, Due
<1>7. ASSUME r.of # 0, ~Part(r)
      PROVE  /\ r.rep.init /\ r.rep.val = CmdKeepalive /\ ~rc.started
             /\ r.rep.len <= initPayload /\ Len(r.rep.body) = initPayload
  <2>1. Begins(r) /\ r.rep.val = CmdKeepalive /\ ~GoesOn(r)
    BY <1>3, <1>7 DEF Part, Starts, Begins, GoesOn
  <2>2. QED
    BY <1>1, <1>6, <1>7, <2>1 DEF Sound, Begins
<1>8. Starts(r) /\ r.of # 0 => ~rc.started
  BY <1>6 DEF Starts, Begins, GoesOn
<1>9. r.of # 0 => Takes(rc, r.rep)
  <2>1. CASE r.rep.init
    BY <1>3, <1>4, <2>1 DEF Takes
  <2>2. CASE ~r.rep.init
    BY <1>3, <1>4, <1>5, <2>2 DEF Takes, GoesOn
  <2>3. QED
    BY <2>1, <2>2
<1>10. ASSUME Takes(rc, r.rep), r.of = 0 PROVE call.op = "Open"
  <2> SUFFICES ASSUME call.op # "Open" PROVE FALSE
    OBVIOUS
  <2>1. st = "open"
    BY DEF AInv, IInv, Phases
  <2>2. k.channel = given /\ given # 0 /\ given \in {0, KeyChannel}
    BY <1>1, <2>1 DEF Opened, OwnChannel, Flowing
  <2>3. r.rep.ch = KeyChannel
    BY <1>3, <1>10, <2>2 DEF Takes
  <2>4. r.rep \in Foreign
    BY <1>1, <1>10 DEF Sound
  <2>5. r.rep.ch \in {OtherChannel, BroadcastChannel}
    BY <2>4 DEF Foreign, InitPacket
  <2>6. QED
    BY <2>3, <2>5, SessionAssumption DEF KeyChannel, OtherChannel
<1>11. QED
  BY <1>1, <1>2, <1>5, <1>7, <1>8, <1>9, <1>10 DEF r

(* A part of the answer is taken. *)
LEMMA PartTaken ==
    ASSUME AInv, Flowing, pc = "recv", inbox # << >>, Part(Head(inbox))
    PROVE  LET h == Taken(rc, Head(inbox).rep) IN
           /\ Rising(ReadAll) /\ Whole(ReadAll, {h.seq}) /\ Due(ReadAll, h)
           /\ call.op = "Ping" => h.want = Len(call.data)
<1> DEFINE r == Head(inbox)
           h == Taken(rc, r.rep)
           ln == Len(inbox) + Len(pending)
<1>1. /\ r = Stream[1] /\ OfCall(r)
      /\ Starts(r) => ~rc.started
      /\ GoesOn(r) => rc.started /\ r.rep.val = rc.seq
  BY NextRead DEF Part
<1>2. /\ ln \in Nat \ {0} /\ DOMAIN Stream = 1 .. ln /\ r.rep \in Report
      /\ \A n \in 1 .. ln : Stream[n].rep \in Report /\ (GoesOn(Stream[n]) => Stream[n].of # 0)
  BY HeadRead, StreamGhosts DEF AInv, Answers, Ghosts
<1>3. /\ r.rep.init => h.seq = 0 /\ h.want = r.rep.len
      /\ ~r.rep.init => h.seq = rc.seq + 1 /\ h.want = rc.want
  BY DEF Taken, Fields
<1>4. Rising(Stream) /\ Whole(Stream, Expected)
  BY DEF Flowing
<1>5. rc.started =>
        /\ Due(Stream, rc)
        /\ call.op = "Ping" => rc.want = Len(call.data)
  BY DEF Flowing
<1> HIDE DEF r, h, ln
<1>6. Part(r) /\ r.of # 0 /\ (Starts(r) => r.rep.init) /\ (GoesOn(r) => ~r.rep.init)
  BY DEF Part, Starts, Begins, GoesOn, r
<1>7. h.seq = NextSeq(r)
  BY <1>1, <1>3, <1>6 DEF NextSeq, Part
<1>8. \A v \in Expected : v \in Int /\ v < NextSeq(r)
  <2>1. CASE GoesOn(r)
    <3>1. \A v \in Expected : v = r.rep.val
      BY <1>1, <2>1 DEF Expected
    <3>2. NextSeq(r) = r.rep.val + 1 /\ r.rep.val \in Int
      BY <1>2, <1>6, <2>1 DEF NextSeq, Report
    <3>3. QED
      BY <3>1, <3>2
  <2>2. CASE Starts(r)
    BY <1>1, <2>2 DEF Expected
  <2>3. QED
    BY <1>6, <2>1, <2>2 DEF Part
<1>9. Rising(ReadAll)
  BY <1>2, <1>4, RisingRest DEF ReadAll, ln
<1>10. Whole(ReadAll, {h.seq})
  <2>1. Whole(Rest(Stream, ln), {NextSeq(Stream[1])})
    BY <1>1, <1>2, <1>4, <1>6, <1>8, WholeRead
  <2>2. QED
    BY <1>1, <1>7, <2>1 DEF ReadAll, ln
<1>11. Due(ReadAll, h)
  <2>1. Starts(r) => h.want = r.rep.len
    BY <1>3, <1>6
  <2>2. GoesOn(r) => Due(Stream, rc) /\ h.want = rc.want
    BY <1>1, <1>3, <1>5, <1>6
  <2>3. Due(Rest(Stream, ln), h)
    BY <1>1, <1>2, <1>4, <1>6, <1>7, <2>1, <2>2, DueRead
  <2>4. QED
    BY <2>3 DEF ReadAll, ln
<1>12. ASSUME call.op = "Ping" PROVE h.want = Len(call.data)
  <2>1. CASE Starts(r)
    BY <1>1, <1>3, <1>6, <1>12, <2>1 DEF OfCall
  <2>2. CASE GoesOn(r)
    BY <1>1, <1>3, <1>5, <1>6, <1>12, <2>2
  <2>3. QED
    BY <1>6, <2>1, <2>2 DEF Part
<1>13. QED
  BY <1>9, <1>10, <1>11, <1>12 DEF h, r

(* Whatever is behind the report that is read. *)
LEMMA BehindRead ==
    ASSUME AInv, Flowing, pc = "recv", inbox # << >>
    PROVE  \A n \in DOMAIN ReadAll :
              /\ ReadAll[n].rep \in Report /\ OfCall(ReadAll[n])
              /\ Part(ReadAll[n]) => work = << >>
              /\ GoesOn(ReadAll[n]) => ReadAll[n].of # 0
<1> DEFINE ln == Len(inbox) + Len(pending)
<1>1. /\ ln \in Nat \ {0} /\ DOMAIN Stream = 1 .. ln
      /\ \A n \in 1 .. ln : Stream[n].rep \in Report /\ (GoesOn(Stream[n]) => Stream[n].of # 0)
  BY HeadRead, StreamGhosts DEF AInv, Answers, Ghosts
<1>2. \A n \in DOMAIN ReadAll : n + 1 \in 1 .. ln /\ ReadAll[n] = Stream[n + 1]
  BY <1>1 DEF ReadAll, Rest
<1> HIDE DEF ln
<1>3. QED
  BY <1>1, <1>2 DEF Flowing

(* A whole answer was read: that was all of it. *)
LEMMA ReadsAll ==
    ASSUME AInv, Flowing, Reads, Head(inbox).of # 0
    PROVE  /\ Clear' /\ given' = given
           /\ call.op = "Ping" => Taken(rc, Head(inbox).rep).want = Len(call.data)
<1> DEFINE r == Head(inbox)
           h == Taken(rc, r.rep)
<1>2. pc = "recv" /\ inbox # << >> /\ work' = work /\ given' = given
  BY DEF Reads, Receive, device
<1>3. /\ Hears(r, h) /\ h \in Assembling(Channels) /\ h.cmd # CmdKeepalive /\ ~Short(h)
  BY ReadsWhole DEF AInv, Answers
<1>4. Part(r) /\ work = << >>
  <2>1. r.of # 0 /\ ~Part(r) => r.rep.init /\ r.rep.val = CmdKeepalive
    BY <1>2, NextRead
  <2>2. r.rep.init => h.cmd = r.rep.val
    BY DEF Taken, Fields
  <2>3. Part(r)
    BY <1>3, <2>1, <2>2
  <2>4. QED
    BY <1>2, <2>3, NextRead
<1>5. Due(ReadAll, h) /\ (call.op = "Ping" => h.want = Len(call.data))
  BY <1>2, <1>4, PartTaken
<1>6. Len(h.data) = Offset(h.seq)
  BY <1>3 DEF Hears, Counted
<1> HIDE DEF h
<1>7. ASSUME NEW n \in DOMAIN ReadAll
      PROVE  ReadAll[n].rep.size = ReportSize /\ ReadAll[n].of = 0 /\ ~GoesOn(ReadAll[n])
  <2>1. ReadAll[n].rep \in Report /\ OfCall(ReadAll[n]) /\ (GoesOn(ReadAll[n]) => ReadAll[n].of # 0)
    BY <1>2, BehindRead
  <2>2. ReadAll[n].of = 0
    BY <1>3, <1>5, <1>6, <2>1, NothingDue
  <2>3. QED
    BY <2>1, <2>2 DEF OfCall
<1>8. Stream' = ReadAll
  <2>1. Flow(Tail(inbox), pending) = ReadAll
    BY <1>2, HeadRead DEF AInv, Answers
  <2>2. inbox' = Tail(inbox) /\ pending' = pending
    BY DEF Reads, Receive, device
  <2>3. QED
    BY <2>1, <2>2 DEF Stream
<1>9. Clear'
  BY <1>2, <1>4, <1>7, <1>8 DEF Clear
<1>10. QED
  BY <1>2, <1>5, <1>9 DEF h, r

----------------------------------------------------------------------------
(* roundTrip goes on with what is left. *)
LEMMA WaitingFlows ==
    ASSUME AInv, Flowing, KeepsWaiting, Rising(ReadAll),
           Whole(ReadAll, IF rc'.started THEN {rc'.seq} ELSE {}),
           rc'.started => /\ work = << >> /\ Due(ReadAll, rc')
                          /\ call.op = "Ping" => rc'.want = Len(call.data)
    PROVE  Flowing'
<1>1. /\ pc = "recv" /\ inbox # << >> /\ Receive
      /\ UNCHANGED <<pc, k, call, sent, work, given, consumed>>
  BY DEF KeepsWaiting, Receive, device
<1>2. Stream' = ReadAll
  BY <1>1, ReadOn DEF AInv, Answers
<1>3. Expected' = IF rc'.started THEN {rc'.seq} ELSE {}
  BY <1>1 DEF Expected
<1>4. \A n \in DOMAIN ReadAll : OfCall(ReadAll[n]) /\ (Part(ReadAll[n]) => work = << >>)
  BY <1>1, BehindRead
<1>5. (\A n \in DOMAIN Stream : OfCall(Stream[n]) /\ (Part(Stream[n]) => work = << >>))'
  BY <1>1, <1>2, <1>4 DEF OfCall
<1>6. (\A i \in DOMAIN work : CallsWork(work[i]))'
  BY <1>1 DEF Flowing, CallsWork
<1>7. given' \in {0, KeyChannel}
  BY <1>1 DEF Flowing
<1>8. (Rising(Stream) /\ Whole(Stream, Expected))'
  BY <1>2, <1>3
<1>9. (pc = "recv" /\ rc.started =>
         /\ work = << >> /\ Due(Stream, rc)
         /\ call.op = "Ping" => rc.want = Len(call.data))'
  BY <1>1, <1>2
<1>10. QED
  BY <1>5, <1>6, <1>7, <1>8, <1>9 DEF Flowing

(* Another program's report, a part of the answer, or a keepalive. *)
LEMMA KeepsWaitingEchoes == ASSUME AInv, Echoed, KeepsWaiting PROVE Echoed'
<1> DEFINE r == Head(inbox)
           h == Taken(rc, r.rep)
           ln == Len(inbox) + Len(pending)
<1>1. /\ Receive /\ Skips /\ pc = "recv" /\ inbox # << >> /\ rc' = Fed.rc
      /\ UNCHANGED <<st, pc, last, call>>
  BY DEF KeepsWaiting, Receive
<1>2. st # "failed" /\ Flowing
  BY <1>1 DEF AInv, IInv, Phases, Echoed
<1>3. /\ r = Stream[1] /\ OfCall(r) /\ (Part(r) => work = << >>)
      /\ r.of # 0 => Takes(rc, r.rep)
      /\ r.of # 0 /\ ~Part(r) => /\ r.rep.init /\ r.rep.val = CmdKeepalive /\ ~rc.started
                                 /\ r.rep.len <= initPayload /\ Len(r.rep.body) = initPayload
  BY <1>1, <1>2, NextRead
<1>4. /\ ln \in Nat \ {0} /\ DOMAIN Stream = 1 .. ln /\ r.rep \in Report
      /\ \A n \in 1 .. ln : Stream[n].rep \in Report /\ (GoesOn(Stream[n]) => Stream[n].of # 0)
  BY <1>1, HeadRead, StreamGhosts DEF AInv, Answers, Ghosts
<1>5. Rising(Stream) /\ Whole(Stream, Expected) /\ Expected = IF rc.started THEN {rc.seq} ELSE {}
  BY <1>1, <1>2 DEF Flowing, Expected
<1>6. rc.started => /\ work = << >> /\ Due(Stream, rc)
                    /\ call.op = "Ping" => rc.want = Len(call.data)
  BY <1>1, <1>2 DEF Flowing
<1>7. Rising(ReadAll)
  BY <1>4, <1>5, RisingRest DEF ReadAll
<1>8. ~Part(r) => Whole(ReadAll, Expected)
  BY <1>3, <1>4, <1>5, WholeRest DEF ReadAll
<1>9. rc.started => Due(ReadAll, rc)
  BY <1>4, <1>6, DueRest DEF ReadAll
<1>10. Takes(rc, r.rep) =>
         /\ Hears(r, h) /\ h \in Assembling(Channels) /\ h.started
         /\ Fed = Finish(h)
  BY <1>1, Heard DEF AInv, Answers
<1>11. Takes(rc, r.rep) => (Short(h) => rc' = h) /\ (~Short(h) => ~rc'.started /\ Fed.done /\ Fed.msg.cmd = h.cmd)
  BY <1>1, <1>10, FinishType
<1>12. r.rep.init => h.cmd = r.rep.val /\ h.want = r.rep.len /\ h.data = r.rep.body
  BY DEF Taken, Fields
<1>13. Part(r) => /\ Whole(ReadAll, {h.seq}) /\ Due(ReadAll, h)
                  /\ call.op = "Ping" => h.want = Len(call.data)
  BY <1>1, <1>2, PartTaken
<1>14. \A n \in DOMAIN ReadAll : ReadAll[n].rep \in Report /\ (GoesOn(ReadAll[n]) => ReadAll[n].of # 0)
  BY <1>1, <1>2, BehindRead
<1> HIDE DEF h
<1>15. Flowing'
  <2>1. CASE ~Takes(rc, r.rep)
    <3>1. rc' = rc
      BY <1>1, <1>4, <2>1, FeedRefuses DEF Fed
    <3>2. r.of = 0 /\ ~Part(r)
      BY <1>3, <2>1 DEF Part
    <3> HIDE DEF r, ln
    <3>3. QED
      BY <1>2, <1>5, <1>6, <1>7, <1>8, <1>9, <3>1, <3>2, WaitingFlows
  <2>2. CASE Takes(rc, r.rep) /\ ~Part(r)
    <3>1. r.of # 0
      <4>1. SUFFICES ASSUME r.of = 0 PROVE FALSE
        OBVIOUS
      <4>2. h.cmd = CmdInit /\ ~Short(h)
        BY <1>10, <2>2, <4>1 DEF Hears
      <4>3. Fed.err = "none" /\ Fed.done /\ Fed.msg.cmd = CmdInit
        BY <1>10, <1>11, <2>2, <4>2, FinishType
      <4>4. QED
        BY <1>1, <4>3 DEF Skips, CmdInit, CmdKeepalive
    <3>2. ~Short(h)
      <4>1. h.want <= initPayload /\ Len(h.data) = initPayload /\ h.want \in Nat /\ initPayload \in Nat
        BY <1>3, <1>4, <1>12, <2>2, <3>1, SizesNat DEF Report
      <4>2. QED
        BY <4>1 DEF Short
    <3>3. ~rc'.started /\ ~rc.started
      BY <1>3, <1>11, <2>2, <3>1, <3>2
    <3> HIDE DEF r, ln
    <3>4. QED
      BY <1>2, <1>5, <1>7, <1>8, <2>2, <3>3, WaitingFlows
  <2>3. CASE Part(r)
    <3>1. Takes(rc, r.rep) /\ work = << >> /\ r.of # 0
      BY <1>3, <2>3 DEF Part
    <3>2. CASE Short(h)
      <4>1. rc' = h /\ rc'.started
        BY <1>10, <1>11, <3>1, <3>2
      <4> HIDE DEF r, ln
      <4>2. QED
        BY <1>2, <1>7, <1>13, <2>3, <3>1, <4>1, WaitingFlows
    <3>3. CASE ~Short(h)
      <4>1. ~rc'.started
        BY <1>11, <3>1, <3>3
      <4>2. \A n \in DOMAIN ReadAll : ~GoesOn(ReadAll[n])
        <5>1. Len(h.data) = Offset(h.seq) /\ h \in Assembling(Channels) /\ Due(ReadAll, h)
          BY <1>10, <1>13, <2>3, <3>1 DEF Hears, Counted
        <5>2. ASSUME NEW n \in DOMAIN ReadAll PROVE ReadAll[n].of = 0
          BY <1>14, <3>3, <5>1, NothingDue
        <5>3. QED
          BY <1>14, <5>2
      <4>3. Whole(ReadAll, {})
        BY <4>2 DEF Whole
      <4> HIDE DEF r, ln
      <4>4. QED
        BY <1>2, <1>7, <4>1, <4>3, WaitingFlows
    <3>4. QED
      BY <3>2, <3>3
  <2>4. QED
    BY <2>1, <2>2, <2>3
<1>16. PingEchoes' /\ st' # "failed"
  BY <1>1, <1>2 DEF PingEchoes
<1>17. QED
  BY <1>15, <1>16 DEF Echoed

(* With such a device there is no bad report. *)
LEMMA NoBadReport == ASSUME AInv, Echoed, BadReport PROVE FALSE
<1> DEFINE r == Head(inbox)
<1>1. Receive /\ pc = "recv" /\ inbox # << >> /\ Fed.err # "none" /\ Fed.err # "ErrWrongChannel"
  BY DEF BadReport, Receive, Skips
<1>2. Flowing
  BY <1>1 DEF AInv, IInv, Phases, Echoed
<1>3. OfCall(r) /\ (r.of # 0 => Takes(rc, r.rep)) /\ r.rep \in Report
  <2>1. OfCall(r) /\ (r.of # 0 => Takes(rc, r.rep))
    BY <1>1, <1>2, NextRead
  <2>2. r.rep \in Report
    BY <1>1, HeadRead DEF AInv, Answers
  <2>3. QED
    BY <2>1, <2>2
<1>4. ~Takes(rc, r.rep)
  <2> SUFFICES ASSUME Takes(rc, r.rep) PROVE FALSE
    OBVIOUS
  <2>1. PICK h : h \in Assembling(Channels) /\ h.started /\ Fed = Finish(h)
    BY <1>1, Heard DEF AInv, Answers
  <2>2. QED
    BY <1>1, <2>1, FinishType
<1>5. r.of = 0 /\ r.rep.size = ReportSize
  BY <1>3, <1>4 DEF OfCall
<1>6. r.rep.size < contHeader \/ r.rep.ch = rc.channel
  BY <1>1, <1>3, <1>4, FeedRefuses DEF Fed
<1>7. ReportSize >= initHeader /\ ReportSize >= contHeader /\ ReportSize \in Int
  BY FramingAssumption DEF initHeader, contHeader
<1>8. ~r.rep.init
  BY <1>4, <1>5, <1>6, <1>7 DEF Takes, contHeader
<1>9. r.of # 0
  BY <1>1, <1>8, HeadRead DEF AInv, Answers, GoesOn
<1>10. QED
  BY <1>5, <1>9

----------------------------------------------------------------------------
(* Only Open can take a whole message that is no answer to it. *)
LEMMA ReadsOwn ==
    ASSUME AInv, Echoed, Reads
    PROVE  /\ pc = "recv" /\ st # "failed" /\ Flowing /\ call' = call
           /\ Head(inbox).of = 0 => call.op = "Open"
<1>1. Receive /\ pc = "recv" /\ inbox # << >> /\ Fed.done /\ call' = call
  BY DEF Reads, Receive
<1>2. st # "failed" /\ Flowing
  BY <1>1 DEF AInv, IInv, Phases, Echoed
<1>3. Head(inbox).rep \in Report
  BY <1>1, HeadRead DEF AInv, Answers
<1>4. Takes(rc, Head(inbox).rep)
  BY <1>1, <1>3, FeedRefuses DEF Fed
<1>5. QED
  BY <1>1, <1>2, <1>4, NextRead

LEMMA FailsEchoes ==
    ASSUME AInv, Echoed, Reads, NEW err, err # "none", Fails(err)
    PROVE  Echoed'
<1>1. pc = "recv" /\ st # "failed" /\ Flowing /\ (Head(inbox).of = 0 => call.op = "Open")
  BY ReadsOwn
<1>2. /\ pc' = "idle" /\ last'.op = call.op /\ last'.err = err
      /\ IF call.op = "Open" THEN st' = "failed" ELSE st' = st
  BY DEF Fails, Ends, GivesBack, Result
<1>3. PingEchoes' /\ (st' = "failed" => last'.op = "Open")
  BY <1>1, <1>2 DEF PingEchoes
<1>4. ASSUME st' # "failed" PROVE Flowing'
  <2>1. Head(inbox).of # 0
    BY <1>1, <1>2, <1>4
  <2>2. Clear' /\ given' = given
    BY <1>1, <2>1, ReadsAll
  <2>3. given' \in {0, KeyChannel} /\ pc' # "recv"
    BY <1>1, <1>2, <2>2 DEF Flowing
  <2>4. QED
    BY <2>2, <2>3, ClearFlows
<1>5. QED
  BY <1>3, <1>4 DEF Echoed

LEMMA SucceedsEchoes ==
    ASSUME AInv, Echoed, Reads, NEW data, Succeeds(data), st' # "failed", Head(inbox).of # 0,
           call.op = "Ping" => data = call.data
    PROVE  Echoed'
<1>1. Flowing /\ call' = call
  BY ReadsOwn
<1>2. pc' = "idle" /\ last'.op = call.op /\ last'.data = data
  BY DEF Succeeds, Result
<1>3. PingEchoes'
  BY <1>1, <1>2 DEF PingEchoes
<1>4. Flowing'
  <2>1. Clear' /\ given' = given
    BY <1>1, ReadsAll
  <2>2. given' \in {0, KeyChannel} /\ pc' # "recv"
    BY <1>1, <1>2, <2>1 DEF Flowing
  <2>3. QED
    BY <2>1, <2>2, ClearFlows
<1>5. QED
  BY <1>3, <1>4 DEF Echoed

LEMMA OpenReturnsEchoes == ASSUME AInv, Echoed, OpenReturns PROVE Echoed'
<1> DEFINE init == ParseInit(Fed.msg.data)
           r == Head(inbox)
           h == Taken(rc, r.rep)
<1>1. Reads
  BY DEF OpenReturns
<1>2. CASE init.err # "none"
  <2>1. Fails(init.err)
    BY <1>2, OpenRefuses
  <2> HIDE DEF init
  <2>2. PICK err : err = init.err
    OBVIOUS
  <2>3. QED
    BY <1>1, <1>2, <2>1, <2>2, FailsEchoes
<1>3. CASE init.err = "none" /\ ~OwnNonce(init)
  <2>1. Fails("another program")
    BY <1>3, OpenRefuses
  <2>2. QED
    BY <1>1, <2>1, FailsEchoes
<1>4. CASE init.err = "none" /\ OwnNonce(init)
  <2>1. st' = "open" /\ Succeeds(<< >>) /\ call.op = "Open"
    BY <1>4 DEF OpenReturns
  <2>2. /\ Hears(r, h) /\ Fed.msg.data \in Seq(Nat) /\ Len(Fed.msg.data) = h.want
        /\ \A p \in 1 .. h.want : Fed.msg.data[p] = h.data[p]
    BY <1>1, ReadsWhole DEF AInv, Answers
  <2> HIDE DEF h, r
  <2>3. h.want \in Nat /\ h.want >= InitReplyLen
    <3>1. ~(Len(Fed.msg.data) < InitReplyLen)
      BY <1>4 DEF ParseInit
    <3> HIDE DEF init
    <3>2. Len(Fed.msg.data) \in Nat
      BY <2>2
    <3>3. QED
      BY <2>2, <3>1, <3>2 DEF InitReplyLen
  <2>4. init.nonce = h.data[1]
    BY <2>2, <2>3 DEF ParseInit, InitReplyLen
  <2>5. r.of # 0
    BY <1>4, <2>2, <2>4 DEF Hears, OwnNonce, OurNonce, OtherNonce
  <2>6. QED
    BY <1>1, <2>1, <2>5, SucceedsEchoes DEF r
<1>5. QED
  BY <1>2, <1>3, <1>4

(* The answer to a ping is as long as the ping, and each of its bytes is the ping's. *)
LEMMA PingReturnsEchoes == ASSUME AInv, Echoed, PingReturns PROVE Echoed'
<1> DEFINE r == Head(inbox)
           h == Taken(rc, r.rep)
           data == IF call.op = "Ping" THEN Fed.msg.data ELSE << >>
<1>1. Reads /\ IsAnswer /\ call.op \in {"Ping", "Wink"} /\ Succeeds(data) /\ st' = st
  BY DEF PingReturns
<1>2. /\ pc = "recv" /\ inbox # << >> /\ st # "failed" /\ Flowing /\ r.of # 0
  BY <1>1, ReadsOwn DEF Reads, Receive
<1>3. /\ Hears(r, h) /\ Fed.msg.cmd = h.cmd /\ Fed.msg.data \in Seq(Nat) /\ Len(Fed.msg.data) = h.want
      /\ h.want <= Len(h.data)
      /\ \A p \in 1 .. h.want : Fed.msg.data[p] = h.data[p]
      /\ h \in Assembling(Channels)
  BY <1>1, ReadsWhole DEF AInv, Answers
<1>4. call.op = "Ping" => h.want = Len(call.data)
  BY <1>1, <1>2, ReadsAll
<1>5. r.of = Len(sent)
  BY <1>2, NextRead DEF OfCall
<1> HIDE DEF h, r
<1>6. ASSUME call.op = "Ping" PROVE Fed.msg.data = call.data
  <2>1. h.cmd = CmdPing
    BY <1>1, <1>2, <1>3, <1>6 DEF IsAnswer, AInv, Answers, Asked
  <2>2. \A p \in 1 .. Len(h.data) : p <= h.want => h.data[p] = r.of
    BY <1>2, <1>3, <2>1 DEF Hears, Counted
  <2>3. h.want \in Nat /\ Len(h.data) \in Nat
    BY <1>3, SizesNat DEF Assembling
  <2>4. \A p \in 1 .. h.want : Fed.msg.data[p] = Len(sent)
    BY <1>3, <1>5, <2>2, <2>3
  <2>5. call.data \in Seq(Nat) /\ \A p \in DOMAIN call.data : call.data[p] = Len(sent)
    BY <1>2, <1>6 DEF AInv, Answers, TypeOK, Asked
  <2>6. PICK s, t : s = Fed.msg.data /\ t = call.data /\ s \in Seq(Nat) /\ t \in Seq(Nat) /\ Len(s) = Len(t)
    BY <1>3, <1>4, <1>6, <2>5
  <2>7. \A p \in 1 .. Len(s) : s[p] = t[p]
    BY <1>3, <2>4, <2>5, <2>6
  <2>8. s = t
    BY <2>6, <2>7, SeqEqual
  <2>9. QED
    BY <2>6, <2>8
<1>7. call.op = "Ping" => data = call.data
  BY <1>6
<1> HIDE DEF data
<1>8. QED
  BY <1>1, <1>2, <1>7, SucceedsEchoes DEF r

LEMMA CBORReturnsEchoes == ASSUME AInv, Echoed, CBORReturns PROVE Echoed'
<1>1. Reads /\ call.op = "GetInfo"
  BY DEF CBORReturns
<1>2. st # "failed" /\ Head(inbox).of # 0
  BY <1>1, ReadsOwn
<1>3. Fails("nothing") \/ Fails("status") \/ (st' = st /\ \E data : Succeeds(data))
  BY DEF CBORReturns
<1>4. CASE Fails("nothing") \/ Fails("status")
  BY <1>1, <1>4, FailsEchoes
<1>5. CASE st' = st /\ \E data : Succeeds(data)
  BY <1>1, <1>2, <1>5, SucceedsEchoes
<1>6. QED
  BY <1>3, <1>4, <1>5

LEMMA ReceiveEchoes == ASSUME AInv, Echoed, ReceiveStep PROVE Echoed'
<1>1. CASE Refused
  <2>1. Reads /\ Fails("refused")
    BY <1>1 DEF Refused
  <2>2. QED
    BY <2>1, FailsEchoes
<1>2. CASE OtherCommand
  <2>1. Reads /\ Fails("command")
    BY <1>2 DEF OtherCommand
  <2>2. QED
    BY <2>1, FailsEchoes
<1>3. QED
  BY <1>1, <1>2, KeepsWaitingEchoes, NoBadReport, OpenReturnsEchoes, PingReturnsEchoes,
     CBORReturnsEchoes DEF ReceiveStep

----------------------------------------------------------------------------
(* What the device makes of the last packet of a request. *)
LEMMA SendsWork ==
    ASSUME AInv, Send
    PROVE  \/ work' = work
           \/ /\ \A n \in DOMAIN Stream : Stream[n].of < Len(sent)
              /\ \E w : /\ work' = Append(work, w) /\ w.id = Len(sent) /\ w.ch = k.channel
                        /\ Len(w.data) = Len(call.data)
<1> DEFINE j == Len(sent)
           a == kasm[k.channel]
           p == Head(packets)
           f == Feed(a, p)
           h == Taken(a, p)
           w == [id |-> j, ch |-> p.ch, cmd |-> f.msg.cmd, data |-> f.msg.data]
<1>1. /\ pc = "send" /\ TypeOK /\ Asked /\ Sending
      /\ work' = IF Feed(kasm[p.ch], p).done
                 THEN Append(work, [id |-> j, ch |-> p.ch, cmd |-> Feed(kasm[p.ch], p).msg.cmd,
                                    data |-> Feed(kasm[p.ch], p).msg.data])
                 ELSE work
  BY DEF Send, KeyReceives, AInv, Answers
<1>2. PICK t \in 1 .. Packets(Len(call.data)) :
        /\ packets = Left(t)
        /\ t = 1 \/ kasm[k.channel].started => Unheard(Stream, work, consumed, Len(sent))
        /\ t > 1 /\ kasm[k.channel].started =>
             /\ kasm[k.channel].cmd = call.cmd /\ kasm[k.channel].want = Len(call.data)
             /\ Half(kasm[k.channel], Len(sent))
  BY <1>1 DEF Sending
<1>3. /\ k.channel \in Channels /\ call.data \in Seq(Nat) /\ Len(call.data) <= MaxMessage
      /\ a \in Assembling(Channels) /\ a.channel = k.channel
      /\ call.cmd \in Commands /\ j \in Nat
      /\ call.cmd = CmdInit => Len(call.data) = 1
      /\ call.cmd = CmdPing => \A q \in DOMAIN call.data : call.data[q] = j
  <2>1. k.channel \in Channels /\ call.data \in Seq(Nat) /\ a \in Assembling(Channels) /\ a.channel = k.channel
    BY <1>1 DEF TypeOK, Sending
  <2>2. /\ sent \in Seq(Commands) /\ sent # << >> /\ call.cmd = sent[Len(sent)]
        /\ Len(call.data) <= MaxMessage
        /\ call.cmd = CmdInit => Len(call.data) = 1
        /\ call.cmd = CmdPing => \A q \in DOMAIN call.data : call.data[q] = Len(sent)
    BY <1>1 DEF Asked
  <2>3. Len(sent) \in Nat \ {0} /\ sent[Len(sent)] \in Commands
    BY <2>2
  <2>4. QED
    BY <2>1, <2>2, <2>3
<1>4. p = Packet(k.channel, call.cmd, call.data, t)
  BY <1>1, <1>2, LeftShape
<1>5. p \in Report /\ p.ch = k.channel
  BY <1>2, <1>3, <1>4, PacketShape, CommandNumbers
<1>6. work' = IF f.done THEN Append(work, w) ELSE work
  BY <1>1, <1>5
<1>7. ASSUME f.done
      PROVE  /\ \A n \in DOMAIN Stream : Stream[n].of < j
             /\ w.id = j /\ w.ch = k.channel /\ Len(w.data) = Len(call.data)
  <2>1. Takes(a, p)
    BY <1>5, <1>7, FeedRefuses
  <2>2. /\ t = 1 \/ a.started
        /\ h \in Assembling(Channels) /\ h.started /\ h.want = Len(call.data)
    BY <1>2, <1>3, <1>4, <2>1, KeyTakes
  <2>3. f = Finish(h)
    BY <1>5, <2>1, FeedTakes
  <2>4. Unheard(Stream, work, consumed, j)
    BY <1>2, <2>2
  <2> HIDE DEF a, f, h, p
  <2>5. Len(f.msg.data) = h.want
    BY <1>7, <2>2, <2>3, FinishType
  <2>6. QED
    BY <1>5, <2>2, <2>4, <2>5 DEF Unheard
<1> HIDE DEF f, w
<1>8. QED
  BY <1>6, <1>7

(* A whole request is on its way before anything of its answer. *)
LEMMA SendEchoes == ASSUME AInv, Echoed, Send PROVE Echoed'
<1>1. /\ pc = "send" /\ pc' \in {"send", "recv"}
      /\ pc' = "recv" => rc' = NewReassembler(k.channel)
      /\ UNCHANGED <<st, k, call, sent, inbox, pending, given>>
  BY DEF Send, KeyReceives
<1>2. st' # "failed" /\ Flowing
  BY <1>1 DEF AInv, IInv, Phases, Echoed
<1>3. ~(pc' = "recv" /\ rc'.started)
  BY <1>1 DEF NewReassembler, Fields
<1>4. Expected' = {} /\ Expected = {} /\ Stream' = Stream
  BY <1>1, <1>3 DEF Expected, Stream
<1>5. Rising(Stream) /\ Whole(Stream, {}) /\ given \in {0, KeyChannel}
  BY <1>2, <1>4 DEF Flowing
<1>6. (Rising(Stream) /\ Whole(Stream, Expected))' /\ given' \in {0, KeyChannel}
  BY <1>1, <1>4, <1>5
<1>7. \A n \in DOMAIN Stream : OfCall(Stream[n]) /\ (Part(Stream[n]) => work = << >>)
  BY <1>2 DEF Flowing
<1>8. (\A n \in DOMAIN Stream : OfCall(Stream[n]))'
  BY <1>1, <1>4, <1>7 DEF OfCall
<1>9. \A i \in DOMAIN work : CallsWork(work[i])
  BY <1>2 DEF Flowing
<1>10. (\A i \in DOMAIN work : CallsWork(work[i]))' /\ \A n \in DOMAIN Stream : Part(Stream[n]) => work' = << >>
  <2>1. CASE work' = work
    BY <1>1, <1>7, <1>9, <2>1 DEF CallsWork
  <2>2. CASE /\ \A n \in DOMAIN Stream : Stream[n].of < Len(sent)
             /\ \E w : /\ work' = Append(work, w) /\ w.id = Len(sent) /\ w.ch = k.channel
                       /\ Len(w.data) = Len(call.data)
    <3>1. PICK w : /\ work' = Append(work, w) /\ w.id = Len(sent) /\ w.ch = k.channel
                   /\ Len(w.data) = Len(call.data)
      BY <2>2
    <3>2. work \in Seq(Request)
      BY DEF AInv, Answers, Working
    <3>3. \A i \in DOMAIN work' : work'[i] = w \/ (i \in DOMAIN work /\ work'[i] = work[i])
      BY <3>1, <3>2
    <3>4. \A i \in DOMAIN work' :
             /\ work'[i].id = Len(sent) /\ work'[i].ch = k.channel
             /\ call.op = "Ping" => Len(work'[i].data) = Len(call.data)
      BY <1>9, <3>1, <3>3 DEF CallsWork
    <3>5. (\A i \in DOMAIN work : CallsWork(work[i]))'
      BY <1>1, <3>4 DEF CallsWork
    <3>6. Len(sent) \in Nat
      BY DEF AInv, Answers, Asked
    <3>7. \A n \in DOMAIN Stream : ~Part(Stream[n])
      BY <1>7, <2>2, <3>6 DEF OfCall, Part
    <3>8. QED
      BY <3>5, <3>7
  <2>3. QED
    BY <2>1, <2>2, SendsWork
<1>11. (\A n \in DOMAIN Stream : OfCall(Stream[n]) /\ (Part(Stream[n]) => work = << >>))'
  BY <1>4, <1>8, <1>10
<1>12. Flowing'
  BY <1>3, <1>6, <1>10, <1>11 DEF Flowing
<1>13. PingEchoes'
  BY <1>1 DEF PingEchoes
<1>14. QED
  BY <1>2, <1>12, <1>13 DEF Echoed

----------------------------------------------------------------------------
LEMMA ClientEchoes == ASSUME Echoed, UNCHANGED client, st # "failed" => Flowing' PROVE Echoed'
<1>1. UNCHANGED <<st, pc, last, call>>
  BY DEF client
<1>2. QED
  BY <1>1 DEF Echoed, PingEchoes

(* While the device has a request, no part of an answer is on its way. *)
LEMMA AnswerFlows ==
    ASSUME AInv, Flowing, UNCHANGED client, given' \in {0, KeyChannel}, work # << >>,
           NEW ly \in Nat, NEW y, DOMAIN y = 1 .. ly, Rising(y), Whole(y, {}),
           \A n \in 1 .. ly : OfCall(y[n]) /\ (Part(y[n]) => work' = << >>),
           \A i \in DOMAIN work' : CallsWork(work'[i]),
           Stream' = Joined(Stream, Len(inbox) + Len(pending), y, ly)
    PROVE  Flowing'
<1> DEFINE ln == Len(inbox) + Len(pending)
           s == Joined(Stream, ln, y, ly)
<1>1. UNCHANGED <<pc, k, call, rc, sent>>
  BY DEF client
<1>2. /\ ln \in Nat /\ DOMAIN Stream = 1 .. ln
      /\ \A n \in 1 .. ln : GoesOn(Stream[n]) => Stream[n].of # 0
  BY StreamGhosts DEF AInv, Answers, Ghosts
<1>3. \A n \in 1 .. ln : OfCall(Stream[n]) /\ ~Part(Stream[n]) /\ ~GoesOn(Stream[n])
  BY <1>2 DEF Flowing, Part
<1>4. /\ DOMAIN s = 1 .. ln + ly
      /\ \A n \in 1 .. ln + ly :
            (n \in 1 .. ln /\ s[n] = Stream[n]) \/ (n - ln \in 1 .. ly /\ s[n] = y[n - ln])
  BY <1>2, JoinedEach
<1>5. \A seqs : Rising(s) /\ Whole(s, seqs)
  BY <1>2, <1>3, FlowsOn
<1>6. Stream' = s
  OBVIOUS
<1> HIDE DEF s, ln
<1>7. ~(pc = "recv" /\ rc.started)
  BY DEF Flowing
<1>8. ~(pc' = "recv" /\ rc'.started)
  BY <1>1, <1>7
<1>9. (Rising(Stream) /\ Whole(Stream, Expected))'
  BY <1>5, <1>6
<1>10. \A n \in DOMAIN s : OfCall(s[n]) /\ (Part(s[n]) => work' = << >>)
  BY <1>3, <1>4
<1>11. (\A n \in DOMAIN Stream : OfCall(Stream[n]) /\ (Part(Stream[n]) => work = << >>))'
  BY <1>1, <1>6, <1>10 DEF OfCall
<1>12. (\A i \in DOMAIN work : CallsWork(work[i]))'
  BY <1>1 DEF CallsWork
<1>13. QED
  BY <1>8, <1>9, <1>11, <1>12 DEF Flowing

LEMMA KeyEmitsEchoes == ASSUME AInv, Echoed, KeyEmits PROVE Echoed'
<1>1. /\ pending # << >> /\ inbox' = Append(inbox, Head(pending)) /\ pending' = Tail(pending)
      /\ UNCHANGED client /\ UNCHANGED <<given, work>> /\ UNCHANGED <<pc, k, call, rc, sent>>
  BY DEF KeyEmits, client
<1>2. inbox \in Seq(InboxReport) /\ pending \in Seq(InboxReport)
  BY DEF AInv, Answers, TypeOK
<1>3. Stream' = Stream
  BY <1>1, <1>2, FlowEmits DEF Stream
<1>4. Expected' = Expected
  BY <1>1 DEF Expected
<1>5. ASSUME Flowing PROVE Flowing'
  BY <1>1, <1>3, <1>4, <1>5 DEF Flowing, OfCall, CallsWork
<1>6. QED
  BY <1>1, <1>5, ClientEchoes DEF Echoed

LEMMA KeyKeepsAliveEchoes == ASSUME AInv, Echoed, KeyKeepsAlive PROVE Echoed'
<1> DEFINE req == Head(work)
           x == [rep |-> InitPacket(req.ch, CmdKeepalive, <<2>>), of |-> req.id]
           y == <<x>>
<1>1. /\ work # << >> /\ pending = << >> /\ inbox' = Append(inbox, x)
      /\ UNCHANGED <<given, work, pending>> /\ UNCHANGED client
  BY DEF KeyKeepsAlive
<1>2. SUFFICES ASSUME Flowing PROVE Flowing'
  BY <1>1, ClientEchoes DEF Echoed
<1>3. inbox \in Seq(InboxReport)
  BY DEF AInv, Answers, TypeOK
<1>4. CallsWork(req) /\ \A i \in DOMAIN work : CallsWork(work[i])
  <2>1. work \in Seq(Request)
    BY DEF AInv, Answers, Working
  <2>2. 1 \in DOMAIN work /\ req = work[1]
    BY <1>1, <2>1
  <2>3. QED
    BY <1>2, <2>2 DEF Flowing
<1>5. x.rep.size = ReportSize /\ x.rep.ch = req.ch /\ x.rep.init /\ x.rep.val = CmdKeepalive /\ x.of = req.id
  BY DEF InitPacket
<1> HIDE DEF x
<1>6. OfCall(x) /\ ~Part(x) /\ ~GoesOn(x)
  BY <1>4, <1>5 DEF OfCall, CallsWork, Part, Starts, Begins, GoesOn
<1>7. DOMAIN y = 1 .. 1 /\ y[1] = x
  OBVIOUS
<1>8. Stream' = Joined(Stream, Len(inbox) + Len(pending), y, 1)
  <2>1. PICK S : S = InboxReport \cup {x}
    OBVIOUS
  <2>2. inbox \in Seq(S) /\ x \in S
    BY <1>3, <2>1
  <2>3. QED
    BY <1>1, <2>2, FlowJoinedOne DEF Stream
<1> HIDE DEF y
<1>9. Rising(y) /\ Whole(y, {}) /\ \A n \in 1 .. 1 : OfCall(y[n]) /\ (Part(y[n]) => work' = << >>)
  BY <1>6, <1>7 DEF Rising, Whole
<1>10. given' \in {0, KeyChannel} /\ \A i \in DOMAIN work' : CallsWork(work'[i])
  BY <1>1, <1>2, <1>4 DEF Flowing
<1>11. QED
  BY <1>1, <1>2, <1>7, <1>8, <1>9, <1>10, AnswerFlows

(* The answer of such a device is the whole good answer to the request of the call. *)
LEMMA KeyAnswersEchoes == ASSUME ReplyKinds = {"good"}, AInv, Echoed, KeyAnswers PROVE Echoed'
<1> DEFINE req == Head(work)
           ln == Len(inbox) + Len(pending)
<1>1. PICK caps, channel, data, reports :
        /\ caps \in KeyCaps /\ channel \in Channels /\ channel = KeyChannel
        /\ Suits("good", req.cmd) /\ data = GoodReply(req, channel, caps)
        /\ reports = Split(req.ch, req.cmd, data).packets
        /\ pending' = [i \in 1 .. Len(reports) |-> [rep |-> reports[i], of |-> req.id]]
        /\ given' = IF req.cmd = CmdInit THEN channel ELSE given
  BY DEF KeyAnswers, Reply
<1>2. /\ work # << >> /\ pending = << >> /\ work' = Tail(work) /\ inbox' = inbox
      /\ UNCHANGED client
      /\ req \in Request /\ Job(req, sent, consumed) /\ pending' \in Seq(InboxReport)
  BY AnswerFrame
<1>3. SUFFICES ASSUME Flowing PROVE Flowing'
  BY <1>2, ClientEchoes DEF Echoed
<1>4. inbox \in Seq(InboxReport) /\ Asked
  BY DEF AInv, Answers, TypeOK
<1>5. CallsWork(req) /\ work' = << >>
  <2>1. /\ work \in Seq(Request) /\ 1 \in DOMAIN work /\ req = work[1]
        /\ \A i \in DOMAIN work : CallsWork(work[i])
        /\ \A i, j \in DOMAIN work : i < j => work[i].id < work[j].id
    BY <1>2, <1>3 DEF AInv, Answers, Working, Flowing
  <2>2. Len(sent) \in Nat /\ \A i \in DOMAIN work : work[i].id = Len(sent)
    BY <1>4, <2>1 DEF CallsWork, Asked
  <2>3. 2 \notin DOMAIN work
    BY <2>1, <2>2
  <2>4. Len(work) = 1
    <3>1. Len(work) \in Nat /\ DOMAIN work = 1 .. Len(work)
      BY <2>1
    <3>2. QED
      BY <2>1, <2>3, <3>1
  <2>5. Tail(work) = << >>
    <3>1. Tail(work) \in Seq(Request) /\ Len(Tail(work)) = 0
      BY <1>2, <2>1, <2>4, HeadTailProperties
    <3>2. QED
      BY <3>1, EmptySeq
  <2>6. QED
    BY <1>2, <2>1, <2>5
<1>6. Answering(req, req.cmd, data, channel, caps)
  BY <1>1, <1>2, GoodShape DEF Job
<1>7. ASSUME call.op = "Ping" PROVE Len(data) = Len(call.data)
  <2>1. req.cmd = sent[Len(sent)] /\ pc # "idle" /\ Len(req.data) = Len(call.data)
    BY <1>2, <1>5, <1>7 DEF Job, CallsWork
  <2>2. req.cmd = CmdPing
    BY <1>4, <1>7, <2>1 DEF Asked
  <2>3. QED
    BY <1>6, <2>1, <2>2 DEF Answering
<1> DEFINE y == pending'
           ly == Len(reports)
<1>8. PICK c \in Channels, id \in Nat \ {0}, cmd \in Numbers \ {CmdKeepalive} :
        c = req.ch /\ id = req.id /\ cmd = req.cmd
  BY <1>2, <1>6 DEF Request, Answering
<1>9. data \in Seq(Nat) /\ Len(data) <= MaxMessage
  BY <1>6 DEF Answering
<1>10. Labelled(y, Split(c, cmd, data).packets, id)
  BY <1>1, <1>8 DEF Labelled
<1>11. ly = Len(Split(c, cmd, data).packets)
  BY <1>1, <1>8
<1> HIDE DEF y, ly
<1>12. /\ ly \in Nat /\ DOMAIN y = 1 .. ly /\ Rising(y) /\ Whole(y, {})
       /\ \A n \in DOMAIN y :
            /\ y[n].of = id /\ y[n].rep.ch = c /\ y[n].rep.size = ReportSize
            /\ Starts(y[n]) => y[n].rep.len = Len(data)
  BY <1>9, <1>10, <1>11, SplitFlows
<1>13. \A n \in 1 .. ly : OfCall(y[n]) /\ (Part(y[n]) => work' = << >>)
  BY <1>5, <1>7, <1>8, <1>12 DEF OfCall, CallsWork
<1>14. Stream' = Joined(Stream, ln, y, ly)
  <2>1. Len(pending') = ly
    BY <1>2, <1>12 DEF y
  <2>2. Flow(inbox, pending') = Joined(Flow(inbox, << >>), Len(inbox) + Len(<< >>), pending', Len(pending'))
    BY <1>2, <1>4, FlowJoined
  <2>3. QED
    BY <1>2, <2>1, <2>2 DEF Stream, y
<1>15. given' \in {0, KeyChannel}
  BY <1>1, <1>3 DEF Flowing
<1>16. \A i \in DOMAIN work' : CallsWork(work'[i])
  BY <1>5
<1> HIDE DEF req
<1>17. QED
  BY <1>2, <1>3, <1>12, <1>13, <1>14, <1>15, <1>16, AnswerFlows

LEMMA OtherProgramEchoes == ASSUME AInv, Echoed, OtherProgram PROVE Echoed'
<1> DEFINE ln == Len(inbox) + Len(pending)
           at == Len(inbox)
<1>1. PICK rep \in Foreign :
         /\ inbox' = Append(inbox, [rep |-> rep, of |-> 0])
         /\ UNCHANGED <<given, work, pending>> /\ UNCHANGED client
  BY DEF OtherProgram, Foreign, device
<1> DEFINE x == [rep |-> rep, of |-> 0]
           s == Between(Stream, ln, at, x)
<1>2. SUFFICES ASSUME Flowing PROVE Flowing'
  BY <1>1, ClientEchoes DEF Echoed
<1>3. inbox \in Seq(InboxReport) /\ pending \in Seq(InboxReport)
  BY DEF AInv, Answers, TypeOK
<1>4. x.of = 0 /\ x.rep.init /\ x.rep.size = ReportSize
  BY ForeignShape
<1> HIDE DEF x
<1>5. OfCall(x) /\ ~Part(x) /\ ~GoesOn(x)
  BY <1>4 DEF OfCall, Part, GoesOn
<1>6. Stream' = s
  BY <1>1, <1>3, FlowBetween DEF Stream, x
<1>7. ln \in Nat /\ at \in 0 .. ln /\ DOMAIN Stream = 1 .. ln
  BY <1>3, FlowAt, StreamGhosts DEF AInv, Answers
<1>8. UNCHANGED <<pc, k, call, rc, sent>>
  BY <1>1 DEF client
<1>9. Expected' = Expected
  BY <1>8 DEF Expected
<1> HIDE DEF ln, at
<1>10. Rising(s) /\ Whole(s, Expected) /\ \A r : Due(Stream, r) => Due(s, r)
  BY <1>2, <1>4, <1>5, <1>7, FlowsBetween DEF Flowing
<1>11. DOMAIN s = 1 .. ln + 1 /\ \A n \in 1 .. ln + 1 : s[n] = x \/ \E m \in 1 .. ln : s[n] = Stream[m]
  <2>1. /\ DOMAIN s = 1 .. ln + 1
        /\ \A i \in 1 .. ln + 1 :
              \/ i <= at /\ i \in 1 .. ln /\ s[i] = Stream[i]
              \/ i = at + 1 /\ s[i] = x
              \/ i > at + 1 /\ i - 1 \in 1 .. ln /\ s[i] = Stream[i - 1]
    BY <1>7, BetweenAt
  <2> HIDE DEF s
  <2>2. QED
    BY <2>1
<1> HIDE DEF s
<1>12. \A n \in DOMAIN s : OfCall(s[n]) /\ (Part(s[n]) => work = << >>)
  BY <1>2, <1>5, <1>7, <1>11 DEF Flowing
<1>13. (\A n \in DOMAIN Stream : OfCall(Stream[n]) /\ (Part(Stream[n]) => work = << >>))'
  BY <1>1, <1>6, <1>8, <1>12 DEF OfCall
<1>14. (\A i \in DOMAIN work : CallsWork(work[i]))' /\ given' \in {0, KeyChannel}
  BY <1>1, <1>2, <1>8 DEF Flowing, CallsWork
<1>15. (pc = "recv" /\ rc.started =>
         /\ work = << >> /\ Due(Stream, rc)
         /\ call.op = "Ping" => rc.want = Len(call.data))'
  BY <1>1, <1>2, <1>6, <1>8, <1>10 DEF Flowing
<1>16. (Rising(Stream) /\ Whole(Stream, Expected))'
  BY <1>6, <1>9, <1>10
<1>17. QED
  BY <1>13, <1>14, <1>15, <1>16 DEF Flowing

----------------------------------------------------------------------------
LEMMA EchoesStart == ASSUME Init PROVE EchoInv
<1>1. /\ st = "new" /\ pc = "idle" /\ last = NoResult /\ given = 0
      /\ work = << >> /\ pending = << >> /\ inbox = << >>
  BY DEF Init
<1>2. DOMAIN Stream = {}
  BY <1>1 DEF Stream, Flow
<1>3. Flowing
  BY <1>1, <1>2 DEF Flowing, Rising, Whole
<1>4. PingEchoes
  BY <1>1 DEF PingEchoes, NoResult, Result
<1>5. QED
  BY <1>1, <1>3, <1>4, AnswersStart DEF EchoInv, Echoed

LEMMA EchoesStep ==
    ASSUME ~Unreliable, ReplyKinds = {"good"}, EchoInv, [Next]_vars
    PROVE  EchoInv'
<1>1. AInv /\ Echoed /\ AInv'
  BY AnswersStep DEF EchoInv
<1>2. Echoed'
  <2>1. CASE UNCHANGED vars
    <3>1. UNCHANGED <<st, k, pc, call, rc, last, sent, given, work, pending, inbox>>
      BY <2>1 DEF vars, client, device
    <3>2. Stream' = Stream /\ Expected' = Expected
      BY <3>1 DEF Stream, Expected
    <3>3. Flowing => Flowing'
      BY <3>1, <3>2 DEF Flowing, OfCall, CallsWork
    <3>4. QED
      BY <1>1, <3>1, <3>3 DEF Echoed, PingEchoes
  <2>2. CASE Open \/ Ping \/ Wink \/ GetInfo \/ Close
    BY <1>1, <2>2, CallEchoes
  <2>3. CASE Send
    BY <1>1, <2>3, SendEchoes
  <2>4. ~SendFails /\ ~ReceiveFails
    BY DEF SendFails, ReceiveFails
  <2>5. CASE ReceiveStep
    BY <1>1, <2>5, ReceiveEchoes
  <2>6. CASE KeyAnswers
    BY <1>1, <2>6, KeyAnswersEchoes
  <2>7. CASE KeyEmits
    BY <1>1, <2>7, KeyEmitsEchoes
  <2>8. CASE KeyKeepsAlive
    BY <1>1, <2>8, KeyKeepsAliveEchoes
  <2>9. ~KeyCuts
    BY DEF KeyCuts
  <2>10. CASE OtherProgram
    BY <1>1, <2>10, OtherProgramEchoes
  <2>11. QED
    BY <2>1, <2>2, <2>3, <2>4, <2>5, <2>6, <2>7, <2>8, <2>9, <2>10 DEF Next, DeviceStep
<1>3. QED
  BY <1>1, <1>2 DEF EchoInv

(* When no report is lost and the device answers in full, a ping that comes  *)
(* back comes back unchanged (Ping), whatever keepalives and other programs' *)
(* reports come between.                                                     *)
THEOREM PingsReturn == ASSUME ~Unreliable, ReplyKinds = {"good"} PROVE Spec => []PingEchoes
<1>1. Init => EchoInv
  BY EchoesStart
<1>2. EchoInv /\ [Next]_vars => EchoInv'
  BY EchoesStep
<1>3. EchoInv => PingEchoes
  BY DEF EchoInv, Echoed
<1>4. QED
  BY <1>1, <1>2, <1>3, PTL DEF Spec
=============================================================================
