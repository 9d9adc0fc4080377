--------------------------- MODULE FramingProofs ---------------------------
(***************************************************************************)
(* Every message that Split accepts comes back unchanged out of Feed, for  *)
(* every report size, every width of the sequence number and every payload.*)
(***************************************************************************)
EXTENDS Framing, CTAPHIDProofs, SequenceTheorems

(* What k continuation packets and the first packet have carried, as the     *)
(* reassembler holds it.                                                     *)
Holding(cmd, data, k) ==
    Fields(Channel, cmd, Carried(data, Offset(k)), Len(data), k, TRUE)

(* The carried bytes are a sequence of that length. *)
LEMMA CarriedSeq ==
    ASSUME NEW data \in Seq(Nat), NEW n \in Nat
    PROVE  /\ Carried(data, n) \in Seq(Nat)
           /\ Len(Carried(data, n)) = n
           /\ \A p \in 1 .. n : Carried(data, n)[p] = PadByte(data, p)
<1>1. \A p \in 1 .. n : PadByte(data, p) \in Nat
  BY DEF PadByte
<1>2. Carried(data, n) \in [1 .. n -> Nat]
  BY <1>1 DEF Carried
<1>3. QED
  BY <1>2 DEF Carried

(* One more continuation packet extends them by one payload. *)
LEMMA CarriedStep ==
    ASSUME NEW data \in Seq(Nat), NEW k \in Nat
    PROVE  Carried(data, Offset(k)) \o ContPacket(Channel, data, k).body
             = Carried(data, Offset(k + 1))
<1> DEFINE a == Carried(data, Offset(k))
           b == [j \in 1 .. contPayload |-> PadByte(data, Offset(k) + j)]
           c == Carried(data, Offset(k + 1))
<1>1. /\ contPayload \in Nat /\ Offset(k) \in Nat
      /\ Offset(k + 1) \in Nat /\ Offset(k + 1) = Offset(k) + contPayload
  <2>1. contPayload \in Nat
    BY OffsetStep
  <2>2. Offset(k) \in Nat
    BY OffsetStep
  <2>3. Offset(k + 1) = Offset(k) + contPayload
    BY OffsetStep
  <2>4. QED
    BY <2>1, <2>2, <2>3
<1>2. ContPacket(Channel, data, k).body = b
  BY DEF ContPacket
<1>3. a \in Seq(Nat) /\ Len(a) = Offset(k) /\ c \in Seq(Nat) /\ Len(c) = Offset(k + 1)
  BY <1>1, CarriedSeq
<1>4. b \in Seq(Nat) /\ Len(b) = contPayload
  <2>1. \A p \in Nat : PadByte(data, p) \in Nat
    BY DEF PadByte
  <2>2. \A j \in 1 .. contPayload : Offset(k) + j \in Nat
    BY <1>1
  <2>3. \A j \in 1 .. contPayload : PadByte(data, Offset(k) + j) \in Nat
    BY <2>1, <2>2
  <2>4. b \in [1 .. contPayload -> Nat]
    BY <2>3
  <2>5. QED
    BY <1>1, <2>4
<1>5. \A j \in 1 .. contPayload : b[j] = PadByte(data, Offset(k) + j)
  OBVIOUS
<1>6. /\ \A p \in 1 .. Offset(k) : a[p] = PadByte(data, p)
      /\ \A p \in 1 .. Offset(k + 1) : c[p] = PadByte(data, p)
  BY <1>1, CarriedSeq
<1> HIDE DEF a, b, c
<1>7. a \o b \in Seq(Nat) /\ Len(a \o b) = Len(c)
  BY <1>1, <1>3, <1>4, ConcatProperties
<1>8. \A p \in 1 .. Len(a) + Len(b) :
          (a \o b)[p] = IF p <= Len(a) THEN a[p] ELSE b[p - Len(a)]
  BY <1>3, <1>4, ConcatProperties
<1>9. ASSUME NEW p \in 1 .. Len(c) PROVE (a \o b)[p] = c[p]
  <2>1. c[p] = PadByte(data, p) /\ p \in 1 .. Offset(k) + contPayload
    BY <1>1, <1>3, <1>6
  <2>2. CASE p <= Offset(k)
    <3>1. (a \o b)[p] = a[p]
      BY <1>1, <1>3, <1>4, <2>1, <2>2, <1>8
    <3>2. p \in 1 .. Offset(k)
      BY <1>1, <2>1, <2>2
    <3>3. QED
      BY <1>6, <2>1, <3>1, <3>2
  <2>3. CASE ~(p <= Offset(k))
    <3>1. (a \o b)[p] = b[p - Offset(k)]
      BY <1>1, <1>3, <1>4, <2>1, <2>3, <1>8
    <3>2. p - Offset(k) \in 1 .. contPayload /\ Offset(k) + (p - Offset(k)) = p
      BY <1>1, <2>1, <2>3
    <3>3. QED
      BY <1>5, <2>1, <3>1, <3>2
  <2>4. QED
    BY <2>2, <2>3
<1>10. a \o b = c
  BY <1>3, <1>7, <1>9, SeqEqual
<1>11. QED
  BY <1>2, <1>10 DEF a, c

(* Cutting the padding off gives the message back. *)
LEMMA CarriedAll ==
    ASSUME NEW data \in Seq(Nat), NEW n \in Nat, Len(data) <= n
    PROVE  SubSeq(Carried(data, n), 1, Len(data)) = data
<1> DEFINE a == Carried(data, n)
           s == SubSeq(a, 1, Len(data))
<1>1. Len(data) \in Nat /\ a \in Seq(Nat) /\ Len(a) = n
  BY CarriedSeq
<1>2. s \in Seq(Nat) /\ Len(s) = Len(data)
  BY <1>1, SubSeqProperties
<1>3. ASSUME NEW p \in 1 .. Len(data) PROVE s[p] = data[p]
  <2>1. s[p] = a[p]
    BY <1>1, SubSeqProperties
  <2>2. a[p] = PadByte(data, p)
    BY <1>1, CarriedSeq
  <2>3. PadByte(data, p) = data[p]
    BY DEF PadByte
  <2>4. QED
    BY <2>1, <2>2, <2>3
<1> HIDE DEF s
<1>4. QED
  BY <1>2, <1>3, SeqEqual DEF s

(* finish hands the message back once enough packets have been counted. *)
LEMMA FinishHolding ==
    ASSUME NEW data \in Seq(Nat), NEW cmd, NEW k \in Nat
    PROVE  LET f == Finish(Holding(cmd, data, k)) IN
           /\ f.err = "none" /\ f.rc.channel = Channel
           /\ k < Continuations(Len(data)) => ~f.done /\ f.rc = Holding(cmd, data, k)
           /\ ~(k < Continuations(Len(data))) =>
                 f.done /\ f.msg = Message(Channel, cmd, data)
<1> DEFINE h == Holding(cmd, data, k)
           n == Len(data)
<1>1. n \in Nat /\ Offset(k) \in Nat
  <2>1. Offset(k) \in Nat
    BY OffsetStep
  <2>2. n \in Nat
    OBVIOUS
  <2>3. QED
    BY <2>1, <2>2
<1>2. /\ h.channel = Channel /\ h.cmd = cmd /\ h.want = n
      /\ h.data = Carried(data, Offset(k)) /\ Len(h.data) = Offset(k)
  BY <1>1, CarriedSeq DEF Holding, Fields
<1>3. Offset(k) < n <=> k < Continuations(n)
  BY <1>1, ContinuationsLeast
<1> HIDE DEF h, n
<1>4. CASE k < Continuations(n)
  <2>1. Finish(h) = [rc |-> h, msg |-> NoMessage, done |-> FALSE, err |-> "none"]
    BY <1>2, <1>3, <1>4 DEF Finish, Short
  <2>2. QED
    BY <1>2, <1>4, <2>1 DEF h, n
<1>5. CASE ~(k < Continuations(n))
  <2>1. SubSeq(h.data, 1, h.want) = data
    BY <1>1, <1>2, <1>3, <1>5, CarriedAll DEF n
  <2> DEFINE q == Fields(h.channel, h.cmd, h.data, h.want, h.seq, FALSE)
             f == [rc   |-> q, msg |-> Message(Channel, cmd, data), done |-> TRUE,
                   err  |-> "none"]
  <2>2. Finish(h) = f
    BY <1>2, <1>3, <1>5, <2>1 DEF Finish, Short
  <2>3. q.channel = Channel
    BY <1>2 DEF Fields
  <2> HIDE DEF q
  <2>4. /\ f.err = "none" /\ f.rc.channel = Channel
        /\ f.done /\ f.msg = Message(Channel, cmd, data)
    BY <2>3
  <2> HIDE DEF f
  <2>5. QED
    BY <1>5, <2>2, <2>4 DEF h, n
<1>6. QED
  BY <1>4, <1>5 DEF n

(* The initialisation packet starts the message, whatever was held before. *)
LEMMA FeedFirst ==
    ASSUME NEW data \in Seq(Nat), NEW cmd, NEW r, r.channel = Channel,
           Len(data) <= MaxMessage
    PROVE  Feed(r, Packet(Channel, cmd, data, 1)) = Finish(Holding(cmd, data, 0))
<1> DEFINE rep == InitPacket(Channel, cmd, data)
<1>1. Packet(Channel, cmd, data, 1) = rep
  BY DEF Packet
<1>2. LengthField(Len(data)) = Len(data)
  <2>1. Len(data) \in Nat /\ Len(data) < LengthModulus /\ LengthModulus \in Nat \ {0}
    BY FramingAssumption, MaxMessageNat DEF LengthModulus
  <2>2. QED
    BY <2>1 DEF LengthField
<1>3. Offset(0) = initPayload
  BY OffsetStep DEF Offset
<1>4. /\ rep.size = ReportSize /\ rep.ch = Channel /\ rep.init = TRUE /\ rep.val = cmd
      /\ rep.len = Len(data) /\ rep.body = Carried(data, Offset(0))
  BY <1>2, <1>3 DEF InitPacket, Carried
<1>5. ~(ReportSize < contHeader) /\ ~(ReportSize < initHeader)
  BY FramingAssumption DEF contHeader, initHeader
<1> HIDE DEF rep
<1>6. Feed(r, rep) = Finish(Fields(Channel, cmd, Carried(data, Offset(0)), Len(data), 0, TRUE))
  BY <1>4, <1>5 DEF Feed, FeedInit, FeedCont, OutOfOrder
<1>7. QED
  BY <1>1, <1>6 DEF Holding

(* Each continuation packet is accepted in turn. *)
LEMMA FeedLater ==
    ASSUME NEW data \in Seq(Nat), NEW cmd, NEW k \in Nat, k < HighBit
    PROVE  Feed(Holding(cmd, data, k), Packet(Channel, cmd, data, k + 2))
             = Finish(Holding(cmd, data, k + 1))
<1> DEFINE rep == ContPacket(Channel, data, k)
           h == Holding(cmd, data, k)
<1>1. Packet(Channel, cmd, data, k + 2) = rep
  <2>1. k + 2 # 1 /\ (k + 2) - 2 = k
    OBVIOUS
  <2>2. QED
    BY <2>1 DEF Packet
<1>2. k % HighBit = k /\ (k % (2 * HighBit) >= HighBit) = FALSE
  BY FramingAssumption
<1>3. rep.size = ReportSize /\ rep.ch = Channel /\ rep.init = FALSE /\ rep.val = k
  <2>1. rep.size = ReportSize /\ rep.ch = Channel /\ rep.val = k
    BY <1>2 DEF ContPacket
  <2>2. rep.init = (k % (2 * HighBit) >= HighBit)
    BY DEF ContPacket
  <2>3. rep.init = FALSE
    BY <1>2, <2>2, Zenon
  <2>4. QED
    BY <2>1, <2>3
<1>4. /\ h.channel = Channel /\ h.cmd = cmd /\ h.want = Len(data) /\ h.seq = k
      /\ h.data = Carried(data, Offset(k)) /\ h.started = TRUE
  BY DEF Holding, Fields
<1>5. h.data \o rep.body = Carried(data, Offset(k + 1))
  BY <1>4, CarriedStep
<1>6. ~(ReportSize < contHeader)
  BY FramingAssumption DEF contHeader, initHeader
<1> HIDE DEF rep, h
<1>7. Feed(h, rep) = Finish(Fields(Channel, cmd, Carried(data, Offset(k + 1)),
                                   Len(data), k + 1, TRUE))
  BY <1>3, <1>4, <1>5, <1>6 DEF Feed, FeedInit, FeedCont, OutOfOrder
<1>8. QED
  BY <1>1, <1>7 DEF Holding, h

(* What the reassembler makes of the i-th packet of a message in step. *)
LEMMA Delivers ==
    ASSUME NEW data \in Seq(Nat), Len(data) <= MaxMessage, NEW cmd,
           NEW i \in 1 .. Packets(Len(data)), NEW r, r.channel = Channel,
           i > 1 => r = Holding(cmd, data, i - 2)
    PROVE  LET f == Feed(r, Packet(Channel, cmd, data, i)) IN
           /\ f.err = "none" /\ f.rc.channel = Channel
           /\ i # Packets(Len(data)) => ~f.done /\ f.rc = Holding(cmd, data, i - 1)
           /\ i = Packets(Len(data)) => f.done /\ f.msg = Message(Channel, cmd, data)
<1>1. /\ Len(data) \in Nat /\ Continuations(Len(data)) \in Nat
      /\ Packets(Len(data)) = 1 + Continuations(Len(data))
  BY ContinuationsLeast DEF Packets
<1>2. i \in Nat /\ i >= 1 /\ i <= 1 + Continuations(Len(data))
  BY <1>1
<1>3. Feed(r, Packet(Channel, cmd, data, i)) = Finish(Holding(cmd, data, i - 1))
  <2>1. CASE i = 1
    BY <2>1, FeedFirst
  <2>2. CASE i # 1
    <3>1. i - 2 \in Nat /\ (i - 2) + 2 = i /\ (i - 2) + 1 = i - 1
      BY <1>2, <2>2
    <3>2. i - 2 < HighBit
      <4>1. Continuations(Len(data)) <= HighBit /\ HighBit \in Nat
        BY <1>1, ContinuationsFit, FramingAssumption
      <4>2. QED
        BY <1>1, <1>2, <4>1
    <3>3. r = Holding(cmd, data, i - 2)
      BY <1>2, <2>2
    <3>4. Feed(Holding(cmd, data, i - 2), Packet(Channel, cmd, data, (i - 2) + 2))
            = Finish(Holding(cmd, data, (i - 2) + 1))
      BY <3>1, <3>2, FeedLater
    <3>5. QED
      BY <3>1, <3>3, <3>4
  <2>3. QED
    BY <2>1, <2>2
<1>4. i - 1 \in Nat /\ (i - 1 < Continuations(Len(data)) <=> i # Packets(Len(data)))
  BY <1>1, <1>2
<1>5. QED
  BY <1>3, <1>4, FinishHolding
----------------------------------------------------------------------------
(* The number of packets of a message. *)
LEMMA PacketsNat ==
    ASSUME NEW data \in Seq(Nat)
    PROVE  Len(data) \in Nat /\ Packets(Len(data)) \in Nat \ {0}
<1>1. Len(data) \in Nat
  OBVIOUS
<1>2. Continuations(Len(data)) \in Nat
  BY <1>1, ContinuationsLeast
<1>3. QED
  BY <1>1, <1>2 DEF Packets

(* A stray report is refused and changes nothing. *)
LEMMA StrayRefused ==
    ASSUME NEW r, r.channel = Channel,
           NEW report \in {InitPacket(OtherChannel, CmdPing, << >>), Runt}
    PROVE  Feed(r, report).rc = r
<1>1. CASE report = Runt
  <2>1. report.size < contHeader
    BY <1>1 DEF Runt, contHeader
  <2>2. Feed(r, report) = Refuse(r, "ErrShortPacket")
    BY <2>1 DEF Feed, FeedInit, FeedCont, OutOfOrder
  <2>3. QED
    BY <2>2 DEF Refuse
<1>2. CASE report = InitPacket(OtherChannel, CmdPing, << >>)
  <2>1. report.size = ReportSize /\ report.ch = OtherChannel
    BY <1>2 DEF InitPacket
  <2>2. ~(report.size < contHeader) /\ report.ch # r.channel
    BY <2>1, FramingAssumption, EndsAssumption DEF contHeader, initHeader
  <2>3. Feed(r, report) = Refuse(r, "ErrWrongChannel")
    BY <2>2 DEF Feed, FeedInit, FeedCont, OutOfOrder
  <2>4. QED
    BY <2>3 DEF Refuse
<1>3. QED
  BY <1>1, <1>2

(* The inductive invariant: in the middle of a message both ends agree on    *)
(* what has been carried.                                                    *)
THEOREM Invariance == Spec => []IInv
<1>1. Init => IInv
  <2> SUFFICES ASSUME Init PROVE IInv
    OBVIOUS
  <2>1. cur.data = << >> /\ cur.cmd = 0 /\ next = 0 /\ out.packet = 0
    BY DEF Init, Quiet
  <2>2. cur.data \in Seq(Nat) /\ Len(cur.data) = 0 /\ cur.cmd \in 0 .. HighBit - 1
    BY <2>1, FramingAssumption
  <2>3. Packets(Len(cur.data)) \in Nat
    BY <2>2, PacketsNat
  <2>4. rc.channel = Channel
    BY DEF Init, NewReassembler, Fields
  <2>5. TypeOK
    BY <2>1, <2>2, <2>3, <2>4, MaxMessageNat DEF TypeOK
  <2>6. QED
    BY <2>1, <2>5 DEF IInv, InStep, Unchanged
<1>2. IInv /\ [Next]_vars => IInv'
  <2> SUFFICES ASSUME IInv, [Next]_vars PROVE IInv'
    OBVIOUS
  <2>0. /\ cur.data \in Seq(Nat) /\ Len(cur.data) \in Nat /\ Packets(Len(cur.data)) \in Nat \ {0}
        /\ next \in 0 .. Packets(Len(cur.data)) /\ rc.channel = Channel
    BY PacketsNat DEF IInv, TypeOK
  <2>1. ASSUME NEW cmd \in Commands, NEW data \in Payloads, Start(cmd, data)
        PROVE  IInv'
    <3>1. data \in Seq(Nat) /\ cmd \in 0 .. HighBit - 1
      BY EndsAssumption
    <3>2. Packets(Len(data)) \in Nat \ {0} /\ Len(data) \in Nat
      BY <3>1, PacketsNat
    <3>3. Len(data) <= MaxMessage
      <4>1. ~TooLong(data)
        BY <2>1 DEF Start, Split
      <4>2. QED
        BY <3>2, <4>1, MaxMessageNat DEF TooLong
    <3>4. /\ cur'.data = data /\ cur'.cmd = cmd /\ next' = 1 /\ out'.packet = 0
          /\ rc' = rc
      BY <2>1 DEF Start, Quiet
    <3>5. TypeOK'
      BY <2>0, <3>1, <3>2, <3>3, <3>4 DEF TypeOK
    <3>6. QED
      BY <3>4, <3>5 DEF IInv, InStep, Unchanged
  <2>2. CASE Deliver
    <3> DEFINE f == Feed(rc, Packet(Channel, cur.cmd, cur.data, next))
               n == Packets(Len(cur.data))
    <3>1. next \in 1 .. n
      BY <2>0, <2>2 DEF Deliver
    <3>2. next > 1 => rc = Holding(cur.cmd, cur.data, next - 2)
      BY DEF IInv, InStep, Holding
    <3>3. /\ f.err = "none" /\ f.rc.channel = Channel
          /\ next # n => ~f.done /\ f.rc = Holding(cur.cmd, cur.data, next - 1)
          /\ next = n => f.done /\ f.msg = Message(Channel, cur.cmd, cur.data)
      BY <2>0, <3>1, <3>2, Delivers DEF IInv, TypeOK
    <3>4. /\ cur' = cur /\ rc' = f.rc /\ next' = IF next = n THEN 0 ELSE next + 1
          /\ out' = [msg |-> f.msg, done |-> f.done, err |-> f.err, packet |-> next]
      BY <2>2 DEF Deliver, Fed
    <3> HIDE DEF f, n
    <3>5. next' \in 0 .. n
      BY <2>0, <3>1, <3>4 DEF n
    <3>6. TypeOK'
      <4>1. out'.packet = next
        BY <3>4
      <4>2. QED
        BY <3>1, <3>3, <3>4, <3>5, <4>1 DEF IInv, TypeOK, n
    <3>7. InStep'
      <4>1. next' > 1 => next # n /\ next' - 2 = next - 1
        BY <2>0, <3>1, <3>4 DEF n
      <4>2. next' > 1 => rc' = Holding(cur.cmd, cur.data, next' - 2)
        BY <3>3, <3>4, <4>1
      <4>3. QED
        BY <3>4, <4>2 DEF InStep, Holding
    <3>8. Unchanged'
      BY <3>3, <3>4 DEF Unchanged, n
    <3>9. QED
      BY <3>6, <3>7, <3>8 DEF IInv
  <2>3. CASE Abandon
    <3>1. next' = 0 /\ out'.packet = 0 /\ UNCHANGED <<cur, rc>>
      BY <2>3 DEF Abandon, Quiet
    <3>2. QED
      BY <2>0, <3>1 DEF IInv, TypeOK, InStep, Unchanged
  <2>4. CASE Stray
    <3>1. PICK report \in {InitPacket(OtherChannel, CmdPing, << >>), Runt} : Fed(report, 0)
      BY <2>4 DEF Stray
    <3>2. rc' = rc /\ out'.packet = 0
      BY <2>0, <3>1, StrayRefused DEF Fed
    <3>3. UNCHANGED <<cur, next>>
      BY <2>4 DEF Stray
    <3>4. TypeOK'
      BY <2>0, <3>2, <3>3 DEF IInv, TypeOK
    <3>5. InStep'
      BY <3>2, <3>3 DEF IInv, InStep
    <3>6. Unchanged'
      BY <3>2 DEF Unchanged
    <3>7. QED
      BY <3>4, <3>5, <3>6 DEF IInv
  <2>5. CASE UNCHANGED vars
    BY <2>5 DEF vars, IInv, TypeOK, InStep, Unchanged
  <2>6. QED
    BY <2>1, <2>2, <2>3, <2>4, <2>5 DEF Next
<1>3. QED
  BY <1>1, <1>2, PTL DEF Spec

(* Type correctness of both ends. *)
THEOREM TypeCorrect == Spec => []TypeOK
<1>1. IInv => TypeOK
  BY DEF IInv
<1>2. QED
  BY <1>1, Invariance, PTL

(* A message comes out unchanged, at its last packet, and never in pieces.   *)
THEOREM RoundTrip == Spec => []Unchanged
<1>1. IInv => Unchanged
  BY DEF IInv
<1>2. QED
  BY <1>1, Invariance, PTL

(* Nothing that happened before a message disturbs it. *)
THEOREM StaysInStep == Spec => []InStep
<1>1. IInv => InStep
  BY DEF IInv
<1>2. QED
  BY <1>1, Invariance, PTL
============================================================================
