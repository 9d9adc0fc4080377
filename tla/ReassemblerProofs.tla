------------------------- MODULE ReassemblerProofs -------------------------
(***************************************************************************)
(* Reassembler's invariants, for every report size, every width of the     *)
(* sequence number and every set of reports.                               *)
(***************************************************************************)
EXTENDS Reassembler, CTAPHIDProofs

(* The receiver's fields, typed; and what Feed may return. *)
Assembly == [channel : {Channel}, cmd : 0 .. HighBit - 1, data : Seq(Nat),
           want : 0 .. LengthModulus - 1, seq : 0 .. MaxContinuations, started : BOOLEAN]

Sound(r) ==
    /\ r.rc \in Assembly
    /\ [msg |-> r.msg, done |-> r.done, err |-> r.err] \in
          [msg : [channel : Nat, cmd : 0 .. HighBit - 1, data : Seq(Nat)],
           done : BOOLEAN, err : Errors]
    /\ Len(r.rc.data) <= Offset(r.rc.seq)
    /\ r.rc.started => Len(r.rc.data) < r.rc.want
    /\ r.done => Len(r.msg.data) <= MaxMessage

(* A buffer whose bytes are counted by its sequence number fits one message. *)
LEMMA FitsMessage ==
    ASSUME NEW r \in Assembly, Len(r.data) <= Offset(r.seq)
    PROVE  Len(r.data) <= MaxMessage
<1>1. r.seq \in Nat /\ MaxContinuations \in Nat /\ r.seq <= MaxContinuations
  BY FramingAssumption DEF Assembly, MaxContinuations
<1>2. Offset(r.seq) <= Offset(MaxContinuations)
  BY <1>1, OffsetMonotone
<1>3. Offset(r.seq) \in Nat /\ Offset(MaxContinuations) \in Nat
  BY <1>1, OffsetStep
<1>4. Len(r.data) \in Nat
  BY DEF Assembly
<1>5. QED
  BY <1>2, <1>3, <1>4 DEF MaxMessage

(* finish: it hands back a message no longer than the buffer, and otherwise *)
(* leaves a buffer that is still short of the promised length.              *)
LEMMA FinishSound ==
    ASSUME NEW r \in Assembly, r.started, Len(r.data) <= Offset(r.seq)
    PROVE  Sound(Finish(r))
<1>1. Len(r.data) <= MaxMessage /\ Len(r.data) \in Nat /\ r.want \in Nat
  BY FitsMessage DEF Assembly, Fields
<1>2. NoMessage \in [channel : Nat, cmd : 0 .. HighBit - 1, data : Seq(Nat)]
  BY FramingAssumption DEF NoMessage, Message
<1>3. CASE Len(r.data) < r.want
  <2>1. Finish(r) = [rc |-> r, msg |-> NoMessage, done |-> FALSE, err |-> "none"]
    BY <1>3 DEF Finish, Short
  <2>2. QED
    BY <1>2, <1>3, <2>1 DEF Sound, Errors
<1>4. CASE ~(Len(r.data) < r.want)
  <2> DEFINE q == Fields(r.channel, r.cmd, r.data, r.want, r.seq, FALSE)
             d == SubSeq(r.data, 1, r.want)
  <2>1. Finish(r) = [rc |-> q, msg |-> Message(r.channel, r.cmd, d), done |-> TRUE,
                     err |-> "none"]
    BY <1>4 DEF Finish, Short
  <2>2. q \in Assembly /\ q.started = FALSE /\ q.data = r.data /\ q.seq = r.seq
    BY DEF Assembly, Fields
  <2>3. r.want <= Len(r.data)
    BY <1>1, <1>4
  <2>4. d \in Seq(Nat) /\ Len(d) = r.want
    BY <1>1, <2>3 DEF Assembly, Fields
  <2>5. Message(r.channel, r.cmd, d) \in
           [channel : Nat, cmd : 0 .. HighBit - 1, data : Seq(Nat)]
    BY <2>4, ReassemblerAssumption DEF Message, Assembly, Fields
  <2>6. Message(r.channel, r.cmd, d).data = d
    BY DEF Message
  <2>7. Len(d) <= MaxMessage
    <3>1. Len(d) \in Nat
      BY <1>1, <2>4
    <3> HIDE DEF d
    <3>2. QED
      BY <1>1, <2>3, <2>4, <3>1, MaxMessageNat
  <2> HIDE DEF q, d
  <2>8. QED
    BY <2>1, <2>2, <2>5, <2>6, <2>7 DEF Sound, Errors
<1>5. QED
  BY <1>3, <1>4

(* A report carries at most one payload, whatever its size. *)
LEMMA BodyFits ==
    ASSUME NEW rep \in Report
    PROVE  /\ rep.val \in 0 .. HighBit - 1 /\ rep.len \in 0 .. LengthModulus - 1
           /\ rep.init \in BOOLEAN /\ rep.body \in Seq(Nat)
           /\ rep.init => Len(rep.body) <= initPayload
           /\ ~rep.init => Len(rep.body) <= contPayload
<1>1. /\ rep.val \in 0 .. HighBit - 1 /\ rep.len \in 0 .. LengthModulus - 1
      /\ rep.init \in BOOLEAN /\ rep.body \in Seq(Nat) /\ rep.size \in 0 .. ReportSize
      /\ Len(rep.body) = BodyLen(rep.size, IF rep.init THEN initHeader ELSE contHeader)
  BY DEF Report
<1>2. ASSUME NEW n \in 0 .. ReportSize
      PROVE  BodyLen(n, initHeader) <= initPayload /\ BodyLen(n, contHeader) <= contPayload
  BY FramingAssumption DEF BodyLen, initHeader, contHeader, initPayload, contPayload
<1>3. QED
  BY <1>1, <1>2

(* Bounds add up (a counted buffer and one more payload). *)
LEMMA SumBound ==
    ASSUME NEW a \in Int, NEW b \in Int, NEW c \in Int, NEW d \in Int, a <= c, b <= d
    PROVE  a + b <= c + d
  OBVIOUS

(* Feed keeps the invariant, whatever report it is given. *)
LEMMA FeedSound ==
    ASSUME NEW r \in Assembly, NEW rep \in Report,
           Len(r.data) <= Offset(r.seq), r.started => Len(r.data) < r.want
    PROVE  Sound(Feed(r, rep))
<1>1. ASSUME NEW e \in Errors
      PROVE  Sound(Refuse(r, e))
  <2>1. NoMessage \in [channel : Nat, cmd : 0 .. HighBit - 1, data : Seq(Nat)]
    BY FramingAssumption DEF NoMessage, Message
  <2>2. QED
    BY <2>1 DEF Sound, Refuse
<1>2. CASE \/ rep.size < contHeader
           \/ rep.ch # r.channel
           \/ rep.init /\ rep.size < initHeader
           \/ ~rep.init /\ (~r.started \/ rep.val # r.seq)
  BY <1>1, <1>2 DEF Feed, FeedInit, FeedCont, OutOfOrder, Errors
<1>3. CASE /\ ~(rep.size < contHeader) /\ ~(rep.ch # r.channel)
           /\ rep.init /\ ~(rep.size < initHeader)
  <2> DEFINE q == Fields(r.channel, rep.val, rep.body, rep.len, 0, TRUE)
  <2>1. Feed(r, rep) = Finish(q)
    BY <1>3 DEF Feed, FeedInit, FeedCont, OutOfOrder
  <2>2. Len(rep.body) <= initPayload
    BY <1>3, BodyFits
  <2>3. 0 \in 0 .. MaxContinuations /\ Offset(0) = initPayload
    BY FramingAssumption, OffsetStep DEF MaxContinuations, Offset
  <2>4. q \in Assembly
    BY <2>3 DEF Assembly, Fields, Report
  <2>5. Len(q.data) <= Offset(q.seq)
    BY <2>2, <2>3 DEF Fields
  <2>6. q.started
    BY DEF Fields
  <2> HIDE DEF q
  <2>7. QED
    BY <2>1, <2>4, <2>5, <2>6, FinishSound
<1>4. CASE /\ ~(rep.size < contHeader) /\ ~(rep.ch # r.channel)
           /\ ~rep.init /\ r.started /\ rep.val = r.seq
  <2> DEFINE q == Fields(r.channel, r.cmd, r.data \o rep.body, r.want, r.seq + 1, TRUE)
  <2>1. Feed(r, rep) = Finish(q)
    BY <1>4 DEF Feed, FeedInit, FeedCont, OutOfOrder
  <2>2. Len(rep.body) <= contPayload /\ contPayload \in Nat
    BY <1>4, BodyFits, OffsetStep
  <2>3. /\ r.seq \in Nat /\ r.seq + 1 \in 0 .. MaxContinuations
        /\ Offset(r.seq) \in Nat /\ Offset(r.seq + 1) = Offset(r.seq) + contPayload
    <3>1. rep.val \in 0 .. HighBit - 1
      BY DEF Report
    <3>2. r.seq \in Nat /\ r.seq + 1 \in 0 .. HighBit
      BY <1>4, <3>1, FramingAssumption
    <3>3. QED
      BY <3>2, OffsetStep DEF MaxContinuations
  <2>4. /\ r.data \o rep.body \in Seq(Nat)
        /\ Len(r.data \o rep.body) = Len(r.data) + Len(rep.body)
    BY DEF Assembly, Fields, Report
  <2>5. q \in Assembly /\ q.seq = r.seq + 1 /\ q.data = r.data \o rep.body /\ q.started
    BY <1>4, <2>3, <2>4 DEF Assembly, Fields
  <2>6. Len(q.data) <= Offset(q.seq)
    <3>1. Len(r.data) \in Int /\ Len(rep.body) \in Int
      BY BodyFits DEF Assembly
    <3>2. Offset(r.seq) \in Int /\ contPayload \in Int
      BY <2>2, <2>3
    <3>3. Len(r.data) + Len(rep.body) <= Offset(r.seq) + contPayload
      BY <2>2, <3>1, <3>2, SumBound, Zenon
    <3> HIDE DEF q
    <3>4. QED
      BY <2>3, <2>4, <2>5, <3>3
  <2> HIDE DEF q
  <2>7. QED
    BY <2>1, <2>5, <2>6, FinishSound
<1>5. QED
  BY <1>2, <1>3, <1>4 DEF Report

----------------------------------------------------------------------------
(* Spec => []IInv: types, the byte count behind a sequence number, and the  *)
(* two safety invariants that follow from it, for every stream of reports.  *)
THEOREM Invariance == Spec => []IInv
<1>1. Init => IInv
  <2> SUFFICES ASSUME Init PROVE IInv
    OBVIOUS
  <2>1. NoMessage \in [channel : Nat, cmd : 0 .. HighBit - 1, data : Seq(Nat)]
    BY FramingAssumption DEF NoMessage, Message
  <2>2. rc \in Assembly /\ rc.data = << >> /\ rc.seq = 0 /\ ~rc.started
    <3>1. 0 \in 0 .. HighBit - 1 /\ 0 \in 0 .. MaxContinuations
      BY FramingAssumption DEF MaxContinuations
    <3>2. 0 \in 0 .. LengthModulus - 1
      BY DEF LengthModulus
    <3>3. << >> \in Seq(Nat)
      OBVIOUS
    <3>4. QED
      BY <3>1, <3>2, <3>3 DEF Init, NewReassembler, Assembly, Fields
  <2>3. Len(rc.data) = 0 /\ 0 <= Offset(rc.seq) /\ 0 <= MaxMessage
    BY <2>2, OffsetStep, FramingAssumption DEF MaxMessage, MaxContinuations
  <2>4. QED
    BY <2>1, <2>2, <2>3
    DEF Init, IInv, TypeOK, Assembly, Fields, CountedBytes, WithinFraming, NeverHoldsBack, Errors
<1>2. IInv /\ [Next]_vars => IInv'
  <2> SUFFICES ASSUME IInv, [Next]_vars PROVE IInv'
    OBVIOUS
  <2>1. ASSUME NEW rep \in Reports, Receive(rep)
        PROVE  IInv'
    <3>1. rc \in Assembly /\ rep \in Report
      BY ReassemblerAssumption DEF IInv, TypeOK, Assembly, Fields
    <3>2. Sound(Feed(rc, rep))
      BY <3>1, FeedSound DEF IInv, CountedBytes, NeverHoldsBack
    <3>3. /\ rc' = Feed(rc, rep).rc
          /\ out' = [msg |-> Feed(rc, rep).msg, done |-> Feed(rc, rep).done,
                     err |-> Feed(rc, rep).err]
      BY <2>1 DEF Receive
    <3>4. rc' \in Assembly /\ Len(rc'.data) <= Offset(rc'.seq)
      BY <3>2, <3>3 DEF Sound
    <3>5. Len(rc'.data) <= MaxMessage
      BY <3>4, FitsMessage
    <3>6. QED
      BY <3>2, <3>3, <3>4, <3>5
      DEF Sound, IInv, TypeOK, Assembly, Fields, CountedBytes, WithinFraming, NeverHoldsBack
  <2>2. CASE UNCHANGED vars
    BY <2>2 DEF vars, IInv, TypeOK, CountedBytes, WithinFraming, NeverHoldsBack
  <2>3. QED
    BY <2>1, <2>2 DEF Next
<1>3. QED
  BY <1>1, <1>2, PTL DEF Spec

(* Type correctness of the reassembler under any stream of reports. *)
THEOREM TypeCorrect == Spec => []TypeOK
<1>1. IInv => TypeOK
  BY DEF IInv
<1>2. QED
  BY <1>1, Invariance, PTL

(* The buffer is what the sequence number accounts for. *)
THEOREM BytesCounted == Spec => []CountedBytes
<1>1. IInv => CountedBytes
  BY DEF IInv
<1>2. QED
  BY <1>1, Invariance, PTL

(* No message beyond the framing's limit, and no buffer beyond it either. *)
THEOREM FramingLimit == Spec => []WithinFraming
<1>1. IInv => WithinFraming
  BY DEF IInv
<1>2. QED
  BY <1>1, Invariance, PTL

(* A started reassembler is always short of what was promised. *)
THEOREM HoldsNothingBack == Spec => []NeverHoldsBack
<1>1. IInv => NeverHoldsBack
  BY DEF IInv
<1>2. QED
  BY <1>1, Invariance, PTL

(* Every refusal of Feed leaves the receiver's fields alone. *)
THEOREM RefusalHarmless == Spec => RefusalChangesNothing
<1>1. ASSUME NEW r, NEW rep
      PROVE  Feed(r, rep).err # "none" => Feed(r, rep).rc = r
  BY DEF Feed, FeedInit, FeedCont, OutOfOrder, Finish, Short, Refuse
<1>2. [Next]_vars => [out'.err # "none" => UNCHANGED rc]_vars
  <2> SUFFICES ASSUME NEW rep \in Reports, Receive(rep), out'.err # "none"
               PROVE  UNCHANGED rc
    BY DEF Next
  <2>1. rc' = Feed(rc, rep).rc /\ out'.err = Feed(rc, rep).err
    BY DEF Receive
  <2>2. QED
    BY <1>1, <2>1
<1>3. QED
  BY <1>2, PTL DEF Spec, RefusalChangesNothing
============================================================================
