------------------------------ MODULE CTAPHID ------------------------------
(***************************************************************************)
(* The CTAPHID framing of fido.go: how a message is cut into reports and   *)
(* put back together, and how the INIT reply is read.  Everything here is  *)
(* a pure operator; the state machines are in Reassembler, Framing and     *)
(* Session.                                                                *)
(*                                                                         *)
(* A report is a record:                                                   *)
(*   size  how many bytes arrived                                          *)
(*   ch    bytes 0..3, the channel                                         *)
(*   init  the high bit of byte 4; val, its other seven bits: a command    *)
(*         when init, a sequence number otherwise                          *)
(*   len   bytes 5..6, meaningful in an initialisation packet only         *)
(*   body  the payload bytes after the header                              *)
(***************************************************************************)
EXTENDS Integers, Sequences

CONSTANTS
    ReportSize,        \* bytes in a report (64 in the code)
    HighBit,           \* the bit that marks a command byte (0x80 in the code)
    BroadcastChannel   \* the channel CmdInit is sent on

initHeader == 7   \* channel, command, two length bytes
contHeader == 5   \* channel, sequence number
initPayload == ReportSize - initHeader
contPayload == ReportSize - contHeader

(* A sequence number shares its byte with the command mark, so it stays below HighBit. *)
MaxContinuations == HighBit

(* Bytes carried by the initialisation packet and k continuation packets. *)
Offset(k) == initPayload + k * contPayload

MaxMessage == Offset(MaxContinuations)

(* The length field is 16 bits wide: uint16(len(data)). *)
LengthModulus == 65536

LengthField(n) == n % LengthModulus

ASSUME FramingAssumption ==
    /\ ReportSize \in Nat /\ ReportSize > initHeader
    /\ HighBit \in Nat \ {0}
    /\ MaxMessage < LengthModulus

(***************************************************************************)
(* Commands, as the low seven bits of the command byte.                    *)
(***************************************************************************)
CmdPing      == 1
CmdMsg       == 3
CmdInit      == 6
CmdWink      == 8
CmdCBOR      == 16
CmdKeepalive == 59
CmdError     == 63

Message(channel, cmd, data) == [channel |-> channel, cmd |-> cmd, data |-> data]

IsError(m) == m.cmd = CmdError

----------------------------------------------------------------------------
(***************************************************************************)
(* Split.                                                                  *)
(***************************************************************************)

(* Byte p of the message's payload area: data, then zero padding. *)
PadByte(data, p) == IF p \in 1 .. Len(data) THEN data[p] ELSE 0

InitPacket(channel, cmd, data) ==
    [size |-> ReportSize, ch |-> channel, init |-> TRUE, val |-> cmd,
     len  |-> LengthField(Len(data)),
     body |-> [j \in 1 .. initPayload |-> PadByte(data, j)]]

(* The packet numbered seq.  p[4] = byte(seq): from HighBit on, the number *)
(* would set the command mark.                                             *)
ContPacket(channel, data, seq) ==
    [size |-> ReportSize, ch |-> channel,
     init |-> (seq % (2 * HighBit)) >= HighBit, val |-> seq % HighBit,
     len  |-> 0,
     body |-> [j \in 1 .. contPayload |-> PadByte(data, Offset(seq) + j)]]

(* Mutant: the last, partly filled packet is forgotten. *)
ContinuationsWhole(n) ==
    IF n <= initPayload THEN 0 ELSE (n - initPayload) \div contPayload

(* Turns of the loop "for seq := 0; n < len(data); seq++". *)
Continuations(n) ==
    IF n <= initPayload THEN 0
    ELSE (n - initPayload + contPayload - 1) \div contPayload

Packets(n) == 1 + Continuations(n)

Packet(channel, cmd, data, i) ==
    IF i = 1 THEN InitPacket(channel, cmd, data) ELSE ContPacket(channel, data, i - 2)

(* Mutants: the limit is one byte too high; the limit is the length field's. *)
TooLongByOne(data) == Len(data) > MaxMessage + 1
TooLongForField(data) == Len(data) >= LengthModulus

TooLong(data) == Len(data) > MaxMessage

Split(channel, cmd, data) ==
    IF TooLong(data)
    THEN [err |-> "ErrTooLong", packets |-> << >>]
    ELSE [err |-> "none",
          packets |-> [i \in 1 .. Packets(Len(data)) |-> Packet(channel, cmd, data, i)]]

----------------------------------------------------------------------------
(***************************************************************************)
(* Reassembler.  Feed returns what the method returns (msg, done, err) and *)
(* the receiver's fields afterwards (rc).                                  *)
(***************************************************************************)
Fields(channel, cmd, data, want, seq, started) ==
    [channel |-> channel, cmd |-> cmd, data |-> data, want |-> want, seq |-> seq,
     started |-> started]

NewReassembler(channel) == Fields(channel, 0, << >>, 0, 0, FALSE)

NoMessage == Message(0, 0, << >>)

(* Mutant: a refused report ends the message under way. *)
RefuseAll(rc, e) ==
    [rc |-> NewReassembler(rc.channel), msg |-> NoMessage, done |-> FALSE, err |-> e]

Refuse(rc, e) == [rc |-> rc, msg |-> NoMessage, done |-> FALSE, err |-> e]

(* Mutant: off by one, a message that fills its packets is never done. *)
ShortLate(rc) == Len(rc.data) <= rc.want

Short(rc) == Len(rc.data) < rc.want

Finish(rc) ==
    IF Short(rc)
    THEN [rc |-> rc, msg |-> NoMessage, done |-> FALSE, err |-> "none"]
    ELSE [rc   |-> Fields(rc.channel, rc.cmd, rc.data, rc.want, rc.seq, FALSE),
          msg  |-> Message(rc.channel, rc.cmd, SubSeq(rc.data, 1, rc.want)),
          done |-> TRUE,
          err  |-> "none"]

(* Mutant: an initialisation packet adds to the bytes of a broken-off message. *)
FeedInitAppends(rc, report) ==
    IF report.size < initHeader THEN Refuse(rc, "ErrShortPacket")
    ELSE Finish(Fields(rc.channel, report.val,
                       (IF rc.started THEN rc.data ELSE << >>) \o report.body,
                       report.len, 0, TRUE))

FeedInit(rc, report) ==
    IF report.size < initHeader THEN Refuse(rc, "ErrShortPacket")
    ELSE Finish(Fields(rc.channel, report.val, report.body, report.len, 0, TRUE))

(* Mutant: the sequence number is not compared. *)
OutOfOrderNever(rc, report) == ~rc.started

OutOfOrder(rc, report) == ~rc.started \/ report.val # rc.seq

FeedCont(rc, report) ==
    IF OutOfOrder(rc, report) THEN Refuse(rc, "ErrOutOfOrder")
    ELSE Finish(Fields(rc.channel, rc.cmd, rc.data \o report.body, rc.want,
                       rc.seq + 1, TRUE))

Feed(rc, report) ==
    IF report.size < contHeader THEN Refuse(rc, "ErrShortPacket")
    ELSE IF report.ch # rc.channel THEN Refuse(rc, "ErrWrongChannel")
    ELSE IF report.init THEN FeedInit(rc, report)
    ELSE FeedCont(rc, report)

----------------------------------------------------------------------------
(***************************************************************************)
(* The INIT reply.  The nonce, the channel and the capabilities stand for  *)
(* their 8, 4 and 1 bytes, one symbol each; the version is left out.       *)
(***************************************************************************)
InitReplyLen == 3

InitReply(nonce, channel, caps) == <<nonce, channel, caps>>

ParseInit(data) ==
    IF Len(data) < InitReplyLen
    THEN [err |-> "ErrTruncated"]
    ELSE [err |-> "none", nonce |-> data[1], channel |-> data[2], caps |-> data[3]]

(* Capability bits, and whether the bit cap is set in caps. *)
CapWink == 1
CapCBOR == 4

Has(caps, cap) == (caps \div cap) % 2 = 1
============================================================================
