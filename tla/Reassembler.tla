---------------------------- MODULE Reassembler ----------------------------
(***************************************************************************)
(* One Reassembler of fido.go fed whatever a key, a counterfeit or an      *)
(* emulator sends: any report, in any order, for ever.                     *)
(***************************************************************************)
EXTENDS CTAPHID

CONSTANTS
    Channel,   \* the channel NewReassembler was given
    Reports    \* the reports that may arrive

(* A report of at most ReportSize bytes; the body is what the header leaves. *)
BodyLen(size, header) == IF size < header THEN 0 ELSE size - header

Report ==
    {rep \in [size : 0 .. ReportSize, ch : Nat, init : BOOLEAN, val : 0 .. HighBit - 1,
              len : 0 .. LengthModulus - 1, body : Seq(Nat)] :
        Len(rep.body) = BodyLen(rep.size, IF rep.init THEN initHeader ELSE contHeader)}

ASSUME ReassemblerAssumption ==
    /\ Channel \in Nat
    /\ \A rep \in Reports : rep \in Report

VARIABLES
    rc,    \* the receiver's fields
    out    \* what the last Feed returned: msg, done, err

vars == <<rc, out>>

Errors == {"none", "ErrShortPacket", "ErrWrongChannel", "ErrOutOfOrder"}

TypeOK ==
    /\ rc \in [channel : {Channel}, cmd : 0 .. HighBit - 1, data : Seq(Nat),
               want : 0 .. LengthModulus - 1, seq : 0 .. MaxContinuations, started : BOOLEAN]
    /\ out \in [msg : [channel : Nat, cmd : 0 .. HighBit - 1, data : Seq(Nat)],
                done : BOOLEAN, err : Errors]

Init ==
    /\ rc = NewReassembler(Channel)
    /\ out = [msg |-> NoMessage, done |-> FALSE, err |-> "none"]

Receive(report) ==
    LET r == Feed(rc, report) IN
    /\ rc' = r.rc
    /\ out' = [msg |-> r.msg, done |-> r.done, err |-> r.err]

Next == \E report \in Reports : Receive(report)

Spec == Init /\ [][Next]_vars

----------------------------------------------------------------------------
(* Whatever is fed, no message longer than the framing can carry is handed  *)
(* back, and the buffer behind it never outgrows one such message: the      *)
(* sequence number check ends every stream at MaxContinuations, although    *)
(* the length field promises up to 65535 bytes (Reassembler.Feed; the       *)
(* bound FuzzReassembler asserts).                                          *)
WithinFraming ==
    /\ Len(rc.data) <= MaxMessage
    /\ out.done => Len(out.msg.data) <= MaxMessage

(* A reassembler that is in the middle of a message is still short of the   *)
(* length that was promised: no complete message waits inside it for a      *)
(* report that the key has no reason to send (finish after every append).   *)
NeverHoldsBack == rc.started => Len(rc.data) < rc.want

(* A refused report leaves the message being assembled as it was, so that   *)
(* another program's report or a stray packet in between cannot damage it   *)
(* (the early returns of Feed come before every assignment).                *)
RefusalChangesNothing == [][out'.err # "none" => UNCHANGED rc]_vars

----------------------------------------------------------------------------
(* The inductive invariant: sequence numbers count the bytes that arrived.  *)
CountedBytes == Len(rc.data) <= Offset(rc.seq)

IInv == TypeOK /\ CountedBytes /\ WithinFraming /\ NeverHoldsBack
============================================================================
