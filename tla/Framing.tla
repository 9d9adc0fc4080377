------------------------------ MODULE Framing ------------------------------
(***************************************************************************)
(* Split at one end and a Reassembler at the other (fido.go): messages go  *)
(* out packet by packet, a sender may stop in the middle (a Send that      *)
(* fails in roundTrip's loop), and reports of other channels and runts     *)
(* arrive in between.                                                      *)
(***************************************************************************)
EXTENDS CTAPHID

CONSTANTS
    Channel,        \* the channel of both ends
    OtherChannel,   \* another program's
    Commands,       \* the commands sent
    Payloads        \* the payloads a caller may ask for

ASSUME EndsAssumption ==
    /\ Channel # OtherChannel
    /\ Payloads \subseteq Seq(Nat)
    /\ Commands \subseteq 0 .. HighBit - 1

VARIABLES
    cur,    \* the message being sent, or sent last
    next,   \* the number of its next packet, 0 when no message is being sent
    rc,     \* the reassembler
    out     \* what the last Feed returned, and which packet it was given (0: not ours)

vars == <<cur, next, rc, out>>

Quiet == [msg |-> NoMessage, done |-> FALSE, err |-> "none", packet |-> 0]

Init ==
    /\ cur = [cmd |-> 0, data |-> << >>] /\ next = 0
    /\ rc = NewReassembler(Channel) /\ out = Quiet

(* Split accepts the message. *)
Start(cmd, data) ==
    /\ next = 0 /\ Split(Channel, cmd, data).err = "none"
    /\ cur' = [cmd |-> cmd, data |-> data] /\ next' = 1 /\ out' = Quiet
    /\ UNCHANGED rc

Fed(report, packet) ==
    LET f == Feed(rc, report) IN
    /\ rc' = f.rc
    /\ out' = [msg |-> f.msg, done |-> f.done, err |-> f.err, packet |-> packet]

Deliver ==
    /\ next # 0
    /\ Fed(Packet(Channel, cur.cmd, cur.data, next), next)
    /\ next' = IF next = Packets(Len(cur.data)) THEN 0 ELSE next + 1
    /\ UNCHANGED cur

(* A Send failed: the rest of the message is never sent. *)
Abandon ==
    /\ next > 1
    /\ next' = 0 /\ out' = Quiet
    /\ UNCHANGED <<cur, rc>>

Runt == [size |-> contHeader - 1, ch |-> Channel, init |-> FALSE, val |-> 0,
         len |-> 0, body |-> << >>]

(* A report of another channel, or one too short to be a packet. *)
Stray ==
    /\ \E report \in {InitPacket(OtherChannel, CmdPing, << >>), Runt} : Fed(report, 0)
    /\ UNCHANGED <<cur, next>>

Next ==
    \/ \E cmd \in Commands, data \in Payloads : Start(cmd, data)
    \/ Deliver
    \/ Abandon
    \/ Stray

Spec == Init /\ [][Next]_vars

----------------------------------------------------------------------------
(* The first n bytes of a message, padding included. *)
Carried(data, n) == [p \in 1 .. n |-> PadByte(data, p)]

TypeOK ==
    /\ cur.data \in Seq(Nat) /\ Len(cur.data) <= MaxMessage
    /\ cur.cmd \in 0 .. HighBit - 1
    /\ next \in 0 .. Packets(Len(cur.data))
    /\ rc.channel = Channel
    /\ out.packet \in 0 .. Packets(Len(cur.data))

(* In the middle of a message the reassembler holds exactly what has been    *)
(* sent of it, whatever came before: a message that was broken off, another  *)
(* program's reports, runts.                                                 *)
InStep ==
    next > 1 => rc = Fields(Channel, cur.cmd, Carried(cur.data, Offset(next - 2)),
                            Len(cur.data), next - 2, TRUE)

(* Every message that Split accepts comes out of Feed unchanged, at its last *)
(* packet and not before, and no packet of it is refused, at any length up   *)
(* to MaxMessage; so the limits at both ends are the same (Split, Feed).     *)
Unchanged ==
    out.packet # 0 =>
        /\ out.err = "none"
        /\ out.done <=> out.packet = Packets(Len(cur.data))
        /\ out.done => out.msg = Message(Channel, cur.cmd, cur.data)

IInv == TypeOK /\ InStep /\ Unchanged
============================================================================
