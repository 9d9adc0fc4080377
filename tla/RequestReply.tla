---------------------------- MODULE RequestReply ----------------------------
(***************************************************************************)
(* What a Key promises its caller about answers, without packets, reports, *)
(* channels or a device: a call is answered by the reply to one of the     *)
(* caller's own requests, for the same command, and every reply answers    *)
(* at most one call, in the order of the requests.  A caller whose calls   *)
(* all came back with an answer therefore gets the answer to this very     *)
(* request; after a call that failed, the answer may be an older one.      *)
(***************************************************************************)
EXTENDS Naturals, Sequences

CONSTANT Commands

VARIABLES
    sent,       \* the command of every request, in order
    consumed,   \* the last request whose reply has been used up
    busy,       \* a call is under way
    answer      \* what the last call returned: {j}, the reply to request j, or {}

vars == <<sent, consumed, busy, answer>>

Init == sent = << >> /\ consumed = 0 /\ busy = FALSE /\ answer = {}

Call ==
    /\ ~busy /\ busy' = TRUE
    /\ \E cmd \in Commands : sent' = Append(sent, cmd)
    /\ UNCHANGED <<consumed, answer>>

(* Refused before anything is sent. *)
Reject ==
    /\ ~busy /\ answer' = {}
    /\ UNCHANGED <<sent, consumed, busy>>

Answer ==
    /\ busy /\ busy' = FALSE
    /\ \E j \in consumed + 1 .. Len(sent) :
          sent[j] = sent[Len(sent)] /\ consumed' = j /\ answer' = {j}
    /\ UNCHANGED sent

(* A failed call may use up replies that no caller ever sees. *)
Fail ==
    /\ busy /\ busy' = FALSE
    /\ consumed' \in consumed .. Len(sent) /\ answer' = {}
    /\ UNCHANGED sent

Next == Call \/ Reject \/ Answer \/ Fail

Spec == Init /\ [][Next]_vars
=============================================================================
