----------------------------- MODULE PinPrompt -----------------------------
(***************************************************************************)
(* What asking a person for a PIN costs, without keys, ciphertexts,        *)
(* protocols or replies: a PIN that is typed is offered to the             *)
(* authenticator at most once and never after its prompt is over, a wrong  *)
(* one costs at most one attempt, and a prompt is granted only if the      *)
(* authenticator found this very PIN right.  Two things are beyond the     *)
(* caller: what is done to the authenticator elsewhere, and that an offer  *)
(* already made is judged after its prompt was given up.                   *)
(***************************************************************************)
EXTENDS Naturals

CONSTANTS Pins, RightPin, MaxRetries

VARIABLES
    now,      \* numbers the prompts
    typed,    \* the PIN of the prompt under way, 0 when there is none
    offered,  \* PINs the authenticator has not judged: prompt, pin
    spent,    \* has this prompt's PIN been offered?
    left,     \* attempts left
    right,    \* the last prompt whose PIN was found right
    granted   \* the last prompt that was granted

vars == <<now, typed, offered, spent, left, right, granted>>

Init ==
    /\ now = 0 /\ typed = 0 /\ offered = {} /\ spent = FALSE
    /\ left \in 0 .. MaxRetries /\ right = 0 /\ granted = 0

(* Calls that need no PIN are numbered too, and an empty PIN is refused. *)
Other == typed = 0 /\ now' = now + 1 /\ UNCHANGED <<typed, offered, spent, left, right, granted>>

Prompt ==
    /\ typed = 0 /\ now' = now + 1
    /\ typed' \in Pins \ {0}
    /\ UNCHANGED <<offered, spent, left, right, granted>>

Offer ==
    /\ typed # 0 /\ ~spent /\ spent' = TRUE
    /\ offered' = offered \cup {[prompt |-> now, pin |-> typed]}
    /\ UNCHANGED <<now, typed, left, right, granted>>

Judged(offer) == offered' = offered \ {offer} /\ UNCHANGED <<now, typed, spent, granted>>

FoundRight(offer) ==
    /\ Judged(offer) /\ left > 0 /\ offer.pin = RightPin
    /\ left' = MaxRetries /\ right' = offer.prompt

(* Wrong, or hidden under a key that changed elsewhere, or not even looked at. *)
NotRight(offer) == Judged(offer) /\ left' \in {left, left - 1} \cap Nat /\ UNCHANGED right

Grant ==
    /\ typed # 0 /\ spent /\ right = now
    /\ granted' = now /\ typed' = 0 /\ spent' = FALSE
    /\ UNCHANGED <<now, offered, left, right>>

Deny ==
    /\ typed # 0 /\ typed' = 0 /\ spent' = FALSE
    /\ UNCHANGED <<now, offered, left, right, granted>>

(* Another program offers a PIN. *)
Elsewhere ==
    /\ left > 0 /\ left' \in {left - 1, MaxRetries}
    /\ UNCHANGED <<now, typed, offered, spent, right, granted>>

(* Unplugged: whatever was offered is forgotten, and so is the prompt. *)
Unplug ==
    /\ offered' = {} /\ typed' = 0 /\ spent' = FALSE
    /\ UNCHANGED <<now, left, right, granted>>

Next ==
    \/ Other \/ Prompt \/ Offer
    \/ \E offer \in offered : FoundRight(offer) \/ NotRight(offer)
    \/ Grant \/ Deny \/ Elsewhere \/ Unplug

Spec == Init /\ [][Next]_vars
============================================================================
