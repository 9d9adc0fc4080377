----------------------------- MODULE MCFraming -----------------------------
(* Framing on 8-byte reports (payloads of 1 and 3) with four sequence        *)
(* numbers: messages of 0 to 13 bytes, one beyond the limit.                 *)
EXTENDS Framing

MCPayloads == {[j \in 1 .. n |-> (7 * j + n) % 3] : n \in 0 .. MaxMessage + 1}
============================================================================
