--------------------------- MODULE MCReassembler ---------------------------
(* Reassembler on 8-byte reports (payloads of 1 and 3) with two sequence    *)
(* numbers, so that the longest message is 7 bytes and a length field can   *)
(* promise more.                                                            *)
EXTENDS Reassembler

MCSizes == {4, 5, 6, 7, 8}
MCLens == {0, 1, 2, 4, 6, 7, 8, 20}

MCReport(size, ch, init, val, len) ==
    [size |-> size, ch |-> ch, init |-> init, val |-> val, len |-> len,
     body |-> [j \in 1 .. BodyLen(size, IF init THEN initHeader ELSE contHeader) |->
                  (val + j) % 2]]

MCReports ==
    {MCReport(s, c, TRUE, v, n) : s \in MCSizes, c \in {1, 2}, v \in {0, 1}, n \in MCLens}
    \cup {MCReport(s, c, FALSE, v, 0) : s \in MCSizes, c \in {1, 2}, v \in {0, 1}}
============================================================================
