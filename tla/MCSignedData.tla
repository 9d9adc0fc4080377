---------------------------- MODULE MCSignedData ----------------------------
(* Authenticator data with and without a credential, extensions, both; keys  *)
(* of two-byte coordinates, one of them small, and two points of the same x. *)
EXTENDS SignedData

Rep(n, v) == [i \in 1 .. n |-> v]

MCAuthData(flags, id, key, ext) ==
    [err |-> "none", rpIDHash |-> Rep(rpIDHashLen, 170), flags |-> flags,
     signCount |-> <<0, 0, 0, 9>>,
     attested |-> IF FlagHas(flags, FlagAT)
                  THEN [aaguid |-> Rep(aaguidLen, 187), id |-> id, key |-> key]
                  ELSE NoAttested,
     extensions |-> IF FlagHas(flags, FlagED) THEN ext ELSE << >>]

MCWritten ==
    {MCAuthData(flags, id, key, ext) :
        flags \in {1, 1 + FlagAT, 1 + FlagED, 5 + FlagAT + FlagED},
        id \in {<< >>, <<1>>, <<1, 2, 3>>}, key \in {<<66, 1, 2>>, <<7>>},
        ext \in {<<3>>, <<65, 9>>}}

MCBytes == {0, 1, 2, 65, 69, 193, 255}

MCInts == {0, 1, 2, -7, -25}
MCCurve == {<<7, 513>>, <<7, 65023>>, <<258, 1>>, <<16641, 514>>, <<1, 66>>}
=============================================================================
