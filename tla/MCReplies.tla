----------------------------- MODULE MCReplies -----------------------------
(* Two accounts of one relying party, one of them with a user who has no     *)
(* display name and one with a relying party that has no name; a token that  *)
(* is the authenticator's and one that is not.  Replies to the other calls,  *)
(* with and without their optional members, and replies that should not be.  *)
EXTENDS Credentials, TLC

MCAccounts ==
    {[rp |-> [id |-> 1, name |-> 1], user |-> [id |-> 1, name |-> 1, displayName |-> 0]],
     [rp |-> [id |-> 1, name |-> 0], user |-> [id |-> 2, name |-> 1, displayName |-> 1]]}

MCAlgLists == {<< >>, <<-8, -7>>}
MCSupported == {-7, -8}
MCOptionSets == {{}, {"rk"}}

Raw(of) == Bytes(32, "token", of)
MCtok == [proto |-> PINProtocolTwo, raw |-> Raw(1)]
MCTokens == {NoToken, MCtok, [proto |-> PINProtocolTwo, raw |-> Raw(2)]}

MCPoints == <<<<7, 513>>, <<258, 1>>, <<16641, 514>>>>
MCCurve == {MCPoints[i] : i \in 1 .. 3}

MCShapes ==
    [GetInfo |->
        {1 :> Item("texts"),
         1 :> Item("texts") @@ 2 :> Item("texts") @@ 3 :> ByteString(Rep(16, 1))
           @@ 4 :> Item("options") @@ 5 :> Item("int") @@ 6 :> Item("ints") @@ 9 :> Item("texts")},
     PINRetries   |-> {3 :> Item("int"), 3 :> Item("int") @@ 4 :> Item("bool")},
     KeyAgreement |-> {1 :> KeyItem(ecdhToCOSE(MCPoints[2]))},
     PINToken     |-> {2 :> ByteString(Rep(n, 7)) : n \in {16, 32, 48}}]

NoCredential(flags) == ByteString(Rep(rpIDHashLen, 1) \o <<flags, 0, 0, 0, 9>>)

(* Zero bytes of a token's length are no authenticator data; a key off the    *)
(* curve; a description of the wrong type, which PINRetries would take.       *)
MCBadShapes ==
    [GetInfo |-> {3 :> ByteString(Rep(16, 1)), 1 :> Item("texts") @@ 3 :> ByteString(Rep(4, 1)),
                  3 :> Item("int")},
     PINRetries   |-> {4 :> Item("bool"), 3 :> ByteString(<<8>>)},
     KeyAgreement |-> {<< >>, 1 :> KeyItem(ecdhToCOSE(<<1, 1>>))},
     PINToken     |-> {2 :> ByteString(Rep(8, 7))},
     MakeCredential |->
        {1 :> Item("text") @@ 2 :> b :
           b \in {NoCredential(5), NoCredential(5 + FlagAT), ByteString(<< >>), ByteString(Rep(48, 0))}},
     GetAssertion |-> {2 :> NoCredential(5) @@ 3 :> ByteString(<< >>), 2 :> NoCredential(5),
                       2 :> ByteString(Rep(16, 0)) @@ 3 :> ByteString(<<9>>)}]
============================================================================
