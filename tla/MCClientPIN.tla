---------------------------- MODULE MCClientPIN ----------------------------
(* ClientPIN with a right, a wrong and an empty PIN.                         *)
EXTENDS ClientPIN

MCPins == {0, 1, 2}
MCLens == {16, 20, 32}
MCAtStart == {<<4, 0>>, <<2, 2>>}
============================================================================
