----------------------------- MODULE MCSession -----------------------------
(* Session on 10-byte reports (payloads of 3 and 5): an INIT reply fits its  *)
(* initialisation packet, a ping of 4 bytes takes two reports, one of 324    *)
(* is too long for 64 sequence numbers.                                      *)
EXTENDS Session

MCFaults == {"good", "error", "command", "empty", "status", "short", "none", "cut"}
MCCaps == {0, CapWink + CapCBOR}
MCTooLong == MaxMessage + 1
MCPings == {1, 4, MCTooLong}
============================================================================
