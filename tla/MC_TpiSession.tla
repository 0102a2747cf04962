---------------------------- MODULE MC_TpiSession ----------------------------
(***************************************************************************)
(* TpiSession for TLC: two reconnect tasks, one or two reconfigure flows,  *)
(* and a repair issue after two failures instead of five.                  *)
(***************************************************************************)
EXTENDS SessionRefinement, TpiSessionInv

AllFaults == {"eof", "reset", "silent", "hang", "auth"}
TcpFaults == {"eof", "reset", "silent"}
=============================================================================
