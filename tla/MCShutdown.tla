----------------------------- MODULE MCShutdown -----------------------------
(* Shutdown for TLC: two SIGTERMs, enough for one handler to interrupt     *)
(* another and for both to interrupt drive_shutdown.                       *)
EXTENDS Shutdown
=============================================================================
