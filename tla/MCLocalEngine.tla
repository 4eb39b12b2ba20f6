---------------------------- MODULE MCLocalEngine ----------------------------
(* LocalEngine for TLC: two hosts on a machine with two ports, so that they *)
(* may be given the same one.                                               *)
EXTENDS LocalEngine
=============================================================================
