------------------------------ MODULE MCControl ------------------------------
(* Control for TLC: a pipeline of at most two connectors and a processor,   *)
(* with and without a DLQ, started or not.                                  *)
EXTENDS Control
=============================================================================
