--------------------------- MODULE MCDestination ---------------------------
(* Destination for TLC: passthrough, batching by size, by delay and by     *)
(* both, with two records at most in a request.                            *)
EXTENDS Destination

MCConfigs ==
  { [size |-> 0, delay |-> FALSE], [size |-> 2, delay |-> FALSE],
    [size |-> 2, delay |-> TRUE],  [size |-> 0, delay |-> TRUE] }

\* Exceptions that say something, and one that says nothing (TimeoutError()).
Spoken == {"boom"}
SpokenOrEmpty == {"boom", ""}
=============================================================================
