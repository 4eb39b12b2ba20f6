------------------------------ MODULE MCSource ------------------------------
(* Source for TLC: passthrough, batching by size, by delay and by both.    *)
EXTENDS Source

MCConfigs ==
  { [size |-> 0, delay |-> FALSE], [size |-> 2, delay |-> FALSE],
    [size |-> 2, delay |-> TRUE],  [size |-> 0, delay |-> TRUE] }
=============================================================================
