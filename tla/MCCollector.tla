---------------------------- MODULE MCCollector ----------------------------
(* Collector for TLC: batching by size, by delay and by both, and a larger *)
(* size that a delay can cut short, over at most five items.               *)
EXTENDS Collector

MCConfigs ==
  { [size |-> 2, delay |-> FALSE], [size |-> 2, delay |-> TRUE],
    [size |-> 0, delay |-> TRUE],  [size |-> 3, delay |-> TRUE] }
=============================================================================
