-------------------------- MODULE CollectorProofs --------------------------
(***************************************************************************)
(* The safety of collect_batches for every set of configurations and every *)
(* length of the item stream.                                              *)
(*                                                                         *)
(* NothingLostInOrder, BatchWithinSize and TimerBelongsToBatch are not     *)
(* inductive alone: what a step does to the buffer depends on what the     *)
(* generator's control state says of next_task and of the timer.  Control  *)
(* adds those facts, and Inv is inductive.                                 *)
(***************************************************************************)
EXTENDS Collector, SequenceTheorems, TLAPS

\* What the control state of the generator says of its tasks.
Control ==
  /\ config \in [size : Nat, delay : BOOLEAN]
  /\ where = "idle" => next = "none" /\ timer = "none" /\ buffer = <<>>
                         /\ taken = 0 /\ emitted = 0
  /\ where \in Suspended => Enabled(config)
  /\ where = "wait" => next # "none"
  /\ where \in {"size", "end"} => next = "none"
  /\ where \in Over => next = "none" /\ buffer = <<>>

\* The inductive invariant.
Inv ==
  /\ TypeOK
  /\ Control
  /\ NothingLostInOrder
  /\ BatchWithinSize
  /\ TimerBelongsToBatch

\* The inductive invariant holds of a generator that has not started.
LEMMA InitInv == Init => Inv
  BY ConfigsAssumption
  DEF Init, Inv, TypeOK, Control, NothingLostInOrder, BatchWithinSize, TimerBelongsToBatch,
      Unemitted, Yielding, Disabled, Suspended, Over

\* A buffer numbered consecutively from `base` stays so when the next item is
\* appended to it.
LEMMA AppendNumbered ==
  ASSUME NEW s \in Seq(Nat), NEW base \in Int, NEW x \in Nat,
         \A i \in 1..Len(s) : s[i] = base + i,
         x = base + Len(s) + 1
  PROVE  \A i \in 1..Len(Append(s, x)) : Append(s, x)[i] = base + i
  <1> SUFFICES ASSUME NEW i \in 1..Len(Append(s, x))
               PROVE  Append(s, x)[i] = base + i
    OBVIOUS
  <1>1. /\ Len(s) \in Nat /\ Len(Append(s, x)) = Len(s) + 1
        /\ \A j \in 1..Len(s) : Append(s, x)[j] = s[j]
        /\ Append(s, x)[Len(s) + 1] = x
    BY AppendProperties, LenProperties
  <1>2. CASE i \in 1..Len(s)
    BY <1>1, <1>2
  <1>3. CASE i = Len(s) + 1
    BY <1>1, <1>3
  <1> QED
    BY <1>1, <1>2, <1>3

\* Every step of the generator, its consumer and its item stream keeps it.
LEMMA NextInv == Inv /\ [Next]_collectorVars => Inv'
  <1> SUFFICES ASSUME Inv, [Next]_collectorVars
               PROVE  Inv'
    OBVIOUS
  <1> USE ConfigsAssumption, MaxItemsAssumption
      DEF Inv, TypeOK, Control, NothingLostInOrder, BatchWithinSize, TimerBelongsToBatch,
          Unemitted, Yielding, Suspended, Over, Disabled, Enabled, Reached
  <1>0. /\ Append(buffer, item) \in Seq(Nat)
        /\ Append(buffer, item) # <<>>
        /\ Len(Append(buffer, item)) = Len(buffer) + 1
        /\ \A i \in 1..Len(buffer) : Append(buffer, item)[i] = buffer[i]
        /\ Append(buffer, item)[Len(buffer) + 1] = item
    BY AppendProperties
  <1>1. CASE Configure
    BY <1>1 DEF Configure
  <1>2. CASE Start
    BY <1>2 DEF Start
  <1>3. CASE TimerFires
    BY <1>3 DEF TimerFires
  <1>4. CASE FlushOnDelay
    BY <1>4 DEF FlushOnDelay
  <1>5. CASE Accumulate
    <2>1. /\ next = "item" /\ where = "wait" /\ where' = "wait" /\ next' = "pending"
          /\ buffer' = Append(buffer, item) /\ item' = 0
          /\ config' = config /\ taken' = taken
          /\ emitted' = emitted
          /\ timer' = IF config.delay /\ timer = "none" THEN "running" ELSE timer
      BY <1>5 DEF Accumulate, ItemArrived
    <2>2. ~(config.size > 0 /\ Len(buffer) + 1 >= config.size)
      BY <1>5 DEF Accumulate
    <2>3. TypeOK' /\ Control'
      BY <2>1, <1>0
    <2>4. NothingLostInOrder'
      <3>1. taken = emitted + Len(buffer) + 1 /\ item = emitted + Len(buffer) + 1
        BY <2>1
      <3>2. \A i \in 1..Len(buffer) : buffer[i] = emitted + i
        BY <2>1
      <3>3. \A i \in 1..Len(buffer') : buffer'[i] = emitted' + i
        <4> HIDE DEF Inv, NothingLostInOrder, BatchWithinSize, TimerBelongsToBatch, Control
        <4>1. buffer \in Seq(Nat) /\ emitted \in Int /\ item \in Nat
          BY DEF Inv
        <4>2. \A i \in 1..Len(Append(buffer, item)) : Append(buffer, item)[i] = emitted + i
          BY <4>1, <3>1, <3>2, AppendNumbered
        <4> QED
          BY <4>2, <2>1
      <3> QED
        BY <2>1, <3>1, <3>3, <1>0
    <2>5. BatchWithinSize'
      BY <2>1, <2>2, <1>0
    <2>6. TimerBelongsToBatch'
      BY <2>1, <1>0
    <2> QED
      BY <2>3, <2>4, <2>5, <2>6
  <1>6. CASE FlushOnSize
    <2>1. /\ next = "item" /\ where = "wait" /\ where' = "size" /\ next' = "none"
          /\ buffer' = Append(buffer, item) /\ item' = 0 /\ config' = config
          /\ taken' = taken /\ emitted' = emitted + Len(buffer) + 1 /\ timer' = "none"
      BY <1>6 DEF FlushOnSize, ItemArrived
    <2>2. /\ taken = emitted + Len(buffer) + 1
          /\ item = emitted + Len(buffer) + 1
          /\ \A i \in 1..Len(buffer) : buffer[i] = emitted + i
      BY <2>1
    <2>3. TypeOK' /\ Control'
      BY <2>1, <2>2, <1>0
    <2>4. NothingLostInOrder'
      <3>1. \A i \in 1..Len(buffer') : buffer'[i] = (emitted' - Len(buffer')) + i
        <4> HIDE DEF Inv, NothingLostInOrder, BatchWithinSize, TimerBelongsToBatch, Control
        <4>1. buffer \in Seq(Nat) /\ emitted \in Int /\ item \in Nat /\ Len(buffer) \in Nat
          BY LenProperties DEF Inv
        <4>2. \A i \in 1..Len(Append(buffer, item)) : Append(buffer, item)[i] = emitted + i
          BY <4>1, <2>2, AppendNumbered
        <4>3. emitted' - Len(buffer') = emitted
          BY <4>1, <2>1, <1>0
        <4> QED
          BY <4>2, <4>3, <2>1
      <3> QED
        BY <2>1, <2>2, <3>1, <1>0
    <2>5. BatchWithinSize'
      BY <2>1, <1>0
    <2>6. TimerBelongsToBatch'
      BY <2>1
    <2> QED
      BY <2>3, <2>4, <2>5, <2>6
  <1>7. CASE FlushAtEnd
    BY <1>7 DEF FlushAtEnd
  <1>8. CASE EndEmpty
    BY <1>8 DEF EndEmpty
  <1>9. CASE ItemsRaised
    BY <1>9 DEF ItemsRaised
  <1>10. CASE Resume
    <2>1. /\ where \in {"delay", "size"}
          /\ next \in {"none", "pending", "item", "stop", "raised"}
      BY <1>10 DEF Resume
    <2>2. /\ buffer' = <<>> /\ where' = "wait" /\ config' = config /\ timer' = timer
          /\ next' = (IF next = "none" THEN "pending" ELSE next)
          /\ item' = item /\ taken' = taken /\ emitted' = emitted
      BY <1>10 DEF Resume
    <2>3. timer = "none"
      BY <2>1
    <2>4. TypeOK' /\ Control'
      BY <2>1, <2>2, <2>3
    <2>5. NothingLostInOrder'
      <3>1. Len(buffer') = 0 /\ 1..0 = {}
        BY <2>2, EmptySeq
      <3>2. taken = emitted + Unemitted /\ Yielding /\ taken \in Nat /\ emitted \in Nat
        <4> HIDE DEF Unemitted
        <4>1. Yielding /\ where # "failed"
          BY <2>1
        <4> QED
          BY <4>1
      <3>3. CASE next = "item"
        <4>1. taken = emitted + 1 /\ item = taken
          BY <3>2, <3>3, <2>1
        <4>2. next' = "item" /\ Unemitted' = 1
          BY <3>3, <2>2, <3>1
        <4> QED
          BY <4>1, <4>2, <2>2, <3>1
      <3>4. CASE next # "item"
        <4>1. taken = emitted
          BY <3>2, <3>4
        <4>2. next' # "item" /\ Unemitted' = 0
          BY <3>4, <2>2, <3>1
        <4> QED
          BY <4>1, <4>2, <2>2, <3>1
      <3> QED
        BY <3>3, <3>4
    <2>6. BatchWithinSize' /\ TimerBelongsToBatch'
      BY <2>2, <2>3, EmptySeq
    <2> QED
      BY <2>4, <2>5, <2>6
  <1>11. CASE Return
    BY <1>11 DEF Return
  <1>12. CASE Close
    BY <1>12 DEF Close
  <1>13. CASE SupplyItem
    BY <1>13 DEF SupplyItem
  <1>14. CASE SupplyEnd("stop")
    BY <1>14 DEF SupplyEnd
  <1>15. CASE SupplyEnd("raised")
    BY <1>15 DEF SupplyEnd
  <1>16. CASE UNCHANGED collectorVars
    BY <1>16 DEF collectorVars
  <1> QED
    BY <1>1, <1>2, <1>3, <1>4, <1>5, <1>6, <1>7, <1>8, <1>9, <1>10, <1>11, <1>12, <1>13,
       <1>14, <1>15, <1>16
    DEF Next, GeneratorStep, ConsumerStep

\* The inductive invariant holds in every state the generator reaches.
LEMMA Invariance == SafetySpec => []Inv
  BY InitInv, NextInv, PTL DEF SafetySpec

\* Every variable of collect_batches keeps its type.
THEOREM CollectorTypeOK == SafetySpec => []TypeOK
  <1>1. Inv => TypeOK
    BY DEF Inv
  <1> QED
    BY <1>1, Invariance, PTL

\* Batching loses, repeats and reorders no item, for any configuration.
THEOREM CollectorLosesNothing == SafetySpec => []NothingLostInOrder
  <1>1. Inv => NothingLostInOrder
    BY DEF Inv
  <1> QED
    BY <1>1, Invariance, PTL

\* No batch exceeds sdk.batch.size, for any size.
THEOREM CollectorBoundsBatches == SafetySpec => []BatchWithinSize
  <1>1. Inv => BatchWithinSize
    BY DEF Inv
  <1> QED
    BY <1>1, Invariance, PTL

\* The delay timer runs exactly while a short batch waits.
THEOREM CollectorTimesBatches == SafetySpec => []TimerBelongsToBatch
  <1>1. Inv => TimerBelongsToBatch
    BY DEF Inv
  <1> QED
    BY <1>1, Invariance, PTL
=============================================================================
