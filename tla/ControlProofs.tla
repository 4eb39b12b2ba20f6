---------------------------- MODULE ControlProofs ----------------------------
(***************************************************************************)
(* Client.run, Run.wait_running and Run.stop for a pipeline of any size,   *)
(* whichever calls the engine refuses, never sees, or carries out after    *)
(* the client has given up on them.                                        *)
(*                                                                         *)
(* The engine is asked for one thing at a time, so what it made is a       *)
(* beginning of the plan, never more than one call ahead of what the       *)
(* client heard (Submitting); and the plan starts the pipeline last.       *)
(***************************************************************************)
EXTENDS Control, SequenceTheorems, TLAPS

---------------------------------------------------------------------------
(* The plan.                                                               *)

\* The calls Client.run makes.
Calls == {"pipeline", "connector", "processor", "dlq", "start"}

\* Two lists of calls, one after the other.
LEMMA ConcatCalls ==
  ASSUME NEW s \in Seq(Calls), NEW t \in Seq(Calls)
  PROVE  /\ s \o t \in Seq(Calls)
         /\ Len(s) \in Nat /\ Len(t) \in Nat /\ Len(s \o t) = Len(s) + Len(t)
         /\ \A i \in 1..Len(s) : (s \o t)[i] = s[i]
         /\ \A i \in 1..Len(s \o t) : i > Len(s) =>
               i - Len(s) \in 1..Len(t) /\ (s \o t)[i] = t[i - Len(s)]
  BY ConcatProperties, LenProperties

\* The same call n times.
LEMMA RepeatedCall ==
  ASSUME NEW n \in Nat, NEW what \in Calls
  PROVE  /\ [i \in 1..n |-> what] \in Seq(Calls)
         /\ Len([i \in 1..n |-> what]) = n
         /\ \A j \in 1..n : [i \in 1..n |-> what][j] = what
  <1> DEFINE s == [i \in 1..n |-> what]
  <1>1. s \in [1..n -> Calls]
    OBVIOUS
  <1>2. s \in Seq(Calls)
    BY <1>1, SeqDef
  <1>3. DOMAIN s = 1..n /\ \A j \in 1..n : s[j] = what
    OBVIOUS
  <1> HIDE DEF s
  <1>4. Len(s) = n
    BY <1>2, <1>3, LenProperties
  <1> QED
    BY <1>2, <1>3, <1>4 DEF s

\* A list of calls that does not start the pipeline.
Unstarted(s) == s \in Seq(Calls) /\ \A i \in 1..Len(s) : s[i] # "start"

\* Two of them make one.
LEMMA UnstartedConcat ==
  ASSUME NEW s, NEW t, Unstarted(s), Unstarted(t)
  PROVE  /\ Unstarted(s \o t)
         /\ Len(s \o t) = Len(s) + Len(t) /\ Len(s) \in Nat /\ Len(t) \in Nat
  <1>1. s \in Seq(Calls) /\ t \in Seq(Calls)
    BY DEF Unstarted
  <1>2. /\ s \o t \in Seq(Calls)
        /\ Len(s) \in Nat /\ Len(t) \in Nat /\ Len(s \o t) = Len(s) + Len(t)
    BY <1>1, ConcatCalls
  <1>3. ASSUME NEW i \in 1..Len(s \o t)
        PROVE  (s \o t)[i] # "start"
    <2>1. CASE i \in 1..Len(s)
      BY <1>1, <2>1, ConcatCalls DEF Unstarted
    <2>2. CASE i \notin 1..Len(s)
      <3>1. i > Len(s)
        BY <1>2, <2>2
      <3>2. i - Len(s) \in 1..Len(t) /\ (s \o t)[i] = t[i - Len(s)]
        BY <1>1, <3>1, ConcatCalls
      <3> QED
        BY <3>2 DEF Unstarted
    <2> QED
      BY <2>1, <2>2
  <1> QED
    BY <1>2, <1>3 DEF Unstarted

\* Client.run has at least one call to make, and only its last one may start the
\* pipeline.
LEMMA PlanShape ==
  ASSUME NEW p \in Pipelines, NEW start \in BOOLEAN
  PROVE  LET q == BuildPlan(p, start)
         IN  /\ q \in Seq(Calls) /\ Len(q) \in Nat /\ Len(q) >= 1
             /\ \A i \in 1..Len(q) : q[i] = "start" => i = Len(q)
  <1> DEFINE connectors == [i \in 1..p.connectors |-> "connector"]
             processors == [i \in 1..p.processors |-> "processor"]
             dlq == IF p.dlq THEN <<"dlq">> ELSE <<>>
             body == <<"pipeline">> \o connectors \o processors \o dlq
             last == IF start THEN <<"start">> ELSE <<>>
  <1>1. p.connectors \in Nat /\ p.processors \in Nat
    BY SizesAssumption DEF Pipelines
  <1>2. Unstarted(connectors) /\ Unstarted(processors)
    <2>1. \A n \in Nat, what \in Calls :
            what # "start" => Unstarted([i \in 1..n |-> what])
      <3> SUFFICES ASSUME NEW n \in Nat, NEW what \in Calls, what # "start"
                   PROVE  Unstarted([i \in 1..n |-> what])
        OBVIOUS
      <3> DEFINE s == [i \in 1..n |-> what]
      <3>1. s \in Seq(Calls) /\ Len(s) = n /\ \A j \in 1..n : s[j] = what
        BY RepeatedCall
      <3> HIDE DEF s
      <3>2. Unstarted(s)
        BY <3>1 DEF Unstarted
      <3> QED
        BY <3>2 DEF s
    <2>2. "connector" \in Calls /\ "processor" \in Calls
      BY DEF Calls
    <2> QED
      BY <1>1, <2>1, <2>2
  <1>3. Unstarted(<<"pipeline">>) /\ Unstarted(dlq) /\ Len(<<"pipeline">>) = 1
    <2>1. /\ <<"pipeline">> \in Seq(Calls) /\ Len(<<"pipeline">>) = 1
          /\ <<"dlq">> \in Seq(Calls) /\ Len(<<"dlq">>) = 1
      BY DEF Calls
    <2>3. Unstarted(<<"pipeline">>) /\ Unstarted(<<"dlq">>)
      BY <2>1 DEF Unstarted
    <2>2. Unstarted(<<>>)
      BY EmptySeq DEF Unstarted
    <2> QED
      BY <2>1, <2>2, <2>3
  <1> HIDE DEF connectors, processors, dlq
  <1>4. Unstarted(body) /\ Len(body) \in Nat /\ Len(body) >= 1
    <2>1. /\ Unstarted(<<"pipeline">> \o connectors)
          /\ Len(<<"pipeline">> \o connectors) >= 1
          /\ Len(<<"pipeline">> \o connectors) \in Nat
      BY <1>2, <1>3, UnstartedConcat
    <2>2. /\ Unstarted(<<"pipeline">> \o connectors \o processors)
          /\ Len(<<"pipeline">> \o connectors \o processors) >= 1
          /\ Len(<<"pipeline">> \o connectors \o processors) \in Nat
      BY <1>2, <2>1, UnstartedConcat
    <2> QED
      BY <1>3, <2>2, UnstartedConcat
  <1> HIDE DEF body
  <1>5. last \in Seq(Calls) /\ Len(last) \in 0..1
    <2>1. <<>> \in Seq(Calls) /\ Len(<<>>) = 0
      BY EmptySeq
    <2>2. <<"start">> \in Seq(Calls) /\ Len(<<"start">>) = 1
      BY DEF Calls
    <2> QED
      BY <2>1, <2>2
  <1> HIDE DEF last
  <1>6. BuildPlan(p, start) = body \o last
    BY DEF BuildPlan, body, last, connectors, processors, dlq
  <1>7. body \in Seq(Calls)
    BY <1>4 DEF Unstarted
  <1>8. body \o last \in Seq(Calls) /\ Len(body \o last) = Len(body) + Len(last)
    BY <1>5, <1>7, ConcatCalls
  <1>9. ASSUME NEW i \in 1..Len(body \o last), (body \o last)[i] = "start"
        PROVE  i = Len(body \o last)
    <2>1. i \notin 1..Len(body)
      BY <1>4, <1>5, <1>7, <1>9, ConcatCalls DEF Unstarted
    <2>2. i \in Nat /\ i >= 1 /\ i <= Len(body) + Len(last)
      BY <1>4, <1>5, <1>8
    <2>3. i > Len(body)
      BY <1>4, <2>1, <2>2
    <2>4. \A m \in Nat, n \in 0..1, j \in Nat : j > m /\ j <= m + n => j = m + n
      OBVIOUS
    <2> QED
      BY <1>4, <1>5, <1>8, <2>2, <2>3, <2>4
  <1> QED
    BY <1>4, <1>5, <1>6, <1>8, <1>9

---------------------------------------------------------------------------
(* The submission.                                                         *)

\* What run says of the call at hand, of what the engine made and of what the
\* client heard: the calls before the one at hand were made and heard, and that
\* one was made if it was applied or given up too late.
Submitting ==
  /\ made \subseteq DOMAIN plan
  /\ run = "none" =>
       /\ plan = <<>> /\ step = 0 /\ call = "none" /\ heard = {} /\ made = {}
       /\ wait = "none" /\ stop = "none"
  /\ run # "none" =>
       /\ plan \in {BuildPlan(declared, start) : start \in BOOLEAN}
       /\ step \in 1..Len(plan)
  /\ run = "busy" =>
       /\ call \in {"sent", "applied"}
       /\ heard = 1..(step - 1)
       /\ made = IF call = "applied" THEN 1..step ELSE 1..(step - 1)
  /\ run = "raised" =>
       /\ call \in {"none", "late"}
       /\ heard = 1..(step - 1)
       /\ made \in {1..(step - 1), 1..step}
       /\ call = "late" => made = 1..(step - 1)
       /\ named = (step > 1)
  /\ run = "returned" =>
       call = "none" /\ step = Len(plan) /\ heard = 1..step /\ made = 1..step
  /\ wait # "none" => run = "returned"

\* The types of everything else.
OwnTypes ==
  /\ declared \in Pipelines
  /\ run \in {"none", "busy", "returned", "raised"} /\ named \in BOOLEAN
  /\ status \in {"stopped", "running", "recovering", "degraded"}
  /\ wait \in {"none", "check", "asked", "sleep", "running", "degraded", "timeout",
               "error"}
  /\ expired \in BOOLEAN
  /\ stop \in {"none", "sent", "applied", "late", "returned", "raised"}

\* What follows of the plan that is being submitted.
LEMMA PlanFacts ==
  ASSUME OwnTypes, Submitting, run # "none"
  PROVE  /\ plan \in Seq(Calls) /\ Len(plan) \in Nat /\ DOMAIN plan = 1..Len(plan)
         /\ step \in Nat /\ 1 <= step /\ step <= Len(plan)
         /\ \A i \in 1..Len(plan) : plan[i] = "start" => i = Len(plan)
  <1>1. PICK start \in BOOLEAN : plan = BuildPlan(declared, start)
    BY DEF Submitting
  <1>2. declared \in Pipelines
    BY DEF OwnTypes
  <1>3. /\ plan \in Seq(Calls) /\ Len(plan) \in Nat
        /\ \A i \in 1..Len(plan) : plan[i] = "start" => i = Len(plan)
    BY <1>1, <1>2, PlanShape
  <1>4. DOMAIN plan = 1..Len(plan)
    BY <1>3, LenProperties
  <1>5. step \in 1..Len(plan)
    BY DEF Submitting
  <1>6. \A n \in Nat : \A i \in 1..n : i \in Nat /\ 1 <= i /\ i <= n
    OBVIOUS
  <1>7. step \in Nat /\ 1 <= step /\ step <= Len(plan)
    BY <1>3, <1>5, <1>6
  <1> QED
    BY <1>3, <1>4, <1>7, Zenon

\* Every step keeps the types.
LEMMA NextTypes ==
  ASSUME OwnTypes, [Next]_vars
  PROVE  OwnTypes'
  <1> USE DEF OwnTypes, engineVars, runVars, waitVars
  <1>1. CASE AddConnector \/ AddProcessor \/ SetDlq
    <2>1. declared' \in Pipelines
      <3>1. /\ declared.connectors \in 0..MaxConnectors
            /\ declared.processors \in 0..MaxProcessors
            /\ MaxConnectors \in Nat /\ MaxProcessors \in Nat
        BY SizesAssumption DEF Pipelines
      <3>2. CASE AddConnector
        <4>1. declared.connectors + 1 \in 0..MaxConnectors
          BY <3>1, <3>2 DEF AddConnector
        <4> QED
          BY <3>2, <4>1 DEF AddConnector, Declare, Pipelines
      <3>3. CASE AddProcessor
        <4>1. declared.processors + 1 \in 0..MaxProcessors
          BY <3>1, <3>3 DEF AddProcessor
        <4> QED
          BY <3>3, <4>1 DEF AddProcessor, Declare, Pipelines
      <3>4. CASE SetDlq
        BY <3>4 DEF SetDlq, Declare, Pipelines
      <3> QED
        BY <1>1, <3>2, <3>3, <3>4
    <2>2. UNCHANGED <<run, named, engineVars, waitVars, stop>>
      BY <1>1 DEF AddConnector, AddProcessor, SetDlq, Declare
    <2> QED
      BY <2>1, <2>2
  <1>2. CASE Submit \/ EngineApplies \/ Answered
    BY <1>2 DEF Submit, EngineApplies, Answered, NextCall
  <1>3. CASE CallFails \/ CallTimesOut
    <2>1. named' \in BOOLEAN
      <3>1. named' = (step > 1)
        BY <1>3 DEF CallFails, CallTimesOut, Raise
      <3>2. (step > 1) \in BOOLEAN
        OBVIOUS
      <3> QED
        BY <3>1, <3>2
    <2>2. run' = "raised" /\ UNCHANGED <<declared, engineVars, waitVars, stop>>
      BY <1>3 DEF CallFails, CallTimesOut, Raise
    <2> QED
      BY <2>1, <2>2
  <1>4. CASE StatusChanges
    BY <1>4 DEF StatusChanges
  <1>5. CASE WaitRunning \/ WaitStep
    BY <1>5 DEF WaitRunning, WaitStep, CheckDeadline, StatusAnswered, PollAgain
  <1>6. CASE DeadlinePasses
    BY <1>6 DEF DeadlinePasses
  <1>7. CASE Stop \/ EngineStops \/ StopAnswered \/ StopTimesOut
    BY <1>7 DEF Stop, EngineStops, StopAnswered, StopTimesOut
  <1>8. CASE UNCHANGED vars
    BY <1>8 DEF vars
  <1> QED
    BY <1>1, <1>2, <1>3, <1>4, <1>5, <1>6, <1>7, <1>8 DEF Next

\* Every step keeps what was made one call ahead of what was heard at most.
LEMMA NextSubmitting ==
  ASSUME OwnTypes, Submitting, [Next]_vars
  PROVE  Submitting'
  <1>1. CASE AddConnector \/ AddProcessor \/ SetDlq
    <2>1. /\ run = "none"
          /\ UNCHANGED <<plan, step, heard, run, named, engineVars, call, waitVars, stop>>
      BY <1>1 DEF AddConnector, AddProcessor, SetDlq, Declare
    <2> QED
      BY <2>1 DEF Submitting, engineVars, waitVars
  <1>2. CASE Submit
    <2>1. /\ run = "none" /\ run' = "busy" /\ step' = 1 /\ call' = "sent"
          /\ UNCHANGED <<declared, heard, named, engineVars, waitVars, stop>>
      BY <1>2 DEF Submit
    <2>2. PICK start \in BOOLEAN : plan' = BuildPlan(declared, start)
      BY <1>2 DEF Submit
    <2>3. declared \in Pipelines
      BY DEF OwnTypes
    <2>4. Len(plan') \in Nat /\ Len(plan') >= 1
      BY <2>2, <2>3, PlanShape
    <2>5. heard = {} /\ made = {} /\ wait = "none" /\ 1..0 = {}
      BY <2>1 DEF Submitting
    <2> QED
      BY <2>1, <2>2, <2>4, <2>5 DEF Submitting, engineVars, waitVars
  <1>3. CASE EngineApplies
    <2>1. /\ call \in {"sent", "late"} /\ made' = made \union {step}
          /\ call' = IF call = "sent" THEN "applied" ELSE "none"
          /\ UNCHANGED <<status, runVars, waitVars, stop>>
      BY <1>3 DEF EngineApplies
    <2>2. run \in {"busy", "raised"} /\ made = 1..(step - 1)
      BY <2>1 DEF Submitting, OwnTypes
    <2>3. /\ DOMAIN plan = 1..Len(plan) /\ Len(plan) \in Nat
          /\ step \in Nat /\ 1 <= step /\ step <= Len(plan)
      BY <2>2, PlanFacts
    <2>4. made' = 1..step /\ 1..step \subseteq DOMAIN plan
      BY <2>1, <2>2, <2>3
    <2> QED
      BY <2>1, <2>2, <2>3, <2>4, Zenon DEF Submitting, runVars, waitVars
  <1>4. CASE Answered
    <2>1. /\ call = "applied" /\ heard' = heard \union {step}
          /\ UNCHANGED <<declared, plan, named, engineVars, waitVars, stop>>
      BY <1>4 DEF Answered
    <2>2. run = "busy" /\ heard = 1..(step - 1) /\ made = 1..step
      BY <2>1 DEF Submitting, OwnTypes
    <2>3. /\ DOMAIN plan = 1..Len(plan) /\ Len(plan) \in Nat
          /\ step \in Nat /\ 1 <= step /\ step <= Len(plan)
      BY <2>2, PlanFacts, Zenon
    <2>4. heard' = 1..step /\ (step + 1) - 1 = step
      BY <2>1, <2>2, <2>3
    <2>5. CASE step = Len(plan)
      <3>1. run' = "returned" /\ call' = "none" /\ step' = step
        BY <1>4, <2>5 DEF Answered, NextCall
      <3> QED
        BY <2>1, <2>2, <2>3, <2>4, <2>5, <3>1 DEF Submitting, engineVars, waitVars
    <2>6. CASE step # Len(plan)
      <3>1. run' = run /\ call' = "sent" /\ step' = step + 1
        BY <1>4, <2>6 DEF Answered, NextCall
      <3>2. step' \in 1..Len(plan) /\ made = 1..(step' - 1) /\ heard' = 1..(step' - 1)
        <4>1. step + 1 \in 1..Len(plan) /\ (step + 1) - 1 = step
          <5>1. \A m, n \in Nat : m <= n /\ m # n => m + 1 \in 1..n /\ (m + 1) - 1 = m
            OBVIOUS
          <5> QED
            BY <2>3, <2>6, <5>1, Zenon
        <4> QED
          BY <2>2, <2>4, <3>1, <4>1
      <3> QED
        BY <2>1, <2>2, <3>1, <3>2 DEF Submitting, engineVars, waitVars
    <2> QED
      BY <2>5, <2>6
  <1>5. CASE CallFails \/ CallTimesOut
    <2>1. /\ call \in {"sent", "applied"} /\ call' \in {"none", "late"}
          /\ call = "applied" => call' = "none"
          /\ run' = "raised" /\ named' = (step > 1)
          /\ UNCHANGED <<declared, plan, step, heard, engineVars, waitVars, stop>>
      BY <1>5 DEF CallFails, CallTimesOut, Raise
    <2>2. run = "busy" /\ heard = 1..(step - 1) /\ wait = "none"
      BY <2>1 DEF Submitting, OwnTypes
    <2>3. /\ made \in {1..(step - 1), 1..step}
          /\ call = "sent" => made = 1..(step - 1)
      BY <2>1, <2>2 DEF Submitting
    <2> QED
      BY <2>1, <2>2, <2>3 DEF Submitting, engineVars, waitVars
  <1>6. CASE StatusChanges \/ WaitRunning \/ WaitStep \/ DeadlinePasses
    <2>1. /\ UNCHANGED <<made, runVars, call, stop>>
          /\ wait' # "none" => wait # "none" \/ run = "returned"
      BY <1>6
      DEF StatusChanges, WaitRunning, WaitStep, CheckDeadline, StatusAnswered, PollAgain,
          DeadlinePasses, engineVars, waitVars
    <2>2. run = "none" => wait' = "none"
      BY <1>6
      DEF Submitting, StatusChanges, WaitRunning, WaitStep, CheckDeadline, StatusAnswered,
          PollAgain, DeadlinePasses, waitVars
    <2> QED
      BY <2>1, <2>2 DEF Submitting, runVars
  <1>7. CASE Stop \/ EngineStops \/ StopAnswered \/ StopTimesOut
    <2>1. UNCHANGED <<made, runVars, call, waitVars>> /\ (run = "none" => stop' = "none")
      BY <1>7 DEF Submitting, Stop, EngineStops, StopAnswered, StopTimesOut, engineVars
    <2> QED
      BY <2>1 DEF Submitting, runVars, waitVars
  <1>8. CASE UNCHANGED vars
    BY <1>8 DEF vars, engineVars, runVars, waitVars, Submitting
  <1> QED
    BY <1>1, <1>2, <1>3, <1>4, <1>5, <1>6, <1>7, <1>8 DEF Next

\* Both hold in every execution.
LEMMA SubmittingHolds == Spec => [](OwnTypes /\ Submitting)
  <1>1. Init => OwnTypes /\ Submitting
    <2> SUFFICES ASSUME Init
                 PROVE  OwnTypes /\ Submitting
      OBVIOUS
    <2>1. OwnTypes
      <3>1. 0 \in 0..MaxConnectors /\ 0 \in 0..MaxProcessors
        BY SizesAssumption
      <3>2. declared \in Pipelines /\ named \in BOOLEAN /\ expired \in BOOLEAN
        BY <3>1 DEF Init, Pipelines
      <3> QED
        BY <3>2 DEF Init, OwnTypes
    <2> QED
      BY <2>1 DEF Init, Submitting
  <1>2. OwnTypes /\ Submitting /\ [Next]_vars => (OwnTypes /\ Submitting)'
    BY NextTypes, NextSubmitting
  <1> QED
    BY <1>1, <1>2, PTL DEF Spec

\* Every variable keeps its type: nothing is made or heard that was not planned.
THEOREM ControlTypeOK == Spec => []TypeOK
  <1>1. OwnTypes /\ Submitting => TypeOK
    <2> SUFFICES ASSUME OwnTypes, Submitting
                 PROVE  TypeOK
      OBVIOUS
    <2>1. CASE run = "none"
      <3>1. Len(<<>>) = 0
        BY EmptySeq
      <3> QED
        BY <2>1, <3>1 DEF OwnTypes, Submitting, TypeOK
    <2>2. CASE run # "none"
      <3>1. /\ DOMAIN plan = 1..Len(plan) /\ Len(plan) \in Nat
            /\ step \in Nat /\ 1 <= step /\ step <= Len(plan)
        BY <2>2, PlanFacts, Zenon
      <3>2. heard \subseteq DOMAIN plan /\ call \in {"none", "sent", "applied", "late"}
        <4>1. run \in {"busy", "raised", "returned"}
          BY <2>2 DEF OwnTypes
        <4>2. heard \in {1..(step - 1), 1..step}
          BY <4>1 DEF Submitting
        <4>3. 1..(step - 1) \subseteq DOMAIN plan /\ 1..step \subseteq DOMAIN plan
          BY <3>1
        <4>4. call \in {"none", "sent", "applied", "late"}
          BY <4>1 DEF Submitting
        <4> QED
          BY <4>2, <4>3, <4>4
      <3>3. /\ plan \in {BuildPlan(declared, start) : start \in BOOLEAN}
            /\ made \subseteq DOMAIN plan
        BY <2>2 DEF Submitting
      <3> QED
        BY <3>1, <3>2, <3>3 DEF OwnTypes, TypeOK
    <2> QED
      BY <2>1, <2>2
  <1> QED
    BY <1>1, SubmittingHolds, PTL

\* A ConduitError without the pipeline's id leaves at most the empty pipeline of
\* its own CreatePipeline behind.
THEOREM ErrorsNamePipelines == Spec => []ErrorNamesPipeline
  <1>1. OwnTypes /\ Submitting => ErrorNamesPipeline
    <2> SUFFICES ASSUME OwnTypes, Submitting, run = "raised", ~named
                 PROVE  heard = {} /\ made \subseteq {1}
      BY DEF ErrorNamesPipeline
    <2>1. step \in Nat /\ 1 <= step
      BY PlanFacts, Zenon
    <2>2. step = 1
      <3>1. ~(step > 1)
        BY Zenon DEF Submitting
      <3> QED
        BY <2>1, <3>1
    <2>3. 1..0 = {} /\ 1..1 = {1} /\ step - 1 = 0
      BY <2>2
    <2> QED
      BY <2>2, <2>3 DEF Submitting
  <1> QED
    BY <1>1, SubmittingHolds, PTL

\* The pipeline is started, and Client.run returns, only when every call before
\* the start was carried out.
THEOREM StartsComplete == Spec => []StartedIsComplete
  <1>1. OwnTypes /\ Submitting => StartedIsComplete
    <2> SUFFICES ASSUME OwnTypes, Submitting, Started \/ run = "returned" \/ wait # "none"
                 PROVE  made = DOMAIN plan
      BY DEF StartedIsComplete
    <2>1. run # "none"
      BY DEF Submitting, Started
    <2>2. /\ DOMAIN plan = 1..Len(plan) /\ Len(plan) \in Nat
          /\ step \in Nat /\ 1 <= step /\ step <= Len(plan)
          /\ \A i \in 1..Len(plan) : plan[i] = "start" => i = Len(plan)
      BY <2>1, PlanFacts, Zenon
    <2>3. CASE run = "returned" \/ wait # "none"
      BY <2>2, <2>3, Zenon DEF Submitting
    <2>4. CASE Started
      <3>1. Len(plan) \in made
        BY <2>2, <2>4, Zenon DEF Started, Submitting
      <3>2. made \in {1..(step - 1), 1..step}
        BY <2>1 DEF Submitting, OwnTypes
      <3>3. \A m, n \in Nat : 1 <= m /\ m <= n /\ n \in 1..m => m = n
        OBVIOUS
      <3>4. \A m, n \in Nat : m <= n => n \notin 1..(m - 1)
        OBVIOUS
      <3>5. made = 1..step
        BY <2>2, <3>1, <3>2, <3>4, Zenon
      <3>6. step = Len(plan)
        BY <2>2, <3>1, <3>3, <3>5, Zenon
      <3> QED
        BY <2>2, <3>5, <3>6, Zenon
    <2> QED
      BY <2>3, <2>4
  <1> QED
    BY <1>1, SubmittingHolds, PTL
==============================================================================
