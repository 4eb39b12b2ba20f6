------------------------------- MODULE Control -------------------------------
(***************************************************************************)
(* A Pipeline (src/conduit/client/pipeline.py) is declared call by call;   *)
(* Client.run (client.py) submits it to an engine by a sequence of calls,  *)
(* without rolling anything back; Run.wait_running (run.py) polls its      *)
(* status until it runs, Run.stop stops it.  A call may be refused, may    *)
(* fail before the engine saw it, or may time out while the engine still   *)
(* carries it out.                                                         *)
(*                                                                         *)
(* The engine's side is external: `made` and `status` are what the client  *)
(* code assumes of it.  A call is its place in the plan.                   *)
(***************************************************************************)
EXTENDS Naturals, Sequences

CONSTANTS
  MaxConnectors,   \* bound: connectors of a pipeline
  MaxProcessors    \* bound: its processors

ASSUME SizesAssumption == MaxConnectors \in Nat /\ MaxProcessors \in Nat

VARIABLES
  declared,  \* what the Pipeline builder was told: connectors, processors, a DLQ
  plan,      \* the calls of Client.run, in their order
  step,      \* the call Client.run stands at; 0 before it is called
  call,      \* that call: "none", "sent", "applied" (its response is on its way),
             \* or "late": given up, while the engine may still carry it out
  heard,     \* the calls whose response the client received
  made,      \* the calls the engine carried out
  run,       \* Client.run: "none", "busy", "returned", "raised"
  named,     \* the ConduitError carries the pipeline id
  status,    \* the pipeline's status in the engine
  wait,      \* wait_running: "none", "check" (head of its loop), "asked", "sleep",
             \* or its end: "running", "degraded", "timeout", "error"
  expired,   \* its deadline has passed
  stop       \* Run.stop's call: "none", "sent", "applied", "late" (given up, while
             \* the engine may still carry it out), or its end: "returned", "raised"

engineVars == <<made, status>>
runVars == <<declared, plan, step, heard, run, named>>
waitVars == <<wait, expired>>
vars == <<engineVars, runVars, call, waitVars, stop>>

\* build_requests and the order Client.run sends its requests in: connectors,
\* then processors, then the DLQ, whatever the order they were declared in.
BuildPlan(p, start) ==
  <<"pipeline">>
    \o [i \in 1..p.connectors |-> "connector"]
    \o [i \in 1..p.processors |-> "processor"]
    \o (IF p.dlq THEN <<"dlq">> ELSE <<>>)
    \o (IF start THEN <<"start">> ELSE <<>>)

Pipelines ==
  [connectors : 0..MaxConnectors, processors : 0..MaxProcessors, dlq : BOOLEAN]

Started == \E i \in made : plan[i] = "start"

---------------------------------------------------------------------------
Init ==
  /\ declared = [connectors |-> 0, processors |-> 0, dlq |-> FALSE]
  /\ plan = <<>> /\ step = 0 /\ call = "none"
  /\ heard = {} /\ made = {}
  /\ run = "none" /\ named = FALSE
  /\ status = "stopped"
  /\ wait = "none" /\ expired = FALSE
  /\ stop = "none"

(* The builder's source() and destination(), process() and dlq().          *)

Declare(p) ==
  /\ run = "none"
  /\ declared' = p
  /\ UNCHANGED <<plan, step, heard, run, named, engineVars, call, waitVars, stop>>

AddConnector ==
  /\ declared.connectors < MaxConnectors
  /\ Declare([declared EXCEPT !.connectors = @ + 1])

AddProcessor ==
  /\ declared.processors < MaxProcessors
  /\ Declare([declared EXCEPT !.processors = @ + 1])

\* A later dlq() replaces an earlier one.
SetDlq == Declare([declared EXCEPT !.dlq = TRUE])

---------------------------------------------------------------------------
(* Client.run.                                                             *)

Submit ==
  /\ run = "none"
  /\ run' = "busy"
  /\ \E start \in BOOLEAN : plan' = BuildPlan(declared, start)
  /\ step' = 1
  /\ call' = "sent"
  /\ UNCHANGED <<declared, heard, named, engineVars, waitVars, stop>>

\* The engine carries a call out, perhaps after the client gave up on it.
EngineApplies ==
  /\ call \in {"sent", "late"}
  /\ made' = made \union {step}
  /\ call' = IF call = "sent" THEN "applied" ELSE "none"
  /\ UNCHANGED <<status, runVars, waitVars, stop>>

MutantNextCall ==
  IF step > Len(plan)
    THEN run' = "returned" /\ call' = "none" /\ step' = step
    ELSE run' = run /\ call' = "sent" /\ step' = step + 1

\* Client.run makes its next call, or returns a Run after the last one.
NextCall ==
  IF step = Len(plan)
    THEN run' = "returned" /\ call' = "none" /\ step' = step
    ELSE run' = run /\ call' = "sent" /\ step' = step + 1

Answered ==
  /\ call = "applied"
  /\ heard' = heard \union {step}
  /\ NextCall
  /\ UNCHANGED <<declared, plan, named, engineVars, waitVars, stop>>

MutantRaise ==
  /\ run' = "raised"
  /\ named' = (plan[step] \notin {"pipeline", "connector"})

\* _call raises a ConduitError: only CreatePipeline's own is raised without the
\* pipeline's id.
Raise ==
  /\ run' = "raised"
  /\ named' = (step > 1)

MutantCallFails ==
  /\ call = "sent"
  /\ NextCall
  /\ UNCHANGED <<declared, plan, heard, named, engineVars, waitVars, stop>>

\* The engine refuses the call, or was never reached.
CallFails ==
  /\ call = "sent"
  /\ call' = "none"
  /\ Raise
  /\ UNCHANGED <<declared, plan, step, heard, engineVars, waitVars, stop>>

\* The deadline passes, or the connection breaks, before the response is in.
CallTimesOut ==
  /\ call \in {"sent", "applied"}
  /\ call' = IF call = "sent" THEN "late" ELSE "none"
  /\ Raise
  /\ UNCHANGED <<declared, plan, step, heard, engineVars, waitVars, stop>>

---------------------------------------------------------------------------
(* Run.status and Run.wait_running.                                        *)

\* The pipeline starts, recovers, degrades or stops by itself.
StatusChanges ==
  /\ Started
  /\ status' \in {"running", "recovering", "degraded", "stopped"} \ {status}
  /\ UNCHANGED <<made, runVars, call, waitVars, stop>>

WaitRunning ==
  /\ run = "returned"
  /\ wait = "none"
  /\ wait' = "check"
  /\ UNCHANGED <<engineVars, runVars, call, expired, stop>>

MutantCheckDeadline ==
  /\ wait = "check"
  /\ wait' = IF expired /\ status # "recovering" THEN "timeout" ELSE "asked"
  /\ UNCHANGED <<engineVars, runVars, call, expired, stop>>

\* Head of the loop.
CheckDeadline ==
  /\ wait = "check"
  /\ wait' = IF expired THEN "timeout" ELSE "asked"
  /\ UNCHANGED <<engineVars, runVars, call, expired, stop>>

\* The status call is answered and ends the wait or leads to another poll, or
\* fails, which the wait passes on.
StatusAnswered ==
  /\ wait = "asked"
  /\ \/ wait' = IF status \in {"running", "degraded"} THEN status ELSE "sleep"
     \/ wait' = "error"
  /\ UNCHANGED <<engineVars, runVars, call, expired, stop>>

PollAgain ==
  /\ wait = "sleep"
  /\ wait' = "check"
  /\ UNCHANGED <<engineVars, runVars, call, expired, stop>>

DeadlinePasses ==
  /\ wait \in {"check", "asked", "sleep"}
  /\ ~expired
  /\ expired' = TRUE
  /\ UNCHANGED <<engineVars, runVars, call, wait, stop>>

---------------------------------------------------------------------------
(* Run.stop, once, from another thread or after the wait.                  *)

Stop ==
  /\ run = "returned"
  /\ stop = "none"
  /\ stop' = "sent"
  /\ UNCHANGED <<engineVars, runVars, call, waitVars>>

\* The pipeline stops now, or when it has drained.
EngineStops ==
  /\ stop \in {"sent", "late"}
  /\ stop' = IF stop = "sent" THEN "applied" ELSE "raised"
  /\ status' \in {status, "stopped"}
  /\ UNCHANGED <<made, runVars, call, waitVars>>

StopAnswered ==
  /\ \/ stop = "applied" /\ stop' = "returned"
     \/ stop = "sent" /\ stop' = "raised"
  /\ UNCHANGED <<engineVars, runVars, call, waitVars>>

StopTimesOut ==
  /\ stop \in {"sent", "applied"}
  /\ stop' = IF stop = "sent" THEN "late" ELSE "raised"
  /\ UNCHANGED <<engineVars, runVars, call, waitVars>>

---------------------------------------------------------------------------
WaitStep == CheckDeadline \/ StatusAnswered \/ PollAgain

Next ==
  \/ AddConnector \/ AddProcessor \/ SetDlq
  \/ Submit \/ EngineApplies \/ Answered \/ CallFails \/ CallTimesOut
  \/ StatusChanges \/ WaitRunning \/ WaitStep \/ DeadlinePasses
  \/ Stop \/ EngineStops \/ StopAnswered \/ StopTimesOut

\* Every call has a deadline of its own, and time passes.  Nothing is assumed
\* of the engine.
Fairness ==
  /\ WF_vars(CallTimesOut)
  /\ WF_vars(WaitStep)
  /\ WF_vars(DeadlinePasses)
  /\ WF_vars(StopTimesOut)

Spec == Init /\ [][Next]_vars /\ Fairness

---------------------------------------------------------------------------
(* Properties.                                                             *)

TypeOK ==
  /\ declared \in Pipelines
  /\ plan \in {<<>>} \union {BuildPlan(declared, start) : start \in BOOLEAN}
  /\ step \in 0..Len(plan)
  /\ call \in {"none", "sent", "applied", "late"}
  /\ heard \subseteq DOMAIN plan /\ made \subseteq DOMAIN plan
  /\ run \in {"none", "busy", "returned", "raised"} /\ named \in BOOLEAN
  /\ status \in {"stopped", "running", "recovering", "degraded"}
  /\ wait \in {"none", "check", "asked", "sleep", "running", "degraded", "timeout",
               "error"}
  /\ expired \in BOOLEAN
  /\ stop \in {"none", "sent", "applied", "late", "returned", "raised"}

\* "Any failure after CreatePipeline has already responded carries the id":
\* what an error without an id can leave behind is a pipeline with nothing in it,
\* the one whose own creation was not answered.
ErrorNamesPipeline ==
  run = "raised" /\ ~named => heard = {} /\ made \subseteq {1}

\* A pipeline is never started before all of its connectors, processors and its
\* DLQ are there, whichever calls fail, time out or are carried out late; and
\* the Run that Client.run returns, and so every wait on it, stands for a
\* pipeline that is complete.
StartedIsComplete ==
  Started \/ run = "returned" \/ wait # "none" => made = DOMAIN plan

\* Client.run, wait_running and stop come back to their caller, with an answer or
\* with an error, whether or not the engine answers and however the pipeline's
\* status flickers, with a stop in the middle of a wait.
CallsEnd ==
  /\ run = "busy" ~> run # "busy"
  /\ wait = "check" ~> wait \in {"running", "degraded", "timeout", "error"}
  /\ stop \in {"sent", "applied"} ~> stop \in {"late", "returned", "raised"}
=============================================================================
