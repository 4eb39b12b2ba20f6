----------------------------- MODULE LocalEngine -----------------------------
(***************************************************************************)
(* conduit.client.local() (src/conduit/client/_local.py): host processes   *)
(* that each provision the engine's binary (module Provision), spawn it on *)
(* a port that was free a moment ago, wait until its API answers, use it   *)
(* (module Control) and stop it again, by close(), by the atexit hook or   *)
(* not at all when the host is killed.                                     *)
(*                                                                         *)
(* The hosts share the cache directory and the ports of one machine.  A    *)
(* host's main thread is where host[h] says; its engine is a process of    *)
(* its own, external to this repository: engine[h] is what the host's code *)
(* can observe of it.                                                      *)
(***************************************************************************)
CONSTANTS
  Hosts,   \* host processes on one machine, each calling local() once
  Ports    \* the ports _free_port may be given

VARIABLES
  cached, temp, install,   \* see Provision
  host,        \* where the host is in local(), Client.run or _terminate
  port,        \* _grpc_port; {} before it is picked
  engine,      \* the subprocess: "none", "starting", "serving", "draining" (it got
               \* SIGTERM), "exited"
  registered,  \* the atexit hook is registered
  stopped,     \* _stopped
  then,        \* where the host goes on after _terminate
  interrupted  \* a KeyboardInterrupt left _terminate, or the constructor before the
               \* hook was registered

provisionVars == <<cached, temp, install>>
engineVars == <<port, engine>>
stopVars == <<registered, stopped, then, interrupted>>
vars == <<provisionVars, host, engineVars, stopVars>>

P == INSTANCE Provision

---------------------------------------------------------------------------
Init ==
  /\ P!Init
  /\ host = [h \in Hosts |-> "idle"]
  /\ port = [h \in Hosts |-> {}]
  /\ engine = [h \in Hosts |-> "none"]
  /\ registered = [h \in Hosts |-> FALSE]
  /\ stopped = [h \in Hosts |-> FALSE]
  /\ then = [h \in Hosts |-> "none"]
  /\ interrupted = [h \in Hosts |-> FALSE]

Goto(h, from, to) ==
  /\ host[h] = from
  /\ host' = [host EXCEPT ![h] = to]

SetEngine(h, state) == engine' = [engine EXCEPT ![h] = state]

\* Whose engine listens on a port that h uses.
Answering(h) == {g \in Hosts : engine[g] = "serving" /\ port[g] = port[h]}

---------------------------------------------------------------------------
(* local() and the constructor of LocalConduit.                            *)

\* A binary is given, or ensure_binary provides one.
CallLocal(h) ==
  /\ \E to \in {"provision", "spawn"} : Goto(h, "idle", to)
  /\ UNCHANGED <<provisionVars, engineVars, stopVars>>

ProvisionBinary(h) ==
  /\ host[h] = "provision"
  /\ P!ProvisionStep(h)
  /\ host' = [host EXCEPT ![h] = CASE install'[h] = "returned" -> "spawn"
                                   [] install'[h] = "raised" -> "raised"
                                   [] OTHER -> "provision"]
  /\ UNCHANGED <<engineVars, stopVars>>

\* The log file does not open or the binary does not run.
SpawnFails(h) ==
  /\ Goto(h, "spawn", "raised")
  /\ UNCHANGED <<provisionVars, engineVars, stopVars>>

\* _free_port: a port nobody listens on, released before Popen.
Spawn(h) ==
  /\ Goto(h, "spawn", "spawned")
  /\ \E p \in Ports \ UNION {port[g] : g \in {g \in Hosts : engine[g] = "serving"}} :
        port' = [port EXCEPT ![h] = {p}]
  /\ SetEngine(h, "starting")
  /\ UNCHANGED <<provisionVars, stopVars>>

RegisterHook(h) ==
  /\ Goto(h, "spawned", "poll")
  /\ registered' = [registered EXCEPT ![h] = TRUE]
  /\ UNCHANGED <<provisionVars, engineVars, stopped, then, interrupted>>

\* _terminate is entered and will come back to `to`.
EnterTerminate(h, to) ==
  /\ host' = [host EXCEPT ![h] = "terminate"]
  /\ then' = [then EXCEPT ![h] = to]

\* Head of _wait_ready's loop: the constructor raises at once when the engine
\* has exited.
PollEngine(h) ==
  /\ host[h] = "poll"
  /\ IF engine[h] = "exited"
       THEN EnterTerminate(h, "raised")
       ELSE Goto(h, "poll", "ask") /\ UNCHANGED then
  /\ UNCHANGED <<provisionVars, engineVars, registered, stopped, interrupted>>

MutantAskEngine(h) ==
  /\ host[h] \in {"ask", "lastAsk"}
  /\ \/ engine[h] # "exited" /\ Goto(h, host[h], "ready") /\ UNCHANGED then
     \/ Goto(h, "ask", "poll") /\ UNCHANGED then
     \/ host[h] = "lastAsk" /\ EnterTerminate(h, "raised")
  /\ UNCHANGED <<provisionVars, engineVars, registered, stopped, interrupted>>

\* GetInfo: whoever listens on the port answers, the host's own engine or not.
\* Without an answer _wait_ready sleeps and polls again.
AskEngine(h) ==
  /\ host[h] \in {"ask", "lastAsk"}
  /\ \/ Answering(h) # {} /\ Goto(h, host[h], "ready") /\ UNCHANGED then
     \/ Goto(h, "ask", "poll") /\ UNCHANGED then
     \/ host[h] = "lastAsk" /\ EnterTerminate(h, "raised")
  /\ UNCHANGED <<provisionVars, engineVars, registered, stopped, interrupted>>

MutantDeadline(h) ==
  /\ host[h] = "poll" /\ engine[h] # "starting" /\ EnterTerminate(h, "raised")
  /\ UNCHANGED <<provisionVars, engineVars, registered, stopped, interrupted>>

\* startup_timeout has passed: an answer that is under way still counts, but the
\* loop is not entered again and the constructor raises.
DeadlinePasses(h) ==
  /\ \/ host[h] = "poll" /\ EnterTerminate(h, "raised")
     \/ Goto(h, "ask", "lastAsk") /\ UNCHANGED then
  /\ UNCHANGED <<provisionVars, engineVars, registered, stopped, interrupted>>

---------------------------------------------------------------------------
(* The engine (external).                                                  *)

\* It binds its port, or exits because another engine has it.
EngineBinds(h) ==
  /\ engine[h] = "starting"
  /\ SetEngine(h, IF Answering(h) = {} THEN "serving" ELSE "exited")
  /\ UNCHANGED <<provisionVars, host, port, stopVars>>

\* It crashes, or has drained after a SIGTERM; it may never do either.
EngineExits(h) ==
  /\ engine[h] \in {"starting", "serving", "draining"}
  /\ SetEngine(h, "exited")
  /\ UNCHANGED <<provisionVars, host, port, stopVars>>

---------------------------------------------------------------------------
(* close(), the atexit hook and _terminate.                                *)

\* close() or __exit__: the channel is closed, then _terminate called.
Close(h) ==
  /\ host[h] = "ready"
  /\ EnterTerminate(h, "closed")
  /\ UNCHANGED <<provisionVars, engineVars, registered, stopped, interrupted>>

\* The host's interpreter ends and runs the hook.
HostEnds(h) ==
  /\ host[h] \in {"ready", "raised", "closed"}
  /\ IF registered[h]
       THEN EnterTerminate(h, "exited")
       ELSE host' = [host EXCEPT ![h] = "exited"] /\ UNCHANGED then
  /\ UNCHANGED <<provisionVars, engineVars, registered, stopped, interrupted>>

\* _terminate acts once; an engine that is still alive gets a SIGTERM and its
\* grace.
Terminate(h) ==
  /\ host[h] = "terminate"
  /\ stopped' = [stopped EXCEPT ![h] = TRUE]
  /\ IF stopped[h] \/ engine[h] = "exited"
       THEN Goto(h, "terminate", then[h]) /\ UNCHANGED engine
       ELSE Goto(h, "terminate", "grace") /\ SetEngine(h, "draining")
  /\ UNCHANGED <<provisionVars, port, registered, then, interrupted>>

MutantGraceEnds(h) ==
  /\ Goto(h, "grace", then[h])
  /\ UNCHANGED <<provisionVars, engineVars, stopVars>>

\* The engine has exited in its grace, or is killed at the end of it.
GraceEnds(h) ==
  /\ Goto(h, "grace", then[h])
  /\ SetEngine(h, "exited")
  /\ UNCHANGED <<provisionVars, port, stopVars>>

MutantInterrupt(h) ==
  /\ \/ /\ host[h] \in {"poll", "ask", "lastAsk"}
        /\ Goto(h, host[h], "raised")
        /\ stopped' = [stopped EXCEPT ![h] = TRUE]
        /\ UNCHANGED <<then, interrupted>>
     \/ /\ host[h] \in {"spawned", "grace"}
        /\ Goto(h, host[h], IF host[h] = "grace" THEN then[h] ELSE "raised")
        /\ interrupted' = [interrupted EXCEPT ![h] = TRUE]
        /\ UNCHANGED <<then, stopped>>
  /\ UNCHANGED <<provisionVars, engineVars, registered>>

\* A KeyboardInterrupt: `except BaseException` catches it while the engine
\* starts, nothing does before the hook is registered, and in the middle of
\* _terminate, before or after the SIGTERM, it leaves _stopped set with the
\* engine alive.
Interrupt(h) ==
  /\ \/ /\ host[h] \in {"poll", "ask", "lastAsk"}
        /\ EnterTerminate(h, "raised")
        /\ UNCHANGED <<stopped, interrupted>>
     \/ /\ Goto(h, "spawned", "raised")
        /\ interrupted' = [interrupted EXCEPT ![h] = TRUE]
        /\ UNCHANGED <<then, stopped>>
     \/ /\ host[h] = "grace" \/ (host[h] = "terminate" /\ ~stopped[h])
        /\ Goto(h, host[h], then[h])
        /\ stopped' = [stopped EXCEPT ![h] = TRUE]
        /\ interrupted' = [interrupted EXCEPT ![h] = TRUE]
        /\ UNCHANGED then
  /\ UNCHANGED <<provisionVars, engineVars, registered>>

\* The host is killed: no hook runs.
HostKilled(h) ==
  /\ host[h] \notin {"idle", "exited", "killed"}
  /\ host' = [host EXCEPT ![h] = "killed"]
  /\ IF host[h] = "provision" THEN P!Die(h) ELSE UNCHANGED provisionVars
  /\ UNCHANGED <<engineVars, stopVars>>

---------------------------------------------------------------------------
StartStep(h) ==
  ProvisionBinary(h) \/ Spawn(h) \/ SpawnFails(h) \/ RegisterHook(h) \/ PollEngine(h)
    \/ AskEngine(h)

StopStep(h) == Terminate(h) \/ GraceEnds(h)

HostStep(h) ==
  \/ CallLocal(h) \/ StartStep(h) \/ DeadlinePasses(h)
  \/ Close(h) \/ HostEnds(h) \/ StopStep(h)
  \/ Interrupt(h) \/ HostKilled(h)

EngineStep(h) == EngineBinds(h) \/ EngineExits(h)

Next == \E h \in Hosts : HostStep(h) \/ EngineStep(h)

\* The host's thread goes on and its clock advances.  Nothing is assumed of the
\* engine, nor that a host ever closes.
Fairness ==
  \A h \in Hosts :
    /\ WF_vars(StartStep(h))
    /\ WF_vars(DeadlinePasses(h))
    /\ WF_vars(StopStep(h))

Spec == Init /\ [][Next]_vars /\ Fairness

---------------------------------------------------------------------------
(* Properties.                                                             *)

TypeOK ==
  /\ P!TypeOK
  /\ host \in [Hosts -> {"idle", "provision", "spawn", "spawned", "poll", "ask", "lastAsk",
                         "ready", "terminate", "grace", "raised", "closed", "exited",
                         "killed"}]
  /\ \A h \in Hosts : port[h] \subseteq Ports
  /\ engine \in [Hosts -> {"none", "starting", "serving", "draining", "exited"}]
  /\ registered \in [Hosts -> BOOLEAN]
  /\ stopped \in [Hosts -> BOOLEAN]
  /\ then \in [Hosts -> {"none", "raised", "closed", "exited"}]
  /\ interrupted \in [Hosts -> BOOLEAN]

\* Whatever hosts provision at the same time and wherever they die, the binary
\* a host runs is whole and executable, and nothing else is left (see Provision).
CachedIsProgram == P!CachedIsProgram
NothingLeftBehind == P!NothingLeftBehind

\* No engine outlives a host that ended by itself, whichever of local(), close()
\* and the hook stopped it, and a host whose local() raised or whose close()
\* came back has none any more (_terminate, _atexit_kill).  The exception is a
\* KeyboardInterrupt at the wrong moment: after _terminate has set _stopped, so
\* that nothing will try again, or before the hook was registered.
EngineDoesNotOutliveHost ==
  \A h \in Hosts :
    host[h] \in {"raised", "closed", "exited"} =>
      \/ engine[h] \in {"none", "exited"}
      \/ interrupted[h] /\ (stopped[h] \/ ~registered[h])

\* local() comes back only once the engine it started serves its port, and that
\* engine still does unless it crashed: the Client it returns "does not silently
\* connect to the wrong process" (_free_port, _wait_ready).  The exception is
\* that of the race window itself: two hosts were given the same port, since
\* neither engine had bound it, and the one that lost is answered by the other's
\* engine before it is seen to have exited.
ReadyIsOwnEngine ==
  \A h \in Hosts :
    host[h] = "ready" =>
      \/ engine[h] \in {"serving", "exited"}
      \/ \E g \in Hosts \ {h} : port[g] = port[h]

\* local() comes back or raises, whatever the engine does: failure mode 1, the
\* startup timeout bounds the wait and the grace bounds the stop.
LocalReturns ==
  \A h \in Hosts :
    host[h] = "poll" ~> host[h] \in {"ready", "raised", "exited", "killed"}

\* Once the host has begun to stop its engine, the engine is gone, however long
\* it takes to drain, unless the host is killed or interrupted first.
StopEndsEngine ==
  \A h \in Hosts :
    host[h] = "terminate" ~>
      engine[h] = "exited" \/ host[h] = "killed" \/ interrupted[h]
=============================================================================
