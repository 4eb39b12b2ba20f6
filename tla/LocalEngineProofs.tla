-------------------------- MODULE LocalEngineProofs --------------------------
(***************************************************************************)
(* conduit.client.local() for every set of hosts and of ports, whatever    *)
(* the engines do and wherever the hosts are interrupted or killed.        *)
(*                                                                         *)
(* Both invariants speak of one host at a time, except that the hosts      *)
(* share the cached file and that two may be given the same port.          *)
(* Installing follows the temporary file of each install up to the rename  *)
(* that makes it the cached one.  Lifecycle says for each place a host may *)
(* be at what its engine, its port, the hook and _stopped are.             *)
(***************************************************************************)
EXTENDS LocalEngine, TLAPS

---------------------------------------------------------------------------
(* ensure_binary.                                                          *)

\* The temporary file goes from empty to executable before the rename, and is
\* there as long as the install is between mkstemp and the finally; a finally
\* that finds none comes after the rename.
Installing ==
  /\ cached \in {"absent", "program"}
  /\ temp \in [Hosts -> P!Files]
  /\ install \in [Hosts -> {"idle", "download", "write", "chmod", "replace",
                            "finally", "returned", "raised", "dead"}]
  /\ \A h \in Hosts :
       /\ install[h] \in {"idle", "download", "returned", "raised"} => temp[h] = "absent"
       /\ install[h] = "write" => temp[h] \in {"empty", "partial"}
       /\ install[h] = "chmod" => temp[h] = "plain"
       /\ install[h] = "replace" => temp[h] = "program"
       /\ install[h] = "finally" /\ temp[h] = "absent" => cached = "program"
       /\ install[h] = "returned" => cached = "program"

\* Every step of an install, and the death of its host, keep it for all hosts.
LEMMA InstallStep ==
  ASSUME Installing, NEW h \in Hosts, P!ProvisionStep(h) \/ P!Die(h)
  PROVE  Installing'
  <1> USE DEF Installing, P!Goto, P!SetTemp, P!Files
  <1>1. CASE P!Look(h)
    BY <1>1 DEF P!Look
  <1>2. CASE P!Download(h)
    BY <1>2 DEF P!Download
  <1>3. CASE P!DownloadFails(h)
    BY <1>3 DEF P!DownloadFails
  <1>4. CASE P!Write(h)
    BY <1>4 DEF P!Write
  <1>5. CASE P!MakeExecutable(h)
    BY <1>5 DEF P!MakeExecutable
  <1>6. CASE P!Replace(h)
    BY <1>6 DEF P!Replace
  <1>7. CASE P!InstallFails(h)
    BY <1>7 DEF P!InstallFails
  <1>8. CASE P!Unlink(h)
    BY <1>8 DEF P!Unlink
  <1>9. CASE P!Die(h)
    BY <1>9 DEF P!Die
  <1> QED
    BY <1>1, <1>2, <1>3, <1>4, <1>5, <1>6, <1>7, <1>8, <1>9 DEF P!ProvisionStep

\* A host's other steps and the engines' leave the installs alone.
LEMMA OtherSteps ==
  ASSUME NEW h \in Hosts, HostStep(h) \/ EngineStep(h)
  PROVE  P!ProvisionStep(h) \/ P!Die(h) \/ UNCHANGED provisionVars
  BY DEF HostStep, EngineStep, StartStep, StopStep, CallLocal, ProvisionBinary, SpawnFails,
         Spawn, RegisterHook, PollEngine, AskEngine, DeadlinePasses, EngineBinds,
         EngineExits, Close, HostEnds, Terminate, GraceEnds, Interrupt, HostKilled

\* Every execution keeps it.
LEMMA InstallingHolds == Spec => []Installing
  <1>1. Init => Installing
    BY DEF Init, P!Init, Installing, P!Files
  <1>2. Installing /\ [Next]_vars => Installing'
    <2> SUFFICES ASSUME Installing, [Next]_vars
                 PROVE  Installing'
      OBVIOUS
    <2>1. CASE Next
      BY <2>1, InstallStep, OtherSteps DEF Next, Installing, provisionVars
    <2>2. CASE UNCHANGED vars
      BY <2>2 DEF vars, provisionVars, Installing
    <2> QED
      BY <2>1, <2>2
  <1> QED
    BY <1>1, <1>2, PTL DEF Spec

\* Failure mode 3 for any number of hosts: the binary at the cached path is whole
\* and executable, or is not there yet, and is there once a host was told so.
THEOREM CachedIsWhole == Spec => []CachedIsProgram
  <1>1. Installing => CachedIsProgram
    BY DEF Installing, CachedIsProgram, P!CachedIsProgram
  <1> QED
    BY <1>1, InstallingHolds, PTL

\* And no ensure_binary that came back, with a path or an error, leaves its
\* temporary file.
THEOREM InstallCleansUp == Spec => []NothingLeftBehind
  <1>1. Installing => NothingLeftBehind
    BY DEF Installing, NothingLeftBehind, P!NothingLeftBehind
  <1> QED
    BY <1>1, InstallingHolds, PTL

---------------------------------------------------------------------------
(* The engine's life.                                                      *)

\* Where a host may be.
Places == {"idle", "provision", "spawn", "spawned", "poll", "ask", "lastAsk", "ready",
           "terminate", "grace", "raised", "closed", "exited", "killed"}

\* The types of what the hosts keep outside ensure_binary; _terminate knows where
\* it goes back to.
OwnTypes ==
  /\ host \in [Hosts -> Places]
  /\ port \in [Hosts -> SUBSET Ports]
  /\ engine \in [Hosts -> {"none", "starting", "serving", "draining", "exited"}]
  /\ registered \in [Hosts -> BOOLEAN]
  /\ stopped \in [Hosts -> BOOLEAN]
  /\ then \in [Hosts -> {"none", "raised", "closed", "exited"}]
  /\ interrupted \in [Hosts -> BOOLEAN]
  /\ \A h \in Hosts : host[h] \in {"terminate", "grace"} => then[h] # "none"

\* They hold at first.
LEMMA InitTypes == Init => OwnTypes
  BY DEF Init, OwnTypes, Places

\* Every step of a host or of its engine keeps them.
LEMMA StepTypes ==
  ASSUME OwnTypes, NEW h \in Hosts, HostStep(h) \/ EngineStep(h)
  PROVE  OwnTypes'
  <1> USE DEF OwnTypes, Places, Goto, SetEngine, EnterTerminate, engineVars, stopVars
  <1>1. CASE \/ CallLocal(h) \/ SpawnFails(h) \/ PollEngine(h)
             \/ AskEngine(h) \/ DeadlinePasses(h)
    BY <1>1 DEF CallLocal, SpawnFails, PollEngine, AskEngine, DeadlinePasses
  <1>2. CASE ProvisionBinary(h)
    BY <1>2 DEF ProvisionBinary
  <1>3. CASE Spawn(h)
    BY <1>3 DEF Spawn
  <1>4. CASE RegisterHook(h) \/ EngineBinds(h) \/ EngineExits(h)
    BY <1>4 DEF RegisterHook, EngineBinds, EngineExits
  <1>5. CASE Close(h) \/ HostEnds(h)
    BY <1>5 DEF Close, HostEnds
  <1>6. CASE Terminate(h)
    BY <1>6 DEF Terminate
  <1>7. CASE GraceEnds(h)
    BY <1>7 DEF GraceEnds
  <1>8. CASE Interrupt(h)
    BY <1>8 DEF Interrupt
  <1>9. CASE HostKilled(h)
    BY <1>9 DEF HostKilled
  <1> QED
    BY <1>1, <1>2, <1>3, <1>4, <1>5, <1>6, <1>7, <1>8, <1>9
    DEF HostStep, EngineStep, StartStep, StopStep

\* Every execution keeps them.
LEMMA OwnTypesHold == Spec => []OwnTypes
  <1>1. OwnTypes /\ [Next]_vars => OwnTypes'
    <2>1. OwnTypes /\ UNCHANGED vars => OwnTypes'
      BY DEF vars, engineVars, stopVars, OwnTypes
    <2> QED
      BY <2>1, StepTypes DEF Next
  <1> QED
    BY <1>1, InitTypes, PTL DEF Spec

\* What is so of host h wherever it is.  It has no engine, no port and no hook
\* before it spawns; an engine not yet asked to stop is neither draining nor
\* marked stopped; a host that is past _terminate has none, unless interrupted.
Lifecycle(h) ==
  /\ host[h] \in {"idle", "provision", "spawn"} =>
       engine[h] = "none" /\ port[h] = {} /\ ~registered[h] /\ ~stopped[h]
  /\ engine[h] # "none" => port[h] # {}
  /\ host[h] \in {"spawned", "poll", "ask", "lastAsk", "ready", "terminate", "grace"} =>
       engine[h] # "none"
  /\ host[h] \in {"spawned", "poll", "ask", "lastAsk", "ready"} =>
       ~stopped[h] /\ engine[h] # "draining"
  /\ host[h] \in {"poll", "ask", "lastAsk", "ready", "terminate", "grace"} => registered[h]
  /\ host[h] = "spawned" => ~registered[h]
  /\ registered[h] => engine[h] # "none"
  /\ host[h] = "terminate" /\ stopped[h] => engine[h] = "exited" \/ interrupted[h]
  /\ host[h] = "grace" => stopped[h]
  /\ host[h] \in {"raised", "closed", "exited"} =>
       \/ engine[h] \in {"none", "exited"}
       \/ interrupted[h] /\ (stopped[h] \/ ~registered[h])
  /\ host[h] = "ready" =>
       \/ engine[h] \in {"serving", "exited"}
       \/ \E g \in Hosts \ {h} : port[g] = port[h]

\* A step leaves a host it is not about, and its engine, alone.
LEMMA StepIsLocal ==
  ASSUME OwnTypes, NEW h \in Hosts, HostStep(h) \/ EngineStep(h), NEW g \in Hosts \ {h}
  PROVE  /\ host'[g] = host[g] /\ port'[g] = port[g] /\ engine'[g] = engine[g]
         /\ registered'[g] = registered[g] /\ stopped'[g] = stopped[g]
         /\ then'[g] = then[g] /\ interrupted'[g] = interrupted[g]
  <1> USE DEF OwnTypes, Goto, SetEngine, EnterTerminate, engineVars, stopVars
  <1>1. CASE \/ CallLocal(h) \/ SpawnFails(h) \/ PollEngine(h)
             \/ AskEngine(h) \/ DeadlinePasses(h)
    BY <1>1 DEF CallLocal, SpawnFails, PollEngine, AskEngine, DeadlinePasses
  <1>2. CASE ProvisionBinary(h)
    BY <1>2 DEF ProvisionBinary
  <1>3. CASE Spawn(h)
    BY <1>3 DEF Spawn
  <1>4. CASE RegisterHook(h) \/ EngineBinds(h) \/ EngineExits(h)
    BY <1>4 DEF RegisterHook, EngineBinds, EngineExits
  <1>5. CASE Close(h) \/ HostEnds(h)
    BY <1>5 DEF Close, HostEnds
  <1>6. CASE Terminate(h) \/ GraceEnds(h)
    BY <1>6 DEF Terminate, GraceEnds
  <1>7. CASE Interrupt(h) \/ HostKilled(h)
    BY <1>7 DEF Interrupt, HostKilled
  <1> QED
    BY <1>1, <1>2, <1>3, <1>4, <1>5, <1>6, <1>7
    DEF HostStep, EngineStep, StartStep, StopStep

\* Only the spawn, which a host makes before it has a port, gives it one.
LEMMA PortIsKept ==
  ASSUME OwnTypes, NEW h \in Hosts, Lifecycle(h), HostStep(h) \/ EngineStep(h), port[h] # {}
  PROVE  port' = port
  <1>1. ~Spawn(h)
    BY DEF Spawn, Goto, Lifecycle
  <1> QED
    BY <1>1
    DEF HostStep, EngineStep, StartStep, StopStep, CallLocal, ProvisionBinary, SpawnFails,
        RegisterHook, PollEngine, AskEngine, DeadlinePasses, EngineBinds, EngineExits,
        Close, HostEnds, Terminate, GraceEnds, Interrupt, HostKilled, engineVars

\* A step of a host or its engine keeps that host's lifecycle.
LEMMA OwnLifecycle ==
  ASSUME OwnTypes, NEW h \in Hosts, Lifecycle(h), HostStep(h) \/ EngineStep(h)
  PROVE  Lifecycle(h)'
  <1> USE DEF OwnTypes, Places, Lifecycle, Goto, SetEngine, EnterTerminate, engineVars,
              stopVars
  <1>1. CASE CallLocal(h)
    BY <1>1 DEF CallLocal
  <1>2. CASE ProvisionBinary(h)
    BY <1>2 DEF ProvisionBinary
  <1>3. CASE SpawnFails(h)
    BY <1>3 DEF SpawnFails
  <1>4. CASE Spawn(h)
    BY <1>4 DEF Spawn
  <1>5. CASE RegisterHook(h)
    BY <1>5 DEF RegisterHook
  <1>6. CASE PollEngine(h)
    BY <1>6 DEF PollEngine
  <1>7. CASE AskEngine(h)
    <2>1. UNCHANGED <<port, engine, registered, stopped, interrupted>>
      BY <1>7 DEF AskEngine
    <2>2. CASE /\ Answering(h) # {} /\ host[h] \in {"ask", "lastAsk"}
               /\ host' = [host EXCEPT ![h] = "ready"]
      <3>1. PICK g \in Hosts : engine[g] = "serving" /\ port[g] = port[h]
        BY <2>2 DEF Answering
      <3>2. engine[h] = "serving" \/ \E k \in Hosts \ {h} : port[k] = port[h]
        BY <3>1
      <3> QED
        BY <2>1, <2>2, <3>2
    <2>3. CASE host[h] = "ask" /\ host' = [host EXCEPT ![h] = "poll"]
      BY <2>1, <2>3
    <2>4. CASE host[h] = "lastAsk" /\ host' = [host EXCEPT ![h] = "terminate"]
      BY <2>1, <2>4
    <2> QED
      BY <1>7, <2>2, <2>3, <2>4 DEF AskEngine
  <1>8. CASE DeadlinePasses(h)
    BY <1>8 DEF DeadlinePasses
  <1>9. CASE EngineBinds(h)
    BY <1>9 DEF EngineBinds
  <1>10. CASE EngineExits(h)
    BY <1>10 DEF EngineExits
  <1>11. CASE Close(h)
    BY <1>11 DEF Close
  <1>12. CASE HostEnds(h)
    BY <1>12 DEF HostEnds
  <1>13. CASE Terminate(h)
    BY <1>13 DEF Terminate
  <1>14. CASE GraceEnds(h)
    BY <1>14 DEF GraceEnds
  <1>15. CASE Interrupt(h)
    <2>1. UNCHANGED <<port, engine, registered>>
      BY <1>15 DEF Interrupt
    <2>2. CASE /\ host[h] \in {"poll", "ask", "lastAsk"}
               /\ host' = [host EXCEPT ![h] = "terminate"]
               /\ UNCHANGED <<stopped, interrupted>>
      BY <2>1, <2>2
    <2>3. CASE /\ host[h] = "spawned" /\ host' = [host EXCEPT ![h] = "raised"]
               /\ interrupted' = [interrupted EXCEPT ![h] = TRUE]
               /\ UNCHANGED stopped
      BY <2>1, <2>3
    <2>4. CASE /\ host[h] \in {"grace", "terminate"}
               /\ host' = [host EXCEPT ![h] = then[h]]
               /\ stopped' = [stopped EXCEPT ![h] = TRUE]
               /\ interrupted' = [interrupted EXCEPT ![h] = TRUE]
      BY <2>1, <2>4
    <2> QED
      BY <1>15, <2>2, <2>3, <2>4 DEF Interrupt
  <1>16. CASE HostKilled(h)
    BY <1>16 DEF HostKilled
  <1> QED
    BY <1>1, <1>2, <1>3, <1>4, <1>5, <1>6, <1>7, <1>8, <1>9, <1>10, <1>11, <1>12,
       <1>13, <1>14, <1>15, <1>16
    DEF HostStep, EngineStep, StartStep, StopStep

\* A step of another host or engine keeps it too: what an answer depends on, the
\* port that two hosts were given, stays theirs.
LEMMA OthersLifecycle ==
  ASSUME OwnTypes, NEW h \in Hosts, Lifecycle(h), HostStep(h) \/ EngineStep(h),
         NEW g \in Hosts \ {h}, Lifecycle(g)
  PROVE  Lifecycle(g)'
  <1>1. /\ host'[g] = host[g] /\ port'[g] = port[g] /\ engine'[g] = engine[g]
        /\ registered'[g] = registered[g] /\ stopped'[g] = stopped[g]
        /\ interrupted'[g] = interrupted[g]
    BY StepIsLocal
  <1>2. ASSUME host[g] = "ready", NEW k \in Hosts \ {g}, port[k] = port[g]
        PROVE  port'[k] = port'[g]
    <2>1. port[k] # {}
      BY <1>2 DEF Lifecycle
    <2>2. CASE k = h
      BY <2>1, <2>2, <1>1, <1>2, PortIsKept
    <2>3. CASE k # h
      BY <2>3, <1>1, <1>2, StepIsLocal
    <2> QED
      BY <2>2, <2>3
  <1> QED
    BY <1>1, <1>2 DEF Lifecycle

\* So every host's lifecycle is kept by whatever any of them does.
LEMMA LifecycleHolds == Spec => [](\A h \in Hosts : Lifecycle(h))
  <1>1. Init => \A h \in Hosts : Lifecycle(h)
    BY DEF Init, Lifecycle
  <1>2. OwnTypes /\ (\A h \in Hosts : Lifecycle(h)) /\ [Next]_vars
          => (\A h \in Hosts : Lifecycle(h))'
    <2> SUFFICES ASSUME OwnTypes, \A h \in Hosts : Lifecycle(h), [Next]_vars,
                        NEW g \in Hosts
                 PROVE  Lifecycle(g)'
      OBVIOUS
    <2>1. CASE Next
      <3>1. PICK h \in Hosts : HostStep(h) \/ EngineStep(h)
        BY <2>1 DEF Next
      <3>2. CASE h = g
        BY <3>1, <3>2, OwnLifecycle
      <3>3. CASE h # g
        BY <3>1, <3>3, OthersLifecycle
      <3> QED
        BY <3>2, <3>3
    <2>2. CASE UNCHANGED vars
      BY <2>2 DEF vars, engineVars, stopVars, Lifecycle
    <2> QED
      BY <2>1, <2>2
  <1> QED
    BY <1>1, <1>2, OwnTypesHold, PTL DEF Spec

\* A host that is past its _terminate, or raised out of local(), has no engine any
\* more but by a KeyboardInterrupt at the wrong moment.
THEOREM EngineStopped == Spec => []EngineDoesNotOutliveHost
  <1>1. (\A h \in Hosts : Lifecycle(h)) => EngineDoesNotOutliveHost
    BY DEF Lifecycle, EngineDoesNotOutliveHost
  <1> QED
    BY <1>1, LifecycleHolds, PTL

\* The Client that local() returns speaks to the engine it started, unless another
\* host was given the same port.
THEOREM OwnEngineAnswers == Spec => []ReadyIsOwnEngine
  <1>1. (\A h \in Hosts : Lifecycle(h)) => ReadyIsOwnEngine
    BY DEF Lifecycle, ReadyIsOwnEngine
  <1> QED
    BY <1>1, LifecycleHolds, PTL
==============================================================================
