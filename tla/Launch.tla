------------------------------- MODULE Launch -------------------------------
(***************************************************************************)
(* From a connector project to a plugin that serves: the build of its      *)
(* artifact (module Build), the bootstrap inside the artifact, which       *)
(* unpacks the payload into a cache shared by every launch of the same     *)
(* artifact (_BOOTSTRAP_SOURCE of _build.py), and the go-plugin handshake  *)
(* (_handshake.py, serve.py).  Launches overlap, and may be killed.        *)
(*                                                                         *)
(* A file stands for the files of one distribution.  zipfile truncates the *)
(* file it extracts to and then writes it.                                 *)
(***************************************************************************)
EXTENDS Build

CONSTANTS
  Launches,    \* plugin processes started from the artifact
  Supported,   \* SUPPORTED_APP_PROTOCOL_VERSIONS
  Offers       \* what PLUGIN_PROTOCOL_VERSIONS may hold, as a set of versions

None == 0

ASSUME VersionsAssumption == Supported \subseteq Nat \ {None} /\ Offers \subseteq SUBSET Nat

VARIABLES
  disk,      \* each extracted file: "missing", "torn" or "whole"
  marker,    \* .extracted-ok is there
  pc,        \* of a launch: "none", "extract", "run", "handshake", "bind",
             \* "announce", "serve", or its end: "refused", "broken" or "dead"
  left,      \* files it has still to extract, or to import
  open,      \* files it has truncated and not written to the end (at most one)
  clobbered, \* somebody else truncated that file after it did
  version    \* app protocol version agreed with the host, or None

launchVars == <<disk, marker, pc, left, open, clobbered, version>>
vars == <<buildVars, launchVars>>

Init ==
  /\ BuildInit
  /\ disk = [d \in Dists |-> "missing"] /\ marker = FALSE
  /\ pc = [p \in Launches |-> "none"]
  /\ left = [p \in Launches |-> {}] /\ open = [p \in Launches |-> {}]
  /\ clobbered = [p \in Launches |-> FALSE]
  /\ version = [p \in Launches |-> None]

Goto(p, to) == pc' = [pc EXCEPT ![p] = to]

---------------------------------------------------------------------------
(* _extract_payload.                                                       *)

\* The marker is looked at once, without a lock.
Look(p) ==
  /\ stage = "built"
  /\ pc[p] = "none"
  /\ Goto(p, IF marker THEN "run" ELSE "extract")
  /\ left' = [left EXCEPT ![p] = archive]
  /\ UNCHANGED <<buildVars, disk, marker, open, clobbered, version>>

Truncate(p) ==
  /\ pc[p] = "extract"
  /\ open[p] = {}
  /\ \E d \in left[p] :
       /\ \A e \in left[p] : d <= e
       /\ open' = [open EXCEPT ![p] = {d}]
       /\ disk' = [disk EXCEPT ![d] = "torn"]
       /\ clobbered' = [q \in Launches |-> IF q = p THEN FALSE
                                           ELSE clobbered[q] \/ open[q] = {d}]
  /\ UNCHANGED <<buildVars, marker, pc, left, version>>

\* What is there when the last byte is written is whole, unless the file was
\* truncated under the writer: then it depends on how far each had come.
Write(p) ==
  /\ pc[p] = "extract"
  /\ \E d \in open[p] :
       /\ left' = [left EXCEPT ![p] = @ \ {d}]
       /\ \E is \in IF clobbered[p] THEN {disk[d], "whole"} ELSE {"whole"} :
            disk' = [disk EXCEPT ![d] = is]
  /\ open' = [open EXCEPT ![p] = {}]
  /\ UNCHANGED <<buildVars, marker, pc, clobbered, version>>

MutantTouchMarker(p) ==
  /\ pc[p] = "extract"
  /\ open[p] = {}
  /\ marker' = TRUE
  /\ IF left[p] = {} THEN Goto(p, "run") /\ left' = [left EXCEPT ![p] = archive]
                     ELSE UNCHANGED <<pc, left>>
  /\ UNCHANGED <<buildVars, disk, open, clobbered, version>>

TouchMarker(p) ==
  /\ pc[p] = "extract"
  /\ left[p] = {}
  /\ marker' = TRUE
  /\ Goto(p, "run")
  /\ left' = [left EXCEPT ![p] = archive]
  /\ UNCHANGED <<buildVars, disk, open, clobbered, version>>

\* _main runs the payload, which imports its modules in some order.
Import(p) ==
  /\ pc[p] = "run"
  /\ \E d \in left[p] :
       IF disk[d] = "whole"
         THEN /\ left' = [left EXCEPT ![p] = @ \ {d}]
              /\ IF left[p] = {d} THEN Goto(p, "handshake") ELSE UNCHANGED pc
         ELSE Goto(p, "broken") /\ UNCHANGED left
  /\ UNCHANGED <<buildVars, disk, marker, open, clobbered, version>>

---------------------------------------------------------------------------
(* serve().  The host sets the environment, and starts the process.          *)

Common(offered) == Supported \intersect offered

\* check_magic_cookie and negotiate_protocol_version: the highest version both
\* sides know, and none when the variable is unset, empty or malformed.
Negotiated(cookie, offered) ==
  IF cookie /\ Common(offered) # {}
    THEN CHOOSE v \in Common(offered) : \A w \in Common(offered) : w <= v
    ELSE None

\* Nothing has been started when the handshake is refused.
Handshake(p) ==
  /\ pc[p] = "handshake"
  /\ \E cookie \in BOOLEAN, offered \in Offers :
       LET agreed == Negotiated(cookie, offered)
       IN  /\ version' = [version EXCEPT ![p] = agreed]
           /\ Goto(p, IF agreed = None THEN "refused" ELSE "bind")
  /\ UNCHANGED <<buildVars, disk, marker, left, open, clobbered>>

\* _build_plugin_server: the server is bound and started.
Listen(p) ==
  /\ pc[p] = "bind"
  /\ Goto(p, "announce")
  /\ UNCHANGED <<buildVars, disk, marker, left, open, clobbered, version>>

\* emit_handshake_line, with the port; then serve() waits for the shutdown.
Announce(p) ==
  /\ pc[p] = "announce"
  /\ Goto(p, "serve")
  /\ UNCHANGED <<buildVars, disk, marker, left, open, clobbered, version>>

\* Conduit, or the operator, kills the process.
Kill(p) ==
  /\ pc[p] \notin {"none", "refused", "broken", "dead"}
  /\ Goto(p, "dead")
  /\ UNCHANGED <<buildVars, disk, marker, left, open, clobbered, version>>

---------------------------------------------------------------------------
LaunchStep(p) ==
  Look(p) \/ Truncate(p) \/ Write(p) \/ TouchMarker(p) \/ Import(p)
    \/ Handshake(p) \/ Listen(p) \/ Announce(p)

Next ==
  \/ BuildNext /\ UNCHANGED launchVars
  \/ \E p \in Launches : LaunchStep(p) \/ Kill(p)

Spec == Init /\ [][Next]_vars

---------------------------------------------------------------------------
(* Properties.                                                             *)

\* The types of what MarkedIsWhole is about.
CacheTypeOK ==
  /\ disk \in [Dists -> {"missing", "torn", "whole"}] /\ marker \in BOOLEAN
  /\ pc \in [Launches -> {"none", "extract", "run", "handshake", "bind", "announce",
                          "serve", "refused", "broken", "dead"}]
  /\ left \in [Launches -> SUBSET Dists] /\ open \in [Launches -> SUBSET Dists]
  /\ clobbered \in [Launches -> BOOLEAN]

\* Once the marker is there a file is whole, so that no later launch breaks on
\* it, whoever crashed before; unless a launch that had looked before the marker
\* was there is writing that very file, or was killed when it did.
MarkedIsWhole ==
  marker => \A d \in archive : disk[d] = "whole" \/ \E q \in Launches : open[q] = {d}

\* The same without the exception: what the bootstrap says of two first launches
\* ("no partial/torn file can result from two writers writing identical bytes").
NeverTorn == marker => \A d \in archive : disk[d] = "whole"
=============================================================================
