------------------------------- MODULE Build -------------------------------
(***************************************************************************)
(* build_connector_artifact (src/conduit/connector/_build.py): which       *)
(* distributions are vendored into a connector's artifact.  The build      *)
(* follows the requirements that the installed distributions record; the   *)
(* order in which it takes them off its queue is that of a Python set.     *)
(***************************************************************************)
EXTENDS Naturals

CONSTANTS
  Dists,      \* distributions, in the order their files have in an archive
  Sdk,        \* conduit-connector-sdk
  Projects    \* connector projects, each in the environment it is built in

\* A requirement of a project or a distribution: its marker holds here, does
\* not, or asks for an extra.
Requirements == [name : Dists, marker : {"holds", "fails", "extra"}]

ASSUME ProjectsAssumption ==
  /\ Dists \subseteq Nat
  /\ Sdk \in Dists
  /\ Projects \subseteq [entry : BOOLEAN,                        \* has its main.py
                         declared : SUBSET Requirements,         \* pyproject.toml
                         requires : [Dists -> SUBSET Requirements],
                         installed : SUBSET Dists,
                         listed : SUBSET Dists]                  \* have a RECORD

VARIABLES
  project,
  stage,     \* "idle", "resolve", "built" or "failed"
  queue,     \* distributions still to be resolved
  seen,      \* resolved ones
  archive    \* the ones in the artifact

buildVars == <<project, stage, queue, seen, archive>>

Names(requirements) == {r.name : r \in requirements}

\* _direct_requirement_names: no extra is active.
DirectRequirements(d) == Names({r \in project.requires[d] : r.marker = "holds"})

\* _project_dependency_names: whatever its marker says.
Declared == Names(project.declared)

\* The SDK is copied from the running interpreter; its requirements are
\* vendored when the project declares it.
Roots ==
  IF Sdk \in Declared THEN (Declared \ {Sdk}) \union DirectRequirements(Sdk) ELSE Declared

SdkFound == Sdk \in Declared => Sdk \in project.installed

\* _vendor_distribution copies the files a distribution's RECORD lists.
HasManifests == seen \subseteq project.listed

\* _vendor_conduit_sdk needs no RECORD.
Vendored == seen \union {Sdk}

---------------------------------------------------------------------------
BuildInit ==
  /\ project \in Projects
  /\ stage = "idle"
  /\ queue = {} /\ seen = {} /\ archive = {}

BeginBuild ==
  /\ stage = "idle"
  /\ project.entry
  /\ SdkFound
  /\ stage' = "resolve"
  /\ queue' = Roots
  /\ UNCHANGED <<project, seen, archive>>

MutantResolve(d) ==
  /\ stage = "resolve"
  /\ d \in queue
  /\ d \in project.installed
  /\ seen' = seen \union {d}
  /\ queue' = IF d \in Declared THEN (queue \ {d}) \union (DirectRequirements(d) \ seen')
                                ELSE queue \ {d}
  /\ UNCHANGED <<project, stage, archive>>

\* _resolve_transitive_distributions takes one name off its queue.
Resolve(d) ==
  /\ stage = "resolve"
  /\ d \in queue
  /\ d \in project.installed
  /\ seen' = seen \union {d}
  /\ queue' = (queue \ {d}) \union (DirectRequirements(d) \ seen')
  /\ UNCHANGED <<project, stage, archive>>

\* Everything is vendored into the staging directory and zipped.
Vendor ==
  /\ stage = "resolve"
  /\ queue = {}
  /\ HasManifests
  /\ stage' = "built"
  /\ archive' = Vendored
  /\ UNCHANGED <<project, queue, seen>>

\* BuildError: no entry script, a distribution that is not installed, or one
\* without a file manifest.  The staging directory is dropped, and the command
\* line tool exits with 1.
BuildFails ==
  /\ \/ stage = "idle" /\ ~project.entry
     \/ stage = "idle" /\ ~SdkFound
     \/ stage = "resolve" /\ ~(queue \subseteq project.installed)
     \/ stage = "resolve" /\ queue = {} /\ ~HasManifests
  /\ stage' = "failed"
  /\ UNCHANGED <<project, queue, seen, archive>>

BuildNext == BeginBuild \/ (\E d \in Dists : Resolve(d)) \/ Vendor \/ BuildFails

---------------------------------------------------------------------------
(* Properties.                                                             *)

Closed(S) == \A d \in S : DirectRequirements(d) \subseteq S

BuildTypeOK ==
  /\ project \in Projects
  /\ stage \in {"idle", "resolve", "built", "failed"}
  /\ queue \subseteq Dists /\ seen \subseteq Dists /\ archive \subseteq Dists

\* The artifact is "self-contained" and no larger than it has to be: it holds
\* what the project declares and, with every distribution, what that one
\* requires, and is contained in every set that does.  The exceptions are the
\* ones the code makes: the SDK's own requirements unless the project declares
\* the SDK, and every extra, the ones a project asks for included.
ArtifactIsClosed ==
  stage = "built" =>
    /\ Declared \subseteq archive
    /\ \A d \in archive :
          d # Sdk \/ Sdk \in Declared => DirectRequirements(d) \subseteq archive
    /\ \A S \in SUBSET Dists : Roots \subseteq S /\ Closed(S) => archive \subseteq S \union {Sdk}
=============================================================================
