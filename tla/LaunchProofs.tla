---------------------------- MODULE LaunchProofs ----------------------------
(***************************************************************************)
(* What an artifact holds and what its cache holds, for any distributions, *)
(* projects and number of launches.                                        *)
(*                                                                         *)
(* ArtifactIsClosed rests on the worklist (Worklist): what is queued or    *)
(* seen covers the requirements of all that is seen, and is in every set   *)
(* that could be the artifact.  MarkedIsWhole rests on the owner of a torn *)
(* file (Torn), the launch that truncated it last, and on the fact that a  *)
(* file no longer to be extracted is there (Extracted).                    *)
(***************************************************************************)
EXTENDS Launch, TLAPS

\* What is queued or seen covers what is seen, and is in every candidate for the
\* artifact.
Worklist ==
  /\ stage = "idle" => queue = {} /\ seen = {}
  /\ stage = "resolve" =>
       /\ Roots \subseteq queue \union seen
       /\ \A d \in seen : DirectRequirements(d) \subseteq queue \union seen
       /\ \A S \in SUBSET Dists :
            Roots \subseteq S /\ Closed(S) => queue \union seen \subseteq S

\* The inductive invariant of the build.
BuildInv == BuildTypeOK /\ Worklist /\ ArtifactIsClosed

\* Nothing is launched before there is an artifact.
Unbuilt ==
  stage # "built" => ~marker /\ \A p \in Launches : pc[p] = "none"

\* A file is short only under the hands of the launch that truncated it last.
Torn ==
  \A d \in Dists : disk[d] = "torn" =>
    \E q \in Launches : open[q] = {d} /\ ~clobbered[q]

\* A file that is open, that a launch no longer has to extract, or that the
\* marker stands for, is there.
Extracted ==
  /\ \A p \in Launches : \A d \in open[p] : disk[d] # "missing"
  /\ \A p \in Launches : pc[p] = "extract" =>
       \A d \in archive : d \in left[p] \/ disk[d] # "missing"
  /\ marker => \A d \in archive : disk[d] # "missing"

\* The inductive invariant of the launches, given that of the build.
CacheInv == CacheTypeOK /\ Unbuilt /\ Torn /\ Extracted

\* Both, together.
Inv == BuildInv /\ CacheInv

---------------------------------------------------------------------------
(* The build.                                                              *)

\* Requirements name distributions.
LEMMA RequirementsAreDists ==
  ASSUME BuildTypeOK
  PROVE  /\ Declared \subseteq Dists
         /\ Roots \subseteq Dists
         /\ \A d \in Dists : DirectRequirements(d) \subseteq Dists
  <1>1. project.declared \subseteq Requirements
    BY ProjectsAssumption DEF BuildTypeOK
  <1>2. \A d \in Dists : project.requires[d] \subseteq Requirements
    BY ProjectsAssumption DEF BuildTypeOK
  <1>3. \A R \in SUBSET Requirements : Names(R) \subseteq Dists
    BY DEF Names, Requirements
  <1>4. Declared \subseteq Dists
    BY <1>1, <1>3 DEF Declared
  <1>5. \A d \in Dists : DirectRequirements(d) \subseteq Dists
    BY <1>2, <1>3 DEF DirectRequirements
  <1>6. Roots \subseteq Dists
    BY <1>4, <1>5, ProjectsAssumption DEF Roots
  <1> QED
    BY <1>4, <1>5, <1>6

\* Taking a distribution off the queue keeps what the queue is for.
LEMMA ResolveKeepsWorklist ==
  ASSUME BuildInv, NEW d \in Dists, Resolve(d)
  PROVE  BuildInv'
  <1> DEFINE more == DirectRequirements(d) \ seen'
  <1>1. /\ stage = "resolve" /\ stage' = "resolve"
        /\ d \in queue
        /\ seen' = seen \union {d}
        /\ queue' = (queue \ {d}) \union more
        /\ project' = project /\ archive' = archive
    BY DEF Resolve
  <1>2. Roots' = Roots /\ \A e : DirectRequirements(e)' = DirectRequirements(e)
    BY <1>1 DEF Roots, Declared, DirectRequirements
  <1>3. \A S : Closed(S)' <=> Closed(S)
    BY <1>2 DEF Closed
  <1>4. queue' \union seen' = (queue \union seen) \union DirectRequirements(d)
    BY <1>1
  <1>5. BuildTypeOK'
    BY <1>1, RequirementsAreDists DEF BuildInv, BuildTypeOK
  <1>6. Roots' \subseteq queue' \union seen'
    BY <1>1, <1>2, <1>4 DEF BuildInv, Worklist
  <1>7. \A e \in seen' : DirectRequirements(e)' \subseteq queue' \union seen'
    BY <1>1, <1>2, <1>4 DEF BuildInv, Worklist
  <1>8. ASSUME NEW S \in SUBSET Dists, Roots' \subseteq S, Closed(S)'
        PROVE  queue' \union seen' \subseteq S
    <2>1. queue \union seen \subseteq S
      BY <1>1, <1>2, <1>3, <1>8 DEF BuildInv, Worklist
    <2>2. DirectRequirements(d) \subseteq S
      BY <1>1, <1>3, <1>8, <2>1 DEF Closed
    <2> QED
      BY <1>4, <2>1, <2>2
  <1>9. Worklist'
    BY <1>1, <1>6, <1>7, <1>8 DEF Worklist
  <1> QED
    BY <1>1, <1>5, <1>9 DEF BuildInv, ArtifactIsClosed

\* What is vendored when the queue is empty is what the artifact needs.
LEMMA VendorCloses ==
  ASSUME BuildInv, Vendor
  PROVE  BuildInv'
  <1>1. /\ stage = "resolve" /\ stage' = "built" /\ queue = {}
        /\ archive' = seen \union {Sdk}
        /\ project' = project /\ queue' = queue /\ seen' = seen
    BY DEF Vendor, Vendored
  <1>2. /\ Roots' = Roots /\ Declared' = Declared
        /\ \A e : DirectRequirements(e)' = DirectRequirements(e)
    BY <1>1 DEF Roots, Declared, DirectRequirements
  <1>3. \A S : Closed(S)' <=> Closed(S)
    BY <1>2 DEF Closed
  <1>4. /\ Roots \subseteq seen
        /\ \A d \in seen : DirectRequirements(d) \subseteq seen
        /\ \A S \in SUBSET Dists : Roots \subseteq S /\ Closed(S) => seen \subseteq S
    BY <1>1 DEF BuildInv, Worklist
  <1>5. BuildTypeOK'
    BY <1>1, ProjectsAssumption DEF BuildInv, BuildTypeOK
  <1>6. Declared \subseteq archive'
    BY <1>1, <1>4 DEF Roots
  <1>7. ASSUME NEW d \in archive', d # Sdk \/ Sdk \in Declared
        PROVE  DirectRequirements(d) \subseteq archive'
    <2>1. CASE d \in seen
      BY <1>1, <1>4, <2>1
    <2>2. CASE d = Sdk
      BY <1>1, <1>4, <1>7, <2>2 DEF Roots
    <2> QED
      BY <1>1, <1>7, <2>1, <2>2
  <1>8. \A S \in SUBSET Dists :
          Roots \subseteq S /\ Closed(S) => archive' \subseteq S \union {Sdk}
    BY <1>1, <1>4
  <1>9. ArtifactIsClosed'
    BY <1>2, <1>3, <1>6, <1>7, <1>8 DEF ArtifactIsClosed
  <1> QED
    BY <1>1, <1>5, <1>9 DEF BuildInv, Worklist

\* Every step of the build keeps its invariant.
LEMMA BuildNextInv ==
  ASSUME BuildInv, BuildNext
  PROVE  BuildInv'
  <1>1. CASE BeginBuild
    <2>1. /\ stage = "idle" /\ stage' = "resolve" /\ queue' = Roots
          /\ project' = project /\ seen' = seen /\ archive' = archive
      BY <1>1 DEF BeginBuild
    <2>2. seen = {}
      BY <2>1 DEF BuildInv, Worklist
    <2>3. Roots' = Roots
      BY <2>1 DEF Roots, Declared, DirectRequirements
    <2>4. BuildTypeOK'
      BY <2>1, RequirementsAreDists DEF BuildInv, BuildTypeOK
    <2> QED
      BY <2>1, <2>2, <2>3, <2>4 DEF BuildInv, Worklist, ArtifactIsClosed
  <1>2. CASE \E d \in Dists : Resolve(d)
    BY <1>2, ResolveKeepsWorklist
  <1>3. CASE Vendor
    BY <1>3, VendorCloses
  <1>4. CASE BuildFails
    <2>1. stage' = "failed" /\ UNCHANGED <<project, queue, seen, archive>>
      BY <1>4 DEF BuildFails
    <2> QED
      BY <2>1 DEF BuildInv, BuildTypeOK, Worklist, ArtifactIsClosed
  <1> QED
    BY <1>1, <1>2, <1>3, <1>4 DEF BuildNext

\* It says nothing of a launch.
LEMMA BuildInvUnchanged ==
  ASSUME BuildInv, UNCHANGED buildVars
  PROVE  BuildInv'
  BY DEF BuildInv, BuildTypeOK, Worklist, ArtifactIsClosed, Closed, Roots, Declared,
         DirectRequirements, buildVars

---------------------------------------------------------------------------
(* The launches.                                                           *)

\* A launch that looks at the cache writes nothing, and takes over either all
\* files to extract or none.
LEMMA LookKeepsCache ==
  ASSUME BuildTypeOK, CacheInv, NEW p \in Launches, Look(p)
  PROVE  CacheInv'
  <1> USE DEF CacheInv, CacheTypeOK, Look, Goto, BuildTypeOK, buildVars
  <1>1. CacheTypeOK'
    OBVIOUS
  <1>2. Unbuilt' /\ Torn'
    BY DEF Unbuilt, Torn
  <1>3. Extracted'
    BY DEF Extracted
  <1> QED
    BY <1>1, <1>2, <1>3

\* A launch that truncates a file owns it, and only it.
LEMMA TruncateKeepsCache ==
  ASSUME CacheInv, NEW p \in Launches, Truncate(p)
  PROVE  CacheInv'
  <1>1. PICK d \in left[p] :
          /\ open' = [open EXCEPT ![p] = {d}]
          /\ disk' = [disk EXCEPT ![d] = "torn"]
          /\ clobbered' = [q \in Launches |-> IF q = p THEN FALSE
                                              ELSE clobbered[q] \/ open[q] = {d}]
    BY DEF Truncate
  <1>2. /\ pc[p] = "extract" /\ open[p] = {}
        /\ UNCHANGED <<buildVars, marker, pc, left, version>>
    BY DEF Truncate
  <1>3. d \in Dists
    BY <1>1 DEF CacheInv, CacheTypeOK
  <1>4. CacheTypeOK'
    BY <1>1, <1>2, <1>3 DEF CacheInv, CacheTypeOK
  <1>5. Unbuilt'
    BY <1>2 DEF CacheInv, Unbuilt, buildVars
  <1>6. ASSUME NEW e \in Dists, disk'[e] = "torn"
        PROVE  \E q \in Launches : open'[q] = {e} /\ ~clobbered'[q]
    <2>1. CASE e = d
      BY <1>1, <2>1 DEF CacheInv, CacheTypeOK
    <2>2. CASE e # d
      <3>1. PICK q \in Launches : open[q] = {e} /\ ~clobbered[q]
        BY <1>1, <1>6, <2>2 DEF CacheInv, CacheTypeOK, Torn
      <3>2. q # p /\ open[q] # {d}
        BY <1>2, <2>2, <3>1
      <3> QED
        BY <1>1, <3>1, <3>2 DEF CacheInv, CacheTypeOK
    <2> QED
      BY <2>1, <2>2
  <1>7. Extracted'
    <2>1. \A e \in Dists : disk[e] # "missing" => disk'[e] # "missing"
      BY <1>1 DEF CacheInv, CacheTypeOK
    <2>2. ASSUME NEW q \in Launches, NEW e \in open'[q]
          PROVE  disk'[e] # "missing"
      <3>1. CASE q = p
        BY <1>1, <1>3, <2>2, <3>1 DEF CacheInv, CacheTypeOK
      <3>2. CASE q # p
        BY <1>1, <2>1, <2>2, <3>2 DEF CacheInv, CacheTypeOK, Extracted
      <3> QED
        BY <3>1, <3>2
    <2>3. archive' = archive /\ left' = left /\ pc' = pc /\ marker' = marker
      BY <1>2 DEF buildVars
    <2>4. \A e : disk[e] # "missing" => disk'[e] # "missing"
      BY <1>1, <2>1 DEF CacheInv, CacheTypeOK
    <2> QED
      BY <2>2, <2>3, <2>4 DEF CacheInv, Extracted
  <1> QED
    BY <1>4, <1>5, <1>6, <1>7 DEF CacheInv, Torn

\* What a launch writes is there, and it alone may leave a file short: the one
\* that another launch truncated under its hands.
LEMMA WriteKeepsCache ==
  ASSUME CacheInv, NEW p \in Launches, Write(p)
  PROVE  CacheInv'
  <1> DEFINE Written(d) == IF clobbered[p] THEN {disk[d], "whole"} ELSE {"whole"}
  <1>1. PICK d \in open[p], is \in {"missing", "torn", "whole"} :
          /\ is \in Written(d)
          /\ left' = [left EXCEPT ![p] = @ \ {d}]
          /\ disk' = [disk EXCEPT ![d] = is]
    BY DEF Write, CacheInv, CacheTypeOK
  <1>2. /\ pc[p] = "extract"
        /\ open' = [open EXCEPT ![p] = {}]
        /\ UNCHANGED <<buildVars, marker, pc, clobbered, version>>
    BY DEF Write
  <1>3. d \in Dists
    BY <1>1 DEF CacheInv, CacheTypeOK
  <1>4. is \in {"torn", "whole"}
    BY <1>1, <1>3 DEF CacheInv, CacheTypeOK, Extracted
  <1>5. CacheTypeOK'
    BY <1>1, <1>2, <1>4 DEF CacheInv, CacheTypeOK
  <1>6. Unbuilt'
    BY <1>2 DEF CacheInv, Unbuilt, buildVars
  <1>7. ASSUME NEW e \in Dists, disk'[e] = "torn"
        PROVE  \E q \in Launches : open'[q] = {e} /\ ~clobbered'[q]
    <2>1. disk[e] = "torn" /\ (e = d => clobbered[p])
      BY <1>1, <1>3, <1>7 DEF CacheInv, CacheTypeOK
    <2>2. PICK q \in Launches : open[q] = {e} /\ ~clobbered[q]
      BY <2>1 DEF CacheInv, Torn
    <2>3. q # p
      BY <1>1, <2>1, <2>2
    <2> QED
      BY <1>2, <2>2, <2>3 DEF CacheInv, CacheTypeOK
  <1>8. Extracted'
    <2>1. disk'[d] # "missing" /\ \A e : disk[e] # "missing" => disk'[e] # "missing"
      BY <1>1, <1>3, <1>4 DEF CacheInv, CacheTypeOK
    <2>2. archive' = archive /\ pc' = pc /\ marker' = marker
      BY <1>2 DEF buildVars
    <2>3. \A q \in Launches : open'[q] \subseteq open[q]
      BY <1>2 DEF CacheInv, CacheTypeOK
    <2>4. \A q \in Launches, e \in archive : e \in left'[q] \/ e = d \/ e \notin left[q]
      BY <1>1 DEF CacheInv, CacheTypeOK
    <2> QED
      BY <2>1, <2>2, <2>3, <2>4 DEF CacheInv, Extracted
  <1> QED
    BY <1>5, <1>6, <1>7, <1>8 DEF CacheInv, Torn

\* Whoever sets the marker has extracted everything.
LEMMA TouchMarkerKeepsCache ==
  ASSUME BuildTypeOK, CacheInv, NEW p \in Launches, TouchMarker(p)
  PROVE  CacheInv'
  <1>1. /\ pc[p] = "extract" /\ left[p] = {} /\ marker' = TRUE
        /\ pc' = [pc EXCEPT ![p] = "run"] /\ left' = [left EXCEPT ![p] = archive]
        /\ UNCHANGED <<buildVars, disk, open, clobbered, version>>
    BY DEF TouchMarker, Goto
  <1>2. stage = "built"
    BY <1>1 DEF CacheInv, Unbuilt
  <1>3. \A d \in archive : disk[d] # "missing"
    BY <1>1 DEF CacheInv, Extracted
  <1>4. CacheTypeOK'
    BY <1>1 DEF CacheInv, CacheTypeOK, BuildTypeOK
  <1>5. Unbuilt' /\ Torn'
    BY <1>1, <1>2 DEF CacheInv, Unbuilt, Torn, buildVars
  <1>6. Extracted'
    BY <1>1, <1>3 DEF CacheInv, CacheTypeOK, Extracted, buildVars
  <1> QED
    BY <1>4, <1>5, <1>6 DEF CacheInv

\* What a launch does after it has extracted, and its end, leaves the cache as
\* it is.
LEMMA LaterStepsKeepCache ==
  ASSUME CacheInv, NEW p \in Launches,
         Import(p) \/ Handshake(p) \/ Listen(p) \/ Announce(p) \/ Kill(p)
  PROVE  CacheInv'
  <1>1. /\ pc[p] # "none"
        /\ UNCHANGED <<buildVars, disk, marker, open, clobbered>>
        /\ \E to \in {"run", "handshake", "bind", "announce", "serve", "refused", "broken",
                      "dead"} :
             pc' = [pc EXCEPT ![p] = to]
    <2>1. CASE Import(p)
      BY <2>1 DEF Import, Goto, CacheInv, CacheTypeOK
    <2>2. CASE Handshake(p)
      BY <2>2 DEF Handshake, Goto
    <2>3. CASE Listen(p) \/ Announce(p) \/ Kill(p)
      BY <2>3 DEF Listen, Announce, Kill, Goto
    <2> QED
      BY <2>1, <2>2, <2>3
  <1>2. left' \in [Launches -> SUBSET Dists] /\ (left' = left \/ pc[p] = "run")
        /\ \A q \in Launches \ {p} : left'[q] = left[q]
    BY DEF Import, Handshake, Listen, Announce, Kill, CacheInv, CacheTypeOK
  <1>3. CacheTypeOK'
    BY <1>1, <1>2 DEF CacheInv, CacheTypeOK
  <1>4. Unbuilt'
    BY <1>1 DEF CacheInv, CacheTypeOK, Unbuilt, buildVars
  <1>5. Torn'
    BY <1>1 DEF CacheInv, Torn
  <1>6. Extracted'
    <2>1. \A q \in Launches : pc'[q] = "extract" => pc[q] = "extract" /\ left'[q] = left[q]
      BY <1>1, <1>2 DEF CacheInv, CacheTypeOK
    <2> QED
      BY <1>1, <2>1 DEF CacheInv, Extracted, buildVars
  <1> QED
    BY <1>3, <1>4, <1>5, <1>6 DEF CacheInv

\* The build leaves the cache alone, and ends before the first launch begins.
LEMMA BuildKeepsCache ==
  ASSUME BuildTypeOK, CacheInv, BuildNext, UNCHANGED launchVars
  PROVE  CacheInv'
  <1>1. stage # "built"
    BY DEF BuildNext, BeginBuild, Resolve, Vendor, BuildFails
  <1>2. ~marker /\ \A p \in Launches : pc[p] = "none"
    BY <1>1 DEF CacheInv, Unbuilt
  <1> QED
    BY <1>2 DEF CacheInv, CacheTypeOK, Unbuilt, Torn, Extracted, launchVars

---------------------------------------------------------------------------
(* Together.                                                               *)

\* It holds of an empty project tree and an empty cache.
LEMMA InitInv == Init => Inv
  BY ProjectsAssumption
     DEF Init, BuildInit, Inv, BuildInv, BuildTypeOK, Worklist, ArtifactIsClosed, CacheInv,
         CacheTypeOK, Unbuilt, Torn, Extracted

\* Every step keeps it.
LEMMA NextInv == Inv /\ [Next]_vars => Inv'
  <1> SUFFICES ASSUME Inv, [Next]_vars
               PROVE  Inv'
    OBVIOUS
  <1>1. BuildInv /\ CacheInv /\ BuildTypeOK
    BY DEF Inv, BuildInv
  <1>2. BuildInv' /\ CacheInv' => Inv'
    BY DEF Inv
  <1>3. CASE BuildNext /\ UNCHANGED launchVars
    BY <1>1, <1>2, <1>3, BuildNextInv, BuildKeepsCache
  <1>4. ASSUME NEW p \in Launches, LaunchStep(p) \/ Kill(p)
        PROVE  Inv'
    <2>1. UNCHANGED buildVars
      BY <1>4 DEF LaunchStep, Look, Truncate, Write, TouchMarker, Import, Handshake, Listen,
                  Announce, Kill
    <2>2. BuildInv'
      BY <1>1, <2>1, BuildInvUnchanged
    <2>3. CacheInv'
      BY <1>1, <1>4, LookKeepsCache, TruncateKeepsCache, WriteKeepsCache,
         TouchMarkerKeepsCache, LaterStepsKeepCache DEF LaunchStep
    <2> QED
      BY <1>2, <2>2, <2>3
  <1>5. CASE UNCHANGED vars
    <2>1. BuildInv'
      BY <1>1, <1>5, BuildInvUnchanged DEF vars
    <2>2. CacheInv'
      BY <1>1, <1>5 DEF vars, launchVars, buildVars, CacheInv, CacheTypeOK, Unbuilt, Torn,
                        Extracted
    <2> QED
      BY <1>2, <2>1, <2>2
  <1> QED
    BY <1>3, <1>4, <1>5 DEF Next

\* It holds in every reachable state.
LEMMA LaunchInv == Spec => []Inv
  BY InitInv, NextInv, PTL DEF Spec

\* The artifact of every project that builds holds what it declares and what
\* that requires, and is the smallest that does, whatever order the queue of
\* _resolve_transitive_distributions is taken in.
THEOREM LaunchArtifactIsClosed == Spec => []ArtifactIsClosed
  <1>1. Inv => ArtifactIsClosed
    BY DEF Inv, BuildInv
  <1> QED
    BY <1>1, LaunchInv, PTL

\* However many launches overlap, and wherever they are killed, a file under the
\* marker is whole, or a launch that had looked before has it open.
THEOREM LaunchMarkedIsWhole == Spec => []MarkedIsWhole
  <1>1. Inv => MarkedIsWhole
    BY ProjectsAssumption DEF Inv, BuildInv, BuildTypeOK, CacheInv, CacheTypeOK, Torn, Extracted,
                              MarkedIsWhole
  <1> QED
    BY <1>1, LaunchInv, PTL
=============================================================================
