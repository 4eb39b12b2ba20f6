------------------------------ MODULE Provision ------------------------------
(***************************************************************************)
(* ensure_binary (src/conduit/client/_provision.py): several host          *)
(* processes provision the same version of the engine into one cache       *)
(* directory, without a lock, and each may die at any step.                *)
(*                                                                         *)
(* A file is what it holds: "absent", "empty", "partial", "plain" (all the *)
(* bytes, not executable) or "program".                                    *)
(***************************************************************************)

CONSTANT Hosts

VARIABLES
  cached,   \* the file at cached_binary_path
  temp,     \* the file mkstemp made for a host: its name is nobody else's
  install   \* where the host's ensure_binary stands

provisionVars == <<cached, temp, install>>

Files == {"absent", "empty", "partial", "plain", "program"}

Init ==
  /\ cached = "absent"
  /\ temp = [h \in Hosts |-> "absent"]
  /\ install = [h \in Hosts |-> "idle"]

Goto(h, from, to) ==
  /\ install[h] = from
  /\ install' = [install EXCEPT ![h] = to]

SetTemp(h, file) == temp' = [temp EXCEPT ![h] = file]

---------------------------------------------------------------------------
\* A binary that is there is used as it is.
Look(h) ==
  /\ Goto(h, "idle", IF cached = "absent" THEN "download" ELSE "returned")
  /\ UNCHANGED <<cached, temp>>

\* The asset matches checksums.txt and holds the binary: a temporary file is
\* made to write it to.
Download(h) ==
  /\ Goto(h, "download", "write")
  /\ SetTemp(h, "empty")
  /\ UNCHANGED cached

\* There is no asset for this platform or no network, or _verify_checksum or
\* _extract_binary refuses what came.
DownloadFails(h) ==
  /\ Goto(h, "download", "raised")
  /\ UNCHANGED <<cached, temp>>

MutantWrite(h) ==
  /\ Goto(h, "write", "chmod")
  /\ SetTemp(h, "absent")
  /\ cached' = "partial"

\* The bytes reach the temporary file one part after the other.
Write(h) ==
  /\ IF temp[h] = "empty"
       THEN Goto(h, "write", "write") /\ SetTemp(h, "partial")
       ELSE Goto(h, "write", "chmod") /\ SetTemp(h, "plain")
  /\ UNCHANGED cached

MakeExecutable(h) ==
  /\ Goto(h, "chmod", "replace")
  /\ SetTemp(h, "program")
  /\ UNCHANGED cached

\* The rename replaces whatever another host has installed meanwhile.
Replace(h) ==
  /\ Goto(h, "replace", "finally")
  /\ cached' = temp[h]
  /\ SetTemp(h, "absent")

\* The disk is full, or the target cannot be replaced.
InstallFails(h) ==
  /\ \E at \in {"write", "chmod", "replace"} : Goto(h, at, "finally")
  /\ UNCHANGED <<cached, temp>>

MutantUnlink(h) ==
  /\ Goto(h, "finally", IF temp[h] = "absent" THEN "returned" ELSE "raised")
  /\ UNCHANGED <<cached, temp>>

\* The finally removes the temporary file that a failure left.
Unlink(h) ==
  /\ Goto(h, "finally", IF temp[h] = "absent" THEN "returned" ELSE "raised")
  /\ SetTemp(h, "absent")
  /\ UNCHANGED cached

\* The host dies: nothing is cleaned up.
Die(h) ==
  /\ install' = [install EXCEPT ![h] = "dead"]
  /\ UNCHANGED <<cached, temp>>

ProvisionStep(h) ==
  \/ Look(h) \/ Download(h) \/ DownloadFails(h)
  \/ Write(h) \/ MakeExecutable(h) \/ Replace(h) \/ InstallFails(h) \/ Unlink(h)

---------------------------------------------------------------------------
TypeOK ==
  /\ cached \in Files
  /\ temp \in [Hosts -> Files]
  /\ install \in [Hosts -> {"idle", "download", "write", "chmod", "replace",
                            "finally", "returned", "raised", "dead"}]

\* Failure mode 3: whatever hosts install at the same time and wherever one of
\* them dies, the file at the cached path is the whole executable or is not
\* there ("never a partially-written file left at the final path"), so the path
\* ensure_binary returns can be run.
CachedIsProgram ==
  /\ cached \in {"absent", "program"}
  /\ \A h \in Hosts : install[h] = "returned" => cached = "program"

\* A call that comes back, with a path or an error, leaves no temporary file.
NothingLeftBehind ==
  \A h \in Hosts : install[h] \in {"returned", "raised"} => temp[h] = "absent"
=============================================================================
