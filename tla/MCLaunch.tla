------------------------------ MODULE MCLaunch ------------------------------
(* Launch for TLC: the SDK (1), a dependency (2), what that one requires   *)
(* (3) and a distribution nobody requires without an extra (4), in projects *)
(* that build and in projects that do not; three launches.                  *)
EXTENDS Launch, TLC

LaunchesAlike == Permutations(Launches)

MCDists == 1..4
MCOffers == {{}, {1}, {1, 2}, {2, 3}}

Needs(d) == [name |-> d, marker |-> "holds"]
NeedsNot(d) == [Needs(d) EXCEPT !.marker = "fails"]
OnExtra(d) == [Needs(d) EXCEPT !.marker = "extra"]

\* 2 and 3 require each other, the SDK requires 3, and 4 for an extra.
Requires == [d \in MCDists |-> CASE d = 1 -> {Needs(3), OnExtra(4)}
                                 [] d = 2 -> {Needs(3), NeedsNot(4)}
                                 [] d = 3 -> {Needs(2)}
                                 [] OTHER -> {}]

Project(entry, declared, requires, installed) ==
  [entry |-> entry, declared |-> declared, requires |-> requires,
   installed |-> installed, listed |-> installed \ {1}]

NoRequires == [d \in MCDists |-> {}]

MCProjects ==
  {Project(TRUE, {Needs(2)}, Requires, MCDists),
   Project(TRUE, {Needs(1)}, Requires, MCDists),
   Project(TRUE, {Needs(1), NeedsNot(4)}, [Requires EXCEPT ![3] = {}], MCDists),
   Project(TRUE, {Needs(2)}, NoRequires, MCDists),
   Project(TRUE, {Needs(2)}, [Requires EXCEPT ![3] = {Needs(1)}], MCDists),
   [Project(TRUE, {Needs(2)}, [Requires EXCEPT ![2] = {Needs(1)}], MCDists)
      EXCEPT !.listed = MCDists],
   Project(TRUE, {Needs(2)}, Requires, {1, 2}),
   Project(TRUE, {Needs(1)}, Requires, {2, 3}),
   Project(TRUE, {}, Requires, MCDists),
   Project(FALSE, {}, Requires, MCDists)}
=============================================================================
