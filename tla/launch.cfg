SPECIFICATION Spec
CONSTANTS
  Dists <- MCDists
  Sdk = 1
  Projects <- MCProjects
  Launches = {p1, p2, p3}
  Supported = {2}
  Offers <- MCOffers
SYMMETRY LaunchesAlike
INVARIANTS
  ArtifactIsClosed
  MarkedIsWhole
CHECK_DEADLOCK FALSE
