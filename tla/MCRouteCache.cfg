SPECIFICATION Spec
CONSTANTS
  Replicas = {A, B}
  Gets = {g1, g2}
  Writes = {p1, p2}
  MaxFaults = 1
  MayRestart = TRUE
SYMMETRY Symmetry
INVARIANTS
  FreshOnceAsked
PROPERTIES
  VersionGrows
