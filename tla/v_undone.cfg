SPECIFICATION Spec
CONSTANTS
  Queues = {q1, q2}
  Nodes = {n1, n2, n3}
  Nil = Nil
  Mortal = {"owner"}
  CrashAt <- Harmless
  MaxCrashes = 1
  PurgeUndone = TRUE
SYMMETRY CellSymmetry
INVARIANTS
  Recovered
