CONSTANTS
  RepoId = {r1, r2, r3}
  ForkReqs = {f1}
  DeleteReqs = {d1, d2}
  NoSource = NoSource
  CoarseClock = FALSE
SPECIFICATION ForkSpec
SYMMETRY Symmetry
INVARIANTS NoForkBroken HitsAreTrue
CHECK_DEADLOCK FALSE
