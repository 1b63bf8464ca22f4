CONSTANTS
  c1 = c1
  c2 = c2
  c3 = c3
  c4 = c4
  Commit <- MCCommit
  Parents <- MCParents
  None = None
  Ref = {main, dev}
  Pushers = {p1}
  Committers = {k1}
  Mergers = {m1}
SPECIFICATION Spec
INVARIANTS RefsConnected AckedCommitsKept RefusedHadNoEffect
PROPERTY AtomicRepoSpec
CHECK_DEADLOCK FALSE
