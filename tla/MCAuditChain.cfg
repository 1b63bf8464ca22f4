CONSTANTS
  Writers = {w1, w2}
  Data = {d1}
  Retention = 1
  MaxTime = 2
  MaxId = 3
SPECIFICATION Spec
SYMMETRY WriterSymmetry
INVARIANTS ChainNeverForks VerdictIsExact
