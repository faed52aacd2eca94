SPECIFICATION Spec
CONSTANTS
  Tasks = {t1, t2}
  NrBuffers = 2
  Blocks = {k1, k2, k3}
  MaxFailures = 1
  Ops = {"bread", "breada", "sync"}
  NULL = NULL
SYMMETRY Symmetry
INVARIANTS OneBufferPerBlock CountsAreExact Coherent
CHECK_DEADLOCK FALSE
