SPECIFICATION MCSpec
CONSTANTS
  Values = {v1, v2}
  None = None
  SLABSIZE = 3
  MaxSlabs = 2
  SENTINEL = SENTINEL
  Ids = {"A", "B", "C"}
  Buckets = {1, 2}
  MaxLen = 4
  e1 = e1
  e2 = e2
  e3 = e3
  Elems <- MCElems
  va = va
  vb = vb
  Vecs <- MCVecs
  Cap = 3
  Uninit = Uninit
  AvoidDrain = FALSE
  AvoidAppend = TRUE
  AvoidOverfull = TRUE
SYMMETRY Symmetry
CHECK_DEADLOCK FALSE
INVARIANT MemorySafe
