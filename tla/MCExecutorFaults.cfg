CONSTANTS
  Tasks = {t1, t2}
  Cqids = {c1, c2, c3}
  Bufs = {b1}
  Kinds = {"provide", "mem"}
  NoTask = NoTask
  Dead = Dead
  None = None
  SqEntries = 2
  CqEntries = 2
  MaxLink = 2
  MaxOps = 3
  MaxSpawns = 2
  AvoidFull = TRUE
  Shares = TRUE
  DropsMem = TRUE
  Abandons = TRUE
  Panics = TRUE
  Short = TRUE
  Transient = TRUE
  HardErrors = TRUE
SPECIFICATION Spec
SYMMETRY Symmetry
CHECK_DEADLOCK FALSE
INVARIANTS KernelBuffersLive NoForeignCompletion UnwindingRemovesFuture RegistrationSurvives
PROPERTY MustWaitSafe
