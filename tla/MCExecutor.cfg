CONSTANTS
  Tasks = {t1, t2}
  Cqids = {c1, c2}
  Bufs = {b1}
  Kinds = {"read", "provide"}
  NoTask = NoTask
  Dead = Dead
  None = None
  SqEntries = 2
  CqEntries = 2
  MaxLink = 2
  MaxOps = 3
  MaxSpawns = 2
  AvoidFull = TRUE
  Shares = TRUE
  DropsMem = FALSE
  Abandons = FALSE
  Panics = FALSE
  Short = FALSE
  Transient = TRUE
  HardErrors = FALSE
SPECIFICATION FairSpec
INVARIANTS TypeOK OneOpPerCqid NoLostWakeup BlockedHasWork
PROPERTIES ImplementsBufferPool SleeperPolled RunReturns
