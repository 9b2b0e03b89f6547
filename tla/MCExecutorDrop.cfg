CONSTANTS
  Tasks = {t1}
  Cqids = {c1}
  Bufs = {b1}
  Kinds = {"mem"}
  NoTask = NoTask
  Dead = Dead
  None = None
  SqEntries = 2
  CqEntries = 2
  MaxLink = 2
  MaxOps = 1
  MaxSpawns = 1
  AvoidFull = TRUE
  Shares = FALSE
  DropsMem = TRUE
  Abandons = FALSE
  Panics = FALSE
  Short = FALSE
  Transient = FALSE
  HardErrors = FALSE
SPECIFICATION FairSpec
PROPERTY DropReturns
