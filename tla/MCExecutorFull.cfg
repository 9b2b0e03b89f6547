CONSTANTS
  Tasks = {t1}
  Cqids = {c1, c2, c3}
  Bufs = {b1}
  Kinds = {"read"}
  NoTask = NoTask
  Dead = Dead
  None = None
  SqEntries = 2
  CqEntries = 2
  MaxLink = 1
  MaxOps = 3
  MaxSpawns = 1
  AvoidFull = FALSE
  Shares = FALSE
  DropsMem = FALSE
  Abandons = FALSE
  Panics = FALSE
  Short = FALSE
  Transient = FALSE
  HardErrors = FALSE
SPECIFICATION Spec
INVARIANT OneOpPerCqid
