SPECIFICATION MCSpec
CONSTANTS
  Ops = {a, b, c}
  NoOp = NoOp
  U32 = 8
  SqEntries = 4
  CqEntries = 2
  LeaveGap = TRUE
  Modes <- EachMode
  Ids = {1, 2}
  Types <- Complete
  Entries = 2
SYMMETRY Symmetry
\* A thread that waits for completions with none outstanding waits forever.
CHECK_DEADLOCK FALSE
INVARIANTS
  FreeSqesExact
  SubmittedIsTaken
  SettingsReachKernel
  NothingStale
  ChainShape
PROPERTIES
  ImplementsFifo
