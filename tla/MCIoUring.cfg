SPECIFICATION FairUringSpec
CONSTANTS
  Ops = {a, b}
  NoOp = NoOp
  U32 = 4
  SqEntries = 2
  CqEntries = 1
  LeaveGap = TRUE
  Modes <- AnyTrigger
  Features = {TRUE, FALSE}
  Null = Null
  AvoidSingle = TRUE
\* A thread that waits for completions with none outstanding waits forever.
CHECK_DEADLOCK FALSE
INVARIANTS
  NoSleepingBacklog
  OpenIsReady
  FailureIsClean
PROPERTIES
  EveryRequestCompletes
