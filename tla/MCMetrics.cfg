CONSTANTS
  Threads = {th1, th2, th3}
  Users = {th1, th2, th3}
  GNum = 3
  GDen = 2
  U64Max = 15
  Limits = {10, 15}
  Samples = {1, 3, 5, 10, 12}
  Counts = {1, 8}
  Others = {2, 6}
  MaxCalls = 2
SPECIFICATION FairMetricSpec
CHECK_DEADLOCK FALSE
INVARIANTS RefsValid OneInitialiser DroppedOnce NothingLost QuantileAccurate
PROPERTY SpinEnds
