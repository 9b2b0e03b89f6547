CONSTANTS
  Threads = {th1, th2}
  Users = {th1, th2}
  GNum = 4
  GDen = 3
  U64Max = 15
  Limits = {10, 15}
  Samples = {1, 3, 5, 10, 12}
  Counts = {1, 8}
  Others = {2, 6}
  MaxCalls = 2
SPECIFICATION MetricSpec
CHECK_DEADLOCK FALSE
INVARIANT QuantileAccurate
