SPECIFICATION Spec
CONSTANTS
  Parts = {"pool", "list", "events"}
  Client = {"a", "b"}
  OneWay = {"b"}
  Initial = 1
  GrowBy = 1
  MaxThread = 2
  SizeRange = 8
  Joins = TRUE
  Appender = {"a", "b", "c"}
  Reader = {"r"}
  MaxRemove = 1
  RemoveLast = FALSE
  EventThread = {"t", "u"}
  Subscription = {"s1", "s2"}
  MaxSend = 3
  MaxWithin = 1
INVARIANTS
  PoolCountsSettle
  
  NoSubscriptionLost
PROPERTIES
  TasksRun
  EventCallsReturn
CHECK_DEADLOCK FALSE
