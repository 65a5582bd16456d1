SPECIFICATION OutboundFairSpec
CHECK_DEADLOCK FALSE
CONSTANTS
  s1 = s1
  s2 = s2
  w1 = w1
  w2 = w2
  a1 = a1
  a2 = a2
  Server = {s1, s2}
  Worker = {w1, w2}
  ServerOf <- Replicas
  Task = {a1, a2}
  CreatedAt <- Ages
  BatchSize = 2
  NoTask = NoTask
  MaxAttempts = 130
  MaxDelay = 3
  MaxRefusals = 1
  MaxDisruptions = 1
INVARIANTS NoDelayWraps CompletedWasDelivered DuplicatesOnlyWhenUncertain
PROPERTIES EventuallyDelivered BackoffIsKept DeliveredIsFinal
