SPECIFICATION FairSpec
CONSTANTS
  s1 = s1
  s2 = s2
  w1 = w1
  w2 = w2
  w3 = w3
  Server = {s1}
  Worker = {w1}
  ServerOf <- OneWorker
  Task = {a1, a2, a3}
  Tenant = {t1}
  BatchSize = 1
  NoTask = NoTask
  MaxDisruptions = 1
PROPERTIES EventuallyCompleted ClaimedIsRun StartReturns
