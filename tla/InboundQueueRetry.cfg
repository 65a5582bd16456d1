SPECIFICATION Spec
CONSTANTS
  s1 = s1
  s2 = s2
  w1 = w1
  w2 = w2
  w3 = w3
  Server = {s1}
  Worker = {w1, w2}
  ServerOf <- OneServer
  Task = {a1, a2}
  Tenant = {t1}
  BatchSize = 2
  NoTask = NoTask
  MaxDisruptions = 0
SYMMETRY Symmetry
INVARIANTS CompletedWasApplied
