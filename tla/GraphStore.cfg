SPECIFICATION FairSpec
CONSTANTS
  s1 = s1  s2 = s2  w1 = w1  w2 = w2  w3 = w3  x = x  y = y
  Server = {s1, s2}
  Worker = {w1, w2, w3}
  ServerOf <- Crowd
  Term = {x, y}
  Request <- Mixed
  MaxSaves = 2
  MaxFaults = 1
CHECK_DEADLOCK FALSE
INVARIANTS IdsNameOneTerm
PROPERTIES ImplementsQuadStore SavesEnd
