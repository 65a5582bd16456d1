SPECIFICATION Spec
CONSTANTS
  s1 = s1  s2 = s2  w1 = w1  w2 = w2  w3 = w3  x = x  y = y
  Server = {s1}
  Worker = {w1}
  ServerOf <- Single
  Term = {x, y}
  Request <- Versions
  MaxSaves = 3
  MaxFaults = 1
CHECK_DEADLOCK FALSE
INVARIANTS VersionIsRetryable
