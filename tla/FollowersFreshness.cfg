CONSTANTS
  here = here there = there else = else
  alice = alice xeno = xeno yann = yann zoe = zoe bob = bob nobody = nobody
  w1 = w1 w2 = w2 w3 = w3 p1 = p1 p2 = p2
  Process = {p1}
  Worker = {w1, w2}
  Home <- OneHome
  Actor = {alice, xeno, yann, zoe, bob, nobody}
  Domain = {here, there, else}
  Nobody = nobody
  DomainOf <- MCDomainOf
  Tenant = {here}
  Profiles <- MCProfiles
  Change <- MCChange
  Call <- MCCall
  Existing <- MCExisting
  Believed <- MCBelieved
  MaxForget = 0
  MaxVersions = 2
  MaxFaults = 0
SPECIFICATION Spec
INVARIANT CacheIsFresh
SYMMETRY Workers
CHECK_DEADLOCK FALSE
CONSTRAINT Few
