CONSTANTS
  here = here there = there else = else
  alice = alice xeno = xeno yann = yann zoe = zoe bob = bob nobody = nobody
  w1 = w1 w2 = w2 w3 = w3 p1 = p1 p2 = p2
  Process = {p1, p2}
  Worker = {w1, w2, w3}
  Home <- MCHome
  Actor = {alice, xeno, yann, zoe, bob, nobody}
  Domain = {here, there, else}
  Nobody = nobody
  DomainOf <- MCDomainOf
  Tenant = {here}
  Profiles <- MCProfiles
  Change <- MCChange
  Call <- MCCall
  Existing <- MCExisting
  Believed <- MCBelieved
  MaxForget = 1
  MaxVersions = 3
  MaxFaults = 1
SPECIFICATION Spec
INVARIANTS StoredIsTold EdgeHasOrigin SyncAgrees StaleIsExcused
PROPERTY SyncKeepsOtherHosts
SYMMETRY Workers
CHECK_DEADLOCK FALSE
CONSTRAINT Few
