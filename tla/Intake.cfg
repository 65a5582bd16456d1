CONSTANTS
  r1 = r1 r2 = r2 r3 = r3 r4 = r4 p1 = p1 p2 = p2 near = near far = far
  like = like boost = boost reply = reply note = note post = post blank = blank
  t1 = t1 t2 = t2 nowhere = nowhere f1 = f1 f2 = f2
  Process = {p1, p2}
  Request = {r1, r2, r3, r4}
  Site = {near, far}
  SiteOf <- MCSiteOf
  Limit = 1
  Window = 2
  MaxTime = 2
  Entry <- MCEntry
  Limited = {r1, r2, r3}
  Iri = {like, boost, reply, note, post, blank}
  ObjectOf <- MCObjectOf
  Names <- MCNames
  Tenant = {t1, t2}
  TenantOf <- MCTenantOf
  Owner <- MCOwner
  Nowhere = nowhere
  Member = {note, post}
  History = TRUE
  Collection <- MCCollection
  Filler = {f1, f2}
  Home <- MCHome
  Blank = blank
  MaxFaults = 1
SPECIFICATION Spec
INVARIANTS WindowBound AnsweredIsKept ItemsAreAccounted ThreadIsFetched AppliedToItsObject
PROPERTY ThrottledOnlyWhenFull
CHECK_DEADLOCK FALSE
CONSTRAINT Late
