SPECIFICATION Spec
CHECK_DEADLOCK FALSE
CONSTANTS
  w1 = w1
  w2 = w2
  create = create
  update = update
  like = like
  delete1 = delete1
  delete2 = delete2
  join = join
  leave = leave
  post = post
  alice = alice
  bob = bob
  carol = carol
  grp = grp
  note = note
  t1 = t1
  t2 = t2
  Worker = {w1, w2}
  Activity = {create, like, delete1}
  Doc <- Docs
  Actor = {alice, bob, carol, grp}
  LocalActor = {alice, grp}
  Group = {grp}
  Note = {note}
  Tenant = {t1, t2}
  TenantOf <- Hosts
  NoTenant = NoTenant
  Nobody = Nobody
  NoTask = NoTask
  MaxFaults = 0
INVARIANTS DeletedResolvesToTombstone
