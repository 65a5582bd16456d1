SPECIFICATION Spec
CONSTANTS
  alice = alice
  iri1 = iri1
  iri2 = iri2
  s1 = s1
  s2 = s2
  r1 = r1
  r2 = r2
  NoActor = NoActor
  Server = {s1, s2}
  LocalActor = {iri1, iri2}
  RemoteActor = {alice}
  Request = {r1, r2}
  Home <- MCHome
  MaxGen = 1
  AlgOf <- MCAlgOf
  Message <- MCMessage
  HostOf <- MCHostOf
INVARIANT RotationTakesEffect
SYMMETRY Symmetry
CONSTRAINTS OneAtATime ReadFaultsApart
