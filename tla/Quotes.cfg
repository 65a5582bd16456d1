SPECIFICATION Spec
CHECK_DEADLOCK FALSE
CONSTANTS
  w1 = w1
  w2 = w2
  alice = alice
  dora = dora
  bob = bob
  p1 = p1
  p2 = p2
  q1 = q1
  q2 = q2
  r1 = r1
  r2 = r2
  r3 = r3
  Worker = {w1, w2}
  Actor = {alice, dora, bob}
  LocalActor = {alice, dora}
  Post = {p1, p2}
  Author <- Authors
  Edition <- Editions
  MaxEdition = 2
  Quote = {q1, q2}
  Draft <- Drafts
  Request = {r1, r2, r3}
  Ask <- Asks
  NoRequest = NoRequest
  NoQuote = NoQuote
  Nobody = Nobody
  MaxStamp = 2
  MaxFaults = 1
SYMMETRY Workers
CONSTRAINT Few
INVARIANTS QuoteHasConsent AcceptHasPolicy AcceptNamesItsStamp
