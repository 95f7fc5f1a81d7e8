\* A deal each of two users, three requests, two at a time, and a configuration change at any
\* moment.
SPECIFICATION Spec
CONSTANTS
  d1 = d1
  d2 = d2
  alice = alice
  bob = bob
  Deals = {d1, d2}
  Users = {alice, bob}
  Owner <- MCOwner
  Requests = {r1, r2, r3}
  NoRequest = NoRequest
  NoSnapshot = NoSnapshot
  Fields = {"price"}
  ProfileFields = {}
  RequiredFields = {"price"}
  Values = {1}
  Unset = Unset
  MaxInFlight = 2
  MaxConfig = 2
SYMMETRY RequestSymmetry
INVARIANTS
  PointerIsOwnAnalysis
  AuditTrail
  ReproductionFaithful
