\* Two calculations one after the other.
SPECIFICATION Spec
CONSTANTS
  d1 = d1
  d2 = d2
  alice = alice
  bob = bob
  Deals = {d1}
  Users = {alice}
  Owner <- MCOneOwner
  Requests = {r1, r2, r3}
  NoRequest = NoRequest
  NoSnapshot = NoSnapshot
  Fields = {"price"}
  ProfileFields = {}
  RequiredFields = {"price"}
  Values = {1}
  Unset = Unset
  MaxInFlight = 1
  MaxConfig = 1
SYMMETRY RequestSymmetry
INVARIANTS
  OlderAreSuperseded
