\* One request at a time on one deal with two working inputs: the price a recalculation insists
\* on, and one that create_deal may copy from the profile.
SPECIFICATION Spec
CONSTANTS
  d1 = d1
  d2 = d2
  alice = alice
  bob = bob
  Deals = {d1}
  Users = {alice}
  Owner <- MCOneOwner
  Requests = {r1, r2, r3, r4}
  NoRequest = NoRequest
  NoSnapshot = NoSnapshot
  Fields = {"price", "owner"}
  ProfileFields = {"owner"}
  RequiredFields = {"price"}
  Values = {1}
  Unset = Unset
  MaxInFlight = 1
  MaxConfig = 1
SYMMETRY RequestSymmetry
INVARIANTS
  CurrentNotSuperseded
PROPERTIES
  ImplementsRecord
