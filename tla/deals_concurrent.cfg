\* One deal, four requests, three at a time: three handlers at every interleaving of
\* their awaits, with one more request before, between or after.
SPECIFICATION Spec
CONSTANTS
  d1 = d1
  d2 = d2
  alice = alice
  bob = bob
  Deals = {d1}
  Users = {alice}
  Owner <- MCOneOwner
  Requests = {r1, r2, r3, r4}
  NoRequest = NoRequest
  NoSnapshot = NoSnapshot
  Fields = {"price"}
  ProfileFields = {}
  RequiredFields = {"price"}
  Values = {1}
  Unset = Unset
  MaxInFlight = 3
  MaxConfig = 1
SYMMETRY RequestSymmetry
INVARIANTS
  TypeOK
  StatusMatchesPointer
  SupersededHasSuccessor
  AnswersAreTrue
PROPERTIES
  FreshWritesAreLegal
  FreshPointerIsNewest
