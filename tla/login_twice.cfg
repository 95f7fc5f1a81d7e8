\* Two first requests of one identity.
SPECIFICATION Spec
CONSTANTS
  Identities = {alice}
  Requests = {r1, r2}
  None = None
  Details = {old}
  MaxInFlight = 2
SYMMETRY RequestSymmetry
INVARIANTS
  LoginsAgree
