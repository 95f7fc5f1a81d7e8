\* Three requests of two identities from an empty database, all in flight, under fairness.
SPECIFICATION FairSpec
CONSTANTS
  Identities = {alice, bob}
  Requests = {r1, r2, r3}
  None = None
  Details = {old, new}
  MaxInFlight = 3
INVARIANTS
  TypeOK
  OneUserPerIdentity
  ResolvedHasUser
  OwnersAreStored
  DealsOnOwnProperty
PROPERTIES
  FreshChangesAreLegal
  EveryRequestAnswered
