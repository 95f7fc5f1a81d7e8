\* Three runs of the seed script and two requests, dated over two days.
SPECIFICATION Spec
CONSTANTS
  Runs = {s1, s2, s3}
  Requests = {q1, q2}
  Releases <- MCReleases
  v1 = v1
  v2 = v2
  None = None
  MaxDay = 2
SYMMETRY Symmetry
INVARIANTS
  TypeOK
  OneVersionPerDate
  RegistrationGuardsSdlt
  ReadsAreBracketed
  ReproductionUsesSameVersions
  NoSeedDeadlock
PROPERTIES
  RerunAddsNothing
