\* Three runs of the seed script, of releases with the same or a newer engine version.
SPECIFICATION Spec
CONSTANTS
  Runs = {s1, s2, s3}
  Requests = {q1}
  Releases <- MCReleases
  v1 = v1
  v2 = v2
  None = None
  MaxDay = 2
SYMMETRY Symmetry
INVARIANTS
  OneSdltVersionPerDate
