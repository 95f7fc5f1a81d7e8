SPECIFICATION Spec
CONSTANTS
  None = None
  PoundsPerUnit = 10
  SmallRate = 19
  SmallUpper = 5000
  MainRate = 25
  MainLower = 25000
  ReliefNum = 3
  ReliefDen = 200
  Cent = 4
  Grain = 2
  RateScale = 4
  Parts = 10000
  RateGrain = 4
  Limit = 10000000
  PercentLimit = 10000
  StressRate = 6
  VatRate = 20
  SurchargeRate = 3
  Copies = 2
  Bands <- MCBands
  Defaults <- MCDefaults
  Probes <- MCProbes
  RawInputs <- MCRawInputs
INVARIANTS
  TypeOK
  EveryPoundTaxedOnce
  DutyFollowsTariff
  InstalmentsSplit
  OutputsReconcile
  FlagsCoherent
  DeadRules
  RefusalsExplained
  
  ReproductionEqual
  MoreProfitLeavesMore
  Section24NeverCheaper
\* An analysis ends.
CHECK_DEADLOCK FALSE
