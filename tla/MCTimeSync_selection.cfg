SPECIFICATION Spec
CONSTANTS
  s1 = s1
  s2 = s2
  s3 = s3
  Sources <- ThreeSources
  Faulty <- OneFaulty
  Errors <- Slow
  Dispersions <- Uneven
  Unsigned <- NoneFaulty
  MustSign = TRUE
  MinSources = 2
  MaxSpread = 2
  MaxStale = 0
  StepThreshold = 2
  SlewThreshold = 1
  AllowStepBackward = FALSE
  ForceBackward <- Either
  InitialSkews <- Behind
  MaxTime = 1
INVARIANTS TypeOK  LargestAgreement
