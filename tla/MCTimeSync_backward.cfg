SPECIFICATION Spec
CONSTANTS
  s1 = s1
  s2 = s2
  s3 = s3
  Sources <- ThreeSources
  Faulty <- NoneFaulty
  Errors <- Slow
  Dispersions <- Low
  Unsigned <- OneFaulty
  MustSign = TRUE
  MinSources = 2
  MaxSpread = 2
  MaxStale = 3
  StepThreshold = 2
  SlewThreshold = 1
  AllowStepBackward = FALSE
  ForceBackward <- ForwardOnly
  InitialSkews <- Behind
  MaxTime = 3
PROPERTY NeverBackward
