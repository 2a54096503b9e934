SPECIFICATION Spec
CONSTANTS
  StableCalls = 250
  InclinedCalls = 50
  SeatedCalls = 250
  BrakeCalls = 100
  StayCalls = 500
  ReadyCalls = 250
  mNsample = 250
  Samples = 25
  LampCalls = 3
  FoundCalls = 250
  SitCalls = 1000
  BehindCalls = 500
  SampleEvery = 20
  Settling = 100
  DetectsNeeded = 3
  FailsNeeded = 10
  SonarPeriod = 15
  MaxDelay = 2
  MinMove = 50
INVARIANT SeatedBeforeTripod
PROPERTIES
  CountsFreshDetections
  LightSettled
  OneStepPerCollision
