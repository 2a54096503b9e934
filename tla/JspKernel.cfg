\* Three tasks; each configuration is one of JspKernelMC's programs.
CONSTANTS
  TNUM_TSK = 3
  TNUM_CYC = 6
  EVTTIM_BITS = 3
  TIC_NUME = 1
  TNUM_TPRI = 2
  MaxTexNest = 2
  NULL = NULL
  Configurations <- Configs
SPECIFICATION Spec
CHECK_DEADLOCK FALSE
INVARIANTS
  RunsFirstReadyTask
  WaitQueuesMatchStates
  NoneWaitsForWhatIsThere
  EventsMatchWaits
  ExceptionsAreTaken
  ArrivesInOrder
  BlocksHaveOneOwner
PROPERTY GoesOffInTime
