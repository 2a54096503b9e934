SPECIFICATION FairSpec
CONSTANTS
  tnum_task = 4
  tnum_exttask = 1
  TNUM_PRIORITY = 3
  tinib_inipri <- InipriB
  tinib_exepri <- ExepriB
  tinib_maxact <- MaxactB
  Autostart = {0}
  tnum_resource = 2
  resinib_ceilpri <- CeilpriB
  Event = {e1}
  IsrType = {1, 2}
  aic_level <- LevelB
INVARIANTS
  TypeOK
  RunningIsScheduled
  SchedulerConsistent
  NoLostActivation
  StartedTasksLead
  ResourcesStacked
  MutualExclusion
  NoLostWakeup
PROPERTIES
  PreemptedOnlyByBetter
  BestTaskRuns
  ImplementsPriorityOrder
