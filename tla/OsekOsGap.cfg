SPECIFICATION IntrSpec
CONSTANTS
  tnum_task = 2
  tnum_exttask = 1
  TNUM_PRIORITY = 2
  tinib_inipri <- InipriI
  tinib_exepri <- ExepriI
  tinib_maxact <- MaxactI
  Autostart = {0}
  tnum_resource = 1
  resinib_ceilpri <- CeilpriI
  Event = {e1}
  IsrType = {1}
  aic_level <- LevelI
  Suspends = {"OS"}
  MaxNest = 2
INVARIANT RunningIsScheduled
