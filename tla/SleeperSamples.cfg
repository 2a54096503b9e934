SPECIFICATION SamplesSpec
CONSTANTS
  tnum_task = 3
  tnum_exttask = 3
  TNUM_PRIORITY = 2
  tinib_inipri <- EqualPri
  tinib_exepri <- EqualPri
  tinib_maxact <- NoMaxact
  Autostart = {0, 1, 2}
  tnum_resource = 0
  resinib_ceilpri <- NoRes
  Event = {sleep, i2c}
  IsrType = {1}
  aic_level <- LevelOne
  N_TASKS = 2
  Port = {0}
  EventSleep = sleep
  EventSleepI2C = i2c
  duration <- Durations
  port <- OnePort
INVARIANT SlotsOwned
PROPERTIES
  SleepersWake
  ReadersWake
