SPECIFICATION SamplesSpec
CONSTANTS
  tnum_task = 2
  tnum_exttask = 2
  TNUM_PRIORITY = 2
  tinib_inipri <- RisingPri
  tinib_exepri <- RisingPri
  tinib_maxact <- TwoMaxact
  Autostart = {0, 1}
  tnum_resource = 0
  resinib_ceilpri <- NoRes
  Event = {sleep, i2c}
  IsrType = {1}
  aic_level <- LevelOne
  N_TASKS = 2
  Port = {0}
  EventSleep = sleep
  EventSleepI2C = i2c
  duration <- Durations
  port <- HighPort
PROPERTY SleepersWake
