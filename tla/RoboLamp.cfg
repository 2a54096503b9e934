SPECIFICATION RoboSpec
CONSTANTS
  tnum_task = 2
  tnum_exttask = 2
  TNUM_PRIORITY = 2
  tinib_inipri <- TwoLevels
  tinib_exepri <- TwoLevels
  tinib_maxact <- NoMaxact
  Autostart = {0, 1}
  tnum_resource = 0
  resinib_ceilpri <- NoRes
  Event = {period, sleep, i2c}
  IsrType = {1}
  aic_level <- LevelOne
  N_TASKS = 1
  Port = {0}
  EventSleep = sleep
  EventSleepI2C = i2c
  TaskDrive = 0
  TaskMaimai = 1
  TaskGps = 102
  TaskSonar = 103
  TaskLogger = 104
  EventPeriod = period
  period <- EveryTick
  maxval = 1
  SonarPort = 0
  DriverFlags <- MaimaiDrivers
  OnTimes <- NobodyWaits
INVARIANT LampAsRecorded
