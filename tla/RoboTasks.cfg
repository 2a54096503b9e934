SPECIFICATION RoboSpec
CONSTANTS
  tnum_task = 5
  tnum_exttask = 5
  TNUM_PRIORITY = 2
  tinib_inipri <- FiveTasks
  tinib_exepri <- FiveTasks
  tinib_maxact <- NoMaxact
  Autostart = {0, 1, 2, 3, 4}
  tnum_resource = 0
  resinib_ceilpri <- NoRes
  Event = {period, sleep, i2c}
  IsrType = {1}
  aic_level <- LevelOne
  N_TASKS = 1
  Port = {0}
  EventSleep = sleep
  EventSleepI2C = i2c
  TaskDrive = 0
  TaskMaimai = 1
  TaskGps = 2
  TaskSonar = 4
  TaskLogger = 3
  EventPeriod = period
  period <- EveryOther
  maxval = 2
  SonarPort = 0
  DriverFlags <- SonarDrivers
  OnTimes <- OneMoreLate
INVARIANT SharedMemoryTurns
PROPERTIES
  KeepsDriving
  SonarForgets
