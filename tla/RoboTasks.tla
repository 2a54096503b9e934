------------------------------- MODULE RoboTasks -------------------------------
(***************************************************************************)
(* The five tasks of etrobo2011/main.cpp and the flags they share without  *)
(* a lock, on the kernel, its alarms and the I2C monitor.  Each task is    *)
(* woken by its own periodic alarm.  What the drivers, the sensors and the *)
(* logger compute is left out; what they may do to the shared flags is a   *)
(* choice.  One body of a loop is a few steps, cut where another task's    *)
(* write of a shared flag could come in between.                           *)
(***************************************************************************)
EXTENDS Sleeper

CONSTANTS
  TaskDrive, TaskMaimai, TaskGps, TaskSonar, TaskLogger,   \* an instance may leave some out
  EventPeriod,   \* EventDrive, EventMaimai, ...: bits of different tasks, so one name does
  period,        \* of the alarm of each task
  maxval,        \* MAXALLOWEDVALUE of SysTimerCnt
  SonarPort,
  DriverFlags,   \* the settings of gDoSonar and gDoMaimai of the drivers of the course
  OnTimes        \* choices of the tasks assumed to finish their work before the next tick

VARIABLES
  curval, almque, almval, cycle, calling,                   \* SysTimerCnt
  pressed,                                                  \* touch sensor or remote start
  gTouchStarter, gDoSonar, gSonarIsDetected, gDoMaimai,     \* shared between the tasks
  doDrive, is_light_on,                                     \* locals of TaskDrive, TaskMaimai
  lamp,                                                     \* of the light sensor
  onTime                                                    \* the choice made of OnTimes

alarms   == <<curval, almque, almval, cycle, calling>>
flags    == <<gTouchStarter, gDoSonar, gSonarIsDetected, gDoMaimai>>
light    == <<is_light_on, lamp>>
sleepers == <<tasksleep, i2csleep, monitor>>
app      == <<flags, doDrive, light>>
stepVars == <<sleepVars, alarms, pressed, app>>
roboVars == <<stepVars, onTime>>

Alarm == INSTANCE OsekAlarm WITH
           tnum_alarm <- tnum_task, tickbase <- 1, mincyc <- 1, Autosta <- [a \in {} |-> 0]

ASSUME RoboTable ==
  /\ TaskDrive \in TaskType
  /\ TaskType \subseteq {TaskDrive, TaskMaimai, TaskGps, TaskSonar, TaskLogger}
  /\ TaskType = ExtTask
  /\ EventPeriod \in Event \ {EventSleep, EventSleepI2C}
  /\ period \in [TaskType -> 1 .. maxval]
  /\ SonarPort \in Port
  /\ OnTimes \subseteq SUBSET (TaskType \ {TaskDrive})
  /\ DriverFlags \subseteq [sonar : BOOLEAN, maimai : BOOLEAN]

RoboInit ==
  /\ SleeperInit([t \in ExtTask |-> "Start"])
  /\ Alarm!Init
  /\ pressed = FALSE /\ gTouchStarter = FALSE
  /\ gDoSonar = FALSE /\ gSonarIsDetected = FALSE /\ gDoMaimai = FALSE
  /\ doDrive = TRUE
  /\ is_light_on = TRUE /\ lamp = TRUE      \* ecrobot_device_initialize lit it
  /\ onTime \in OnTimes

--------------------------------------------------------------------------------
(* What every task does before and after its work *)

EntryPoint(t) == CASE t = TaskDrive  -> "Reset" [] t = TaskMaimai -> "Sample"
              [] t = TaskGps    -> "Update" [] t = TaskSonar -> "Idle"
              [] t = TaskLogger -> "Spin"

\* Where the loop of task t begins.
Loop(t) == CASE t = TaskDrive -> "Drive" [] t = TaskLogger -> "Send" [] OTHER -> EntryPoint(t)

SetAlarm(t) ==
  /\ Step(t, "Start", "First")
  /\ Alarm!SetRelAlarm(t, 1, period[t])
  /\ UNCHANGED <<vars, sleepers, pressed, app>>

WaitPeriod(t) ==
  /\ \/ WaitStep(t, EventPeriod, "First", EntryPoint(t))
     \/ WaitStep(t, EventPeriod, "Wait", Loop(t))
  /\ UNCHANGED <<alarms, pressed, app>>

ClearPeriod(t) == ClearStep(t, EventPeriod, "Clear", "Wait") /\ UNCHANGED <<alarms, pressed, app>>

\* A step of the work of task t, which calls no service.
Work(t, l, k) == Step(t, l, k) /\ UNCHANGED <<vars, sleepers, alarms, pressed>>

--------------------------------------------------------------------------------
(* TaskDrive *)

DriveReset ==
  /\ Work(TaskDrive, "Reset", "Ready")
  /\ gDoMaimai' = TRUE
  /\ UNCHANGED <<gTouchStarter, gDoSonar, gSonarIsDetected, doDrive, light>>

\* The loop that polls the starters, with systick_wait_ms, which does not give up the CPU.
DriveReady ==
  /\ Work(TaskDrive, "Ready", IF pressed THEN "Drive" ELSE "Ready")
  /\ gTouchStarter' = pressed
  /\ UNCHANGED <<gDoSonar, gSonarIsDetected, gDoMaimai, doDrive, light>>

\* mCourse->drive() may set the flags of the two sensors; once mFailDetector has detected
\* a fall the robot only stops.
Drive ==
  /\ Work(TaskDrive, "Drive", "Clear")
  /\ doDrive' \in {doDrive, FALSE}
  /\ IF doDrive' THEN \E f \in DriverFlags : gDoSonar' = f.sonar /\ gDoMaimai' = f.maimai
                 ELSE UNCHANGED <<gDoSonar, gDoMaimai>>
  /\ UNCHANGED <<gTouchStarter, gSonarIsDetected, light>>

--------------------------------------------------------------------------------
(* TaskMaimai: one sample of the light sensor, then the lamp is switched over *)

Maimai ==
  /\ Work(TaskMaimai, "Sample", "Clear")
  /\ IF gDoMaimai THEN lamp' = ~is_light_on /\ is_light_on' = ~is_light_on
                  ELSE lamp' = TRUE /\ UNCHANGED is_light_on
  /\ UNCHANGED <<flags, doDrive>>

--------------------------------------------------------------------------------
(* TaskGps and TaskLogger *)

Gps == Work(TaskGps, "Update", "Clear") /\ UNCHANGED app

LoggerKeepsSending ==                                                      \* fault
  /\ \/ Work(TaskLogger, "Spin", IF gTouchStarter THEN "Send" ELSE "Spin")
     \/ Work(TaskLogger, "Send", "Send")
  /\ UNCHANGED app

Logger ==
  /\ \/ Work(TaskLogger, "Spin", IF gTouchStarter THEN "Send" ELSE "Spin")
     \/ Work(TaskLogger, "Send", "Clear")
  /\ UNCHANGED app

--------------------------------------------------------------------------------
(* TaskSonar *)

ResultKept ==                                                              \* fault
  Work(TaskSonar, "Idle", "Check") /\ UNCHANGED app

SonarIdle ==
  /\ Work(TaskSonar, "Idle", "Check")
  /\ gSonarIsDetected' = (gDoSonar /\ gSonarIsDetected)
  /\ UNCHANGED <<gTouchStarter, gDoSonar, gDoMaimai, doDrive, light>>

SonarCheck == Work(TaskSonar, "Check", IF gDoSonar THEN Before.busy ELSE "Clear") /\ UNCHANGED app

\* getDistance waits for the port, and so for other tasks, before and after it reads.
GetDistance == Receive(TaskSonar, SonarPort, "Result") /\ UNCHANGED <<alarms, pressed, app>>

SonarResult ==
  /\ Work(TaskSonar, "Result", "Clear")
  /\ gSonarIsDetected' \in BOOLEAN
  /\ UNCHANGED <<gTouchStarter, gDoSonar, gDoMaimai, doDrive, light>>

Sonar == SonarIdle \/ SonarCheck \/ GetDistance \/ SonarResult

TaskStep(t) ==
  \/ SetAlarm(t) \/ WaitPeriod(t) \/ ClearPeriod(t)
  \/ t = TaskDrive /\ (DriveReset \/ DriveReady \/ Drive)
  \/ t = TaskMaimai /\ Maimai
  \/ t = TaskGps /\ Gps
  \/ t = TaskSonar /\ Sonar
  \/ t = TaskLogger /\ Logger

--------------------------------------------------------------------------------
(* user_1ms_isr_type2: SignalCounter(SysTimerCnt), then SleeperMonitor *)

TimerInterrupt ==
  /\ \A t \in onTime : tcb_tstat[t] # "RUNNABLE"
  /\ Interrupt(1) /\ isrstk = << >>
  /\ Alarm!SignalCounter
  /\ monitor' = IF calling' = Alarm!ALMID_NULL THEN "i2c" ELSE "alarms"
  /\ UNCHANGED <<pc, tasksleep, i2csleep, pressed, app>>

AlarmCallback ==
  /\ monitor = "alarms"
  /\ SetEvent(calling, {EventPeriod})
  /\ Alarm!CallbackReturns
  /\ monitor' = IF calling' = Alarm!ALMID_NULL THEN "i2c" ELSE "alarms"
  /\ UNCHANGED <<pc, tasksleep, i2csleep, pressed, app>>

Handler == AlarmCallback \/ ((SleeperMonitor \/ TickReturns) /\ UNCHANGED <<alarms, pressed, app>>)

TransactionDone == \E p \in Port : TransactionEnds(p) /\ UNCHANGED <<alarms, pressed, app>>

\* Somebody presses the touch sensor, or sends the start command, until the robot goes.
Press == ~pressed /\ pressed' = TRUE /\ UNCHANGED <<sleepVars, alarms, app>>

KernelGoesOn == KernelStep /\ UNCHANGED <<alarms, pressed, app>>

RoboNext ==
  /\ \/ \E t \in TaskType : TaskStep(t)
     \/ TimerInterrupt \/ Handler \/ TransactionDone \/ Press \/ KernelGoesOn
  /\ UNCHANGED onTime

--------------------------------------------------------------------------------
\* The timer keeps ticking and its handler ends.  A task on time that has the CPU goes on.
\* Another one that has the CPU again and again gets on; ClearEvent and WaitEvent are
\* adjacent, so not every tick comes between them.
WaitsAtLast(t) == WaitPeriod(t) /\ tcb_tstat'[t] = "WAITING"

Late == TaskType \ (onTime \cup {TaskDrive})

RoboSpec ==
  /\ RoboInit /\ [][RoboNext]_roboVars
  /\ WF_stepVars(TimerInterrupt \/ Handler) /\ WF_stepVars(TransactionDone)
  /\ SF_stepVars(KernelGoesOn)
  /\ WF_stepVars(\E t \in onTime : TaskStep(t))
  /\ SF_stepVars(TaskStep(TaskDrive)) /\ SF_stepVars(WaitsAtLast(TaskDrive))
  /\ SF_stepVars(\E t \in Late : TaskStep(t)) /\ SF_stepVars(\E t \in Late : WaitsAtLast(t))

--------------------------------------------------------------------------------
(* Properties *)

\* The tasks of the lowest priority share gDoSonar, gSonarIsDetected and gTouchStarter
\* with no lock: of those three, never two are in the middle of their work, except where
\* one waits.
SharedMemoryTurns ==
  \A s, t \in {TaskDrive, TaskSonar, TaskLogger} \cap TaskType : Started(s) /\ Started(t) => s = t

\* After the start the drivers are called again and again, whatever the other tasks do:
\* the balance control depends on it.  (A task that waits is already at its next step, so
\* it must be the step, and not the place, that comes back.)
KeepsDriving == []<>gTouchStarter => []<><<Drive>>_stepVars

\* A target found before the sonar was switched off is not reported for ever.
SonarForgets == []<>(gDoSonar \/ ~gSonarIsDetected)

\* main.cpp, remote_start: sending a 1 starts the robot; so does the touch sensor.
RemoteStart == pressed ~> gTouchStarter

\* main.cpp, TaskMaimai: is_light_on is whether the lamp of the light sensor is lit, and
\* light_value[0] the value while it is not.  A sample is stored by is_light_on.
LampAsRecorded ==
  AtTaskLevel /\ runtsk = TaskMaimai /\ pc[TaskMaimai] = "Sample" /\ gDoMaimai => lamp = is_light_on
================================================================================
