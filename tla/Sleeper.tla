-------------------------------- MODULE Sleeper --------------------------------
(***************************************************************************)
(* Sleep, SleepI2C and SleeperMonitor of ecrobot/c/rtoscalls.c, and        *)
(* I2c::receive, which calls them, on top of OsekKernel.  Tasks take slots *)
(* of an array without locking; SleeperMonitor, called by the 1 ms         *)
(* interrupt, counts the slots down and sets the event of the task in a    *)
(* slot.  Every access to the arrays is a step: a task may be preempted    *)
(* between any two of them.                                                *)
(***************************************************************************)
EXTENDS OsekKernel

CONSTANTS
  N_TASKS,          \* slots for sleeping tasks; 8 in rtoscalls.h
  Port,             \* I2C ports
  EventSleep, EventSleepI2C

Slot    == 0 .. N_TASKS - 1
U32_MAX == -1      \* 2^32 - 1, which takes 49 days to count down: it stays

ASSUME SleeperTable ==
  N_TASKS \in 1 .. 8 /\ {EventSleep, EventSleepI2C} \subseteq Event /\ 1 \in IsrType

VARIABLES
  pc,                                                 \* where each task is in its program
  slot,                                               \* loop variable i of Sleep
  isTaskSleeping, sleeperTask_ID, sleepTaskCounter,   \* by slot
  isI2cSleeping, sleeperI2C_ID,                       \* by port
  i2c_busy,                                           \* by port, cleared by the I2C driver
  monitor                                             \* how far the interrupt handler is

tasksleep == <<slot, isTaskSleeping, sleeperTask_ID, sleepTaskCounter>>
i2csleep  == <<isI2cSleeping, sleeperI2C_ID, i2c_busy>>
sleepVars == <<vars, pc, tasksleep, i2csleep, monitor>>

SleeperInit(entry) ==
  /\ Init
  /\ pc = entry
  /\ slot = [t \in ExtTask |-> 0]
  /\ isTaskSleeping = [i \in Slot |-> FALSE]
  /\ sleeperTask_ID = [i \in Slot |-> 0]
  /\ sleepTaskCounter = [i \in Slot |-> 0]
  /\ isI2cSleeping = [p \in Port |-> FALSE]
  /\ sleeperI2C_ID = [p \in Port |-> 0]
  /\ i2c_busy = [p \in Port |-> FALSE]
  /\ monitor = "done"

--------------------------------------------------------------------------------
\* Task t runs and is at l; it goes on at k.
Step(t, l, k) == AtTaskLevel /\ runtsk = t /\ pc[t] = l /\ pc' = [pc EXCEPT ![t] = k]

\* WaitEvent: the task waits, or passes because the event is set already.
Wait(ev) == WaitEvent({ev}) \/ (~NoneSet({ev}) /\ UNCHANGED vars)

WaitStep(t, ev, l, k)  == Step(t, l, k) /\ Wait(ev) /\ UNCHANGED <<tasksleep, i2csleep, monitor>>
ClearStep(t, ev, l, k) == Step(t, l, k) /\ ClearEvent({ev})
                          /\ UNCHANGED <<tasksleep, i2csleep, monitor>>

--------------------------------------------------------------------------------
(* Sleep(duration), from the call at l to its return at k *)

EnterSleep(t, l) ==
  /\ Step(t, l, "Scan")
  /\ slot' = [slot EXCEPT ![t] = 0]
  /\ UNCHANGED <<vars, isTaskSleeping, sleeperTask_ID, sleepTaskCounter, i2csleep, monitor>>

\* The loop over the slots; with no free slot Sleep returns at once.
Scan(t, k) ==
  /\ \/ slot[t] = N_TASKS /\ Step(t, "Scan", k) /\ UNCHANGED slot
     \/ /\ slot[t] \in Slot /\ isTaskSleeping[slot[t]]
        /\ Step(t, "Scan", "Scan")
        /\ slot' = [slot EXCEPT ![t] = @ + 1]
     \/ slot[t] \in Slot /\ ~isTaskSleeping[slot[t]] /\ Step(t, "Scan", "SaveId") /\ UNCHANGED slot
  /\ UNCHANGED <<vars, isTaskSleeping, sleeperTask_ID, sleepTaskCounter, i2csleep, monitor>>

SaveId(t) ==
  /\ Step(t, "SaveId", "SetFlag")
  /\ sleeperTask_ID' = [sleeperTask_ID EXCEPT ![slot[t]] = t]
  /\ UNCHANGED <<vars, slot, isTaskSleeping, sleepTaskCounter, i2csleep, monitor>>

FlagForgotten(t) ==                                                        \* fault
  /\ Step(t, "SetFlag", "SetCounter")
  /\ UNCHANGED <<vars, tasksleep, i2csleep, monitor>>

SetFlag(t) ==
  /\ Step(t, "SetFlag", "SetCounter")
  /\ isTaskSleeping' = [isTaskSleeping EXCEPT ![slot[t]] = TRUE]
  /\ UNCHANGED <<vars, slot, sleeperTask_ID, sleepTaskCounter, i2csleep, monitor>>

SetCounter(t, duration) ==
  /\ Step(t, "SetCounter", "WaitSleep")
  /\ sleepTaskCounter' = [sleepTaskCounter EXCEPT ![slot[t]] = duration]
  /\ UNCHANGED <<vars, slot, isTaskSleeping, sleeperTask_ID, i2csleep, monitor>>

SleepClearsFirst(t, duration, k) ==                                        \* fault
  \/ Scan(t, k) \/ SaveId(t) \/ SetFlag(t) \/ SetCounter(t, duration)
  \/ ClearStep(t, EventSleep, "WaitSleep", "ClearSleep")
  \/ WaitStep(t, EventSleep, "ClearSleep", k)

Sleep(t, duration, k) ==
  \/ Scan(t, k) \/ SaveId(t) \/ SetFlag(t) \/ SetCounter(t, duration)
  \/ WaitStep(t, EventSleep, "WaitSleep", "ClearSleep")
  \/ ClearStep(t, EventSleep, "ClearSleep", k)

--------------------------------------------------------------------------------
(* I2c::receive (and send) on port p: SleepI2C, i2c_start_transaction, SleepI2C *)

CheckBusy(t, p, l, busy, idle) ==
  /\ Step(t, l, IF i2c_busy[p] THEN busy ELSE idle)
  /\ UNCHANGED <<vars, tasksleep, i2csleep, monitor>>

SaveI2C(t, p, l, k) ==
  /\ Step(t, l, k)
  /\ sleeperI2C_ID' = [sleeperI2C_ID EXCEPT ![p] = t]
  /\ UNCHANGED <<vars, tasksleep, isI2cSleeping, i2c_busy, monitor>>

FlagI2C(t, p, l, k) ==
  /\ Step(t, l, k)
  /\ isI2cSleeping' = [isI2cSleeping EXCEPT ![p] = TRUE]
  /\ UNCHANGED <<vars, tasksleep, sleeperI2C_ID, i2c_busy, monitor>>

\* Where a task is in its two calls of SleepI2C, before and after the transaction.
Before == [busy |-> "Busy1", save |-> "SaveI2C1", flag |-> "FlagI2C1", wait |-> "WaitI2C1",
           clear |-> "ClearI2C1"]
After  == [busy |-> "Busy2", save |-> "SaveI2C2", flag |-> "FlagI2C2", wait |-> "WaitI2C2",
           clear |-> "ClearI2C2"]

\* What c++/src/sleep.cc does.
SleepI2CFlagsFirst(t, p, at, k) ==                                         \* fault
  \/ CheckBusy(t, p, at.busy, at.save, k)
  \/ FlagI2C(t, p, at.save, at.flag)
  \/ SaveI2C(t, p, at.flag, at.wait)
  \/ WaitStep(t, EventSleepI2C, at.wait, at.clear)
  \/ ClearStep(t, EventSleepI2C, at.clear, k)

\* SleepI2C at one of these places, returning at k.
SleepI2C(t, p, at, k) ==
  \/ CheckBusy(t, p, at.busy, at.save, k)
  \/ SaveI2C(t, p, at.save, at.flag)
  \/ FlagI2C(t, p, at.flag, at.wait)
  \/ WaitStep(t, EventSleepI2C, at.wait, at.clear)
  \/ ClearStep(t, EventSleepI2C, at.clear, k)

\* i2c_start_transaction fails if the port is busy; receive goes on all the same.
StartTransaction(t, p) ==
  /\ Step(t, "Transaction", After.busy)
  /\ i2c_busy' = [i2c_busy EXCEPT ![p] = TRUE]
  /\ UNCHANGED <<vars, tasksleep, isI2cSleeping, sleeperI2C_ID, monitor>>

Receive(t, p, k) ==
  SleepI2C(t, p, Before, "Transaction") \/ StartTransaction(t, p) \/ SleepI2C(t, p, After, k)

\* The bit-banging driver, run by a faster interrupt, ends the transaction.
TransactionEnds(p) ==
  /\ i2c_busy[p]
  /\ i2c_busy' = [i2c_busy EXCEPT ![p] = FALSE]
  /\ UNCHANGED <<vars, pc, tasksleep, isI2cSleeping, sleeperI2C_ID, monitor>>

--------------------------------------------------------------------------------
(* user_1ms_isr_type2: the interrupt 1, whose handler calls SleeperMonitor *)

Tick == Interrupt(1) /\ isrstk = << >> /\ monitor' = "i2c"
        /\ UNCHANGED <<pc, tasksleep, i2csleep>>

DueI2C == {p \in Port : isI2cSleeping[p] /\ ~i2c_busy[p]}

\* The first loop: SetEvent for the task of each port that is no longer busy.
MonitorI2C ==
  /\ monitor = "i2c"
  /\ \/ \E p \in DueI2C :
          /\ isI2cSleeping' = [isI2cSleeping EXCEPT ![p] = FALSE]
          /\ SetEvent(sleeperI2C_ID[p], {EventSleepI2C})
          /\ UNCHANGED monitor
     \/ DueI2C = {} /\ monitor' = "count" /\ UNCHANGED <<vars, isI2cSleeping>>
  /\ UNCHANGED <<pc, tasksleep, sleeperI2C_ID, i2c_busy>>

Decremented(c) == IF c = 0 \/ c = U32_MAX THEN U32_MAX ELSE c - 1

\* The second loop counts every sleeping slot down, and wakes the tasks of those at 0.
Counted == [i \in Slot |->
  IF isTaskSleeping[i] THEN Decremented(sleepTaskCounter[i]) ELSE sleepTaskCounter[i]]

MonitorCount ==
  /\ monitor = "count"
  /\ monitor' = IF \E i \in Slot : isTaskSleeping[i] THEN "wake" ELSE "done"
  /\ sleepTaskCounter' = Counted
  /\ UNCHANGED <<vars, pc, slot, isTaskSleeping, sleeperTask_ID, i2csleep>>

DueTasks == {i \in Slot : isTaskSleeping[i] /\ sleepTaskCounter[i] = 0}

MonitorWake ==
  /\ monitor = "wake"
  /\ \/ \E i \in DueTasks :
          /\ \A j \in DueTasks : i <= j
          /\ isTaskSleeping' = [isTaskSleeping EXCEPT ![i] = FALSE]
          /\ SetEvent(sleeperTask_ID[i], {EventSleep})
          /\ UNCHANGED monitor
     \/ DueTasks = {} /\ monitor' = "done" /\ UNCHANGED <<vars, isTaskSleeping>>
  /\ UNCHANGED <<pc, slot, sleeperTask_ID, sleepTaskCounter, i2csleep>>

TickReturns == monitor = "done" /\ InterruptReturn
               /\ UNCHANGED <<pc, tasksleep, i2csleep, monitor>>

SleeperMonitor == MonitorI2C \/ MonitorCount \/ MonitorWake

KernelStep == (InitializeTask \/ StartOS \/ LeaveIdle)
              /\ UNCHANGED <<pc, tasksleep, i2csleep, monitor>>
================================================================================
