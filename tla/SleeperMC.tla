------------------------------- MODULE SleeperMC -------------------------------
(***************************************************************************)
(* Programs that use the functions of Sleeper: tasks that sleep in a loop  *)
(* (samples_c++/cpp/Clock) and tasks that read an I2C sensor in a loop     *)
(* (samples_c++/cpp/HiTechnicSensors).                                     *)
(***************************************************************************)
EXTENDS Sleeper, TLC

CONSTANTS
  duration,   \* by task: ticks it sleeps
  port        \* by task: the port of its sensor; a task that has both reads, then sleeps

Sleepers == DOMAIN duration
Readers  == DOMAIN port

ASSUME SampleTable ==
  Sleepers \cup Readers \subseteq ExtTask /\ \A t \in Readers : port[t] \in Port

SamplesInit == SleeperInit([t \in ExtTask |-> "Run"])

AfterRead(t) == IF t \in Sleepers THEN "Read" ELSE "Run"

SampleStep(t) ==
  \/ /\ t \in Sleepers
     /\ EnterSleep(t, IF t \in Readers THEN "Read" ELSE "Run") \/ Sleep(t, duration[t], "Run")
  \/ /\ t \in Readers
     /\ \/ Step(t, "Run", Before.busy) /\ UNCHANGED <<vars, tasksleep, i2csleep, monitor>>
        \/ Receive(t, port[t], AfterRead(t))

SamplesNext ==
  \/ \E t \in ExtTask : SampleStep(t)
  \/ \E p \in Port : TransactionEnds(p)
  \/ Tick \/ SleeperMonitor \/ TickReturns
  \/ KernelStep

\* Interrupt handlers end, transactions end, the tick keeps coming, and it leaves a task
\* that gets the processor again and again the time to go on.
SamplesSpec ==
  /\ SamplesInit /\ [][SamplesNext]_sleepVars
  /\ SF_sleepVars(KernelStep) /\ WF_sleepVars(SleeperMonitor) /\ WF_sleepVars(TickReturns)
  /\ WF_sleepVars(Tick)
  /\ \A p \in Port : WF_sleepVars(TransactionEnds(p))
  /\ \A t \in ExtTask : SF_sleepVars(SampleStep(t))

--------------------------------------------------------------------------------
(* Properties *)

\* The task in a slot that is in use is the one that took it, and no task has two: the
\* monitor will wake whoever waits for EventSleep.
SlotsOwned ==
  \A t \in Sleepers :
    pc[t] \in {"SetCounter", "WaitSleep"} \/ (pc[t] = "ClearSleep" /\ tcb_tstat[t] = "WAITING")
      => sleeperTask_ID[slot[t]] = t /\
         (isTaskSleeping[slot[t]] \/ EventSleep \in tcb_curevt[t])

\* Whoever waits is set ready again (and then runs when its turn comes).
Woken(t) == tcb_tstat[t] = "WAITING" ~> tcb_tstat[t] = "RUNNABLE"

\* rtoscalls.c, Sleep: "make a running Task sleep for duration time in msec", "sleep until
\* kicked up by the SleeperMonitor".  A task that sleeps is woken.
SleepersWake == \A t \in Sleepers : Woken(t)

\* rtoscalls.c, SleepI2C: "sleep ... until I2C becomes not busy".  A task that waits for
\* its port is woken.
ReadersWake == \A t \in Readers : Woken(t)

--------------------------------------------------------------------------------
\* Two sleepers and a reader of equal priority, as in the samples.
EqualPri  == 0 :> 0 @@ 1 :> 0 @@ 2 :> 0
NoMaxact  == 0 :> 0 @@ 1 :> 0 @@ 2 :> 0
Durations == 0 :> 1 @@ 1 :> 2
OnePort   == 2 :> 0

\* Two sleepers of different priority; the higher one reads a sensor too.
RisingPri == 0 :> 0 @@ 1 :> 1
TwoMaxact == 0 :> 0 @@ 1 :> 0
HighPort  == 1 :> 0

NoRes     == [r \in {} |-> 0]
LevelOne  == 1 :> 4
================================================================================
