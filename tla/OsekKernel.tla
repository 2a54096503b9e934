------------------------------ MODULE OsekKernel ------------------------------
(***************************************************************************)
(* The OSEK kernel as the tasks and interrupt handlers of an NXT see it:   *)
(* task_manage.c, resource.c and event.c over the scheduler of OsekSched,  *)
(* with the dispatcher, the idle loop and the interrupt entry and exit of  *)
(* config/at91sam7s-gnu/cpu_support.S.                                     *)
(*                                                                         *)
(* A service runs between lock_cpu and unlock_cpu, so it is one step;      *)
(* interrupts arrive between any two steps.  Hooks are NULL, as in every   *)
(* .oil file of the repository, and set_ipl is the empty function of       *)
(* cpu_config.h.  A service that fails a check, and a service that only    *)
(* reads (GetTaskID, GetTaskState, GetEvent), changes nothing and is a     *)
(* stuttering step.                                                        *)
(***************************************************************************)
EXTENDS OsekSched

CONSTANTS
  Autostart,        \* tasks with tinib_autoact in the application mode
  tnum_resource,    \* number of resources
  resinib_ceilpri,  \* ceiling priority of each resource
  Event,            \* the bits of an event mask
  IsrType,          \* the category-2 interrupts
  aic_level         \* their priority level in the interrupt controller

ResourceType == 0 .. tnum_resource - 1
RESID_NULL   == 255
ISRID_NULL   == 255
EVTMASK_NONE == {}

\* Task priorities, and ceilings no task can be activated above.
CurPri == TaskPri \cup (TPRI_SCHEDULER .. 254)

ASSUME KernelTable ==
  /\ Autostart \subseteq TaskType
  /\ tnum_resource \in 0 .. 254
  /\ resinib_ceilpri \in [ResourceType -> CurPri]
  /\ IsrType \subseteq 0 .. 254
  /\ aic_level \in [IsrType -> 0 .. 7]

VARIABLES
  rdy,                                    \* ready queues, ready_primap, nextpri, schedtsk
  runtsk,                                 \* the task that runs, or TSKID_NULL
  tcb_tstat, tcb_curpri, tcb_actcnt,      \* task control blocks
  tcb_curevt, tcb_waievt, tcb_lastres,
  tcxb_pc,                                \* where a task that does not run continues
  rescb_prevpri, rescb_prevres,           \* resource control blocks
  callevel, runisr,                       \* the context that runs
  isrstk,                                 \* callevel and runisr saved by nested interrupts
  boot,                                   \* progress of task_initialize and StartOS
  resstk                                  \* history: resources each task holds, oldest first

tcb   == <<tcb_tstat, tcb_curpri, tcb_actcnt, tcb_curevt, tcb_waievt, tcb_lastres, tcxb_pc>>
rescb == <<rescb_prevpri, rescb_prevres, resstk>>
cpu   == <<runisr, isrstk, boot>>
vars  == <<rdy, runtsk, tcb, rescb, callevel, cpu>>

TaskState == {"DORMANT", "RUNNABLE", "WAITING"}
CallLevel == {"TCL_NULL", "TCL_TASK", "TCL_ISR2"}

\* The continuations dispatch leaves in tcxb_pc.  dispatcher_r returns into the service
\* that called dispatch; Schedule and WaitEvent then set tcb_curpri to tinib_exepri,
\* which is the continuation "dispatcher_r_exepri".
Continuation == {"activate_r", "dispatcher_r", "dispatcher_r_exepri", "ret_int_r"}

TypeOK ==
  /\ rdy \in Scheduler
  /\ runtsk \in TaskType \cup {TSKID_NULL}
  /\ tcb_tstat \in [TaskType -> TaskState]
  /\ tcb_curpri \in [TaskType -> CurPri]
  /\ tcb_actcnt \in [TaskType -> 0 .. 255]
  /\ tcb_curevt \in [ExtTask -> SUBSET Event]
  /\ tcb_waievt \in [ExtTask -> SUBSET Event]
  /\ tcb_lastres \in [TaskType -> ResourceType \cup {RESID_NULL}]
  /\ tcxb_pc \in [TaskType -> Continuation]
  /\ rescb_prevpri \in [ResourceType -> CurPri \cup {TPRI_NULL}]
  /\ rescb_prevres \in [ResourceType -> ResourceType \cup {RESID_NULL}]
  /\ callevel \in CallLevel
  /\ runisr \in IsrType \cup {0, ISRID_NULL}
  /\ isrstk \in Seq([callevel : CallLevel, runisr : IsrType \cup {0, ISRID_NULL}])
  /\ boot \in 0 .. tnum_task + 1
  /\ resstk \in [TaskType -> Seq(ResourceType)]

\* Power-up: .bss is zero and StartOS has not run.  Control blocks that task_initialize
\* has not reached are not read.
Init ==
  /\ rdy = NoTaskReady
  /\ runtsk = TSKID_NULL
  /\ tcb_tstat = [t \in TaskType |-> "DORMANT"]
  /\ tcb_curpri = [t \in TaskType |-> TPRI_MINTASK]
  /\ tcb_actcnt = [t \in TaskType |-> 0]
  /\ tcb_curevt = [t \in ExtTask |-> EVTMASK_NONE]
  /\ tcb_waievt = [t \in ExtTask |-> EVTMASK_NONE]
  /\ tcb_lastres = [t \in TaskType |-> RESID_NULL]
  /\ tcxb_pc = [t \in TaskType |-> "activate_r"]
  /\ rescb_prevpri = [r \in ResourceType |-> TPRI_NULL]
  /\ rescb_prevres = [r \in ResourceType |-> RESID_NULL]
  /\ callevel = "TCL_NULL"
  /\ runisr = 0
  /\ isrstk = << >>
  /\ boot = 0
  /\ resstk = [t \in TaskType |-> << >>]

--------------------------------------------------------------------------------
(* cpu_support.S: the dispatcher *)

\* start_dispatch with the control blocks pri and pc and the scheduler data r that the
\* service leaves: schedtsk runs, and a task that starts (activate_r) or comes back to
\* Schedule or WaitEvent takes its execution priority before interrupts are enabled.
\* With no task to run, pre_idle sets the interrupt call level.
StartDispatch(r, pri, pc) ==
  LET t == r.schedtsk IN
  /\ rdy' = r
  /\ runtsk' = t
  /\ tcxb_pc' = pc
  /\ callevel' = IF t = TSKID_NULL THEN "TCL_ISR2" ELSE "TCL_TASK"
  /\ tcb_curpri' = IF t # TSKID_NULL /\ pc[t] \in {"activate_r", "dispatcher_r_exepri"}
                   THEN [pri EXCEPT ![t] = tinib_exepri[t]] ELSE pri

\* dispatch, called by the running task: it continues at k when it is chosen again.
Dispatch(r, pri, pc, k) == StartDispatch(r, pri, [pc EXCEPT ![runtsk] = k])

\* The end of a service that changed rdy to r and may have found a better task t.
DispatchIfBetter(r, pri, pc, t) ==
  IF r.schedtsk = t /\ callevel = "TCL_TASK"
  THEN Dispatch(r, pri, pc, "dispatcher_r")
  ELSE rdy' = r /\ tcb_curpri' = pri /\ tcxb_pc' = pc /\ UNCHANGED <<runtsk, callevel>>

--------------------------------------------------------------------------------
(* task.c: make_active, without its call of make_runnable, for the tasks in T *)

ActivePri(T) == [t \in TaskType |-> IF t \in T THEN tinib_inipri[t] ELSE tcb_curpri[t]]
ActivePc(T)  == [t \in TaskType |-> IF t \in T THEN "activate_r" ELSE tcxb_pc[t]]

ResetTasks(T) ==
  /\ tcb_curevt' = [t \in ExtTask |-> IF t \in T THEN EVTMASK_NONE ELSE tcb_curevt[t]]
  /\ tcb_waievt' = [t \in ExtTask |-> IF t \in T THEN EVTMASK_NONE ELSE tcb_waievt[t]]
  /\ tcb_lastres' = [t \in TaskType |-> IF t \in T THEN RESID_NULL ELSE tcb_lastres[t]]

--------------------------------------------------------------------------------
(* Start-up *)

\* One iteration of the second loop of task_initialize.
InitializeTask ==
  /\ boot < tnum_task
  /\ boot' = boot + 1
  /\ IF boot \in Autostart
     THEN /\ tcb_tstat' = [tcb_tstat EXCEPT ![boot] = "RUNNABLE"]
          /\ ResetTasks({boot})
          /\ tcb_curpri' = ActivePri({boot})
          /\ tcxb_pc' = ActivePc({boot})
          /\ rdy' = MakeRunnable(rdy, ActivePri({boot}), boot)
     ELSE UNCHANGED <<rdy, tcb>>
  /\ UNCHANGED <<tcb_actcnt, runtsk, rescb, callevel, runisr, isrstk>>

\* The rest of StartOS: the first dispatch.
StartOS ==
  /\ boot = tnum_task
  /\ boot' = tnum_task + 1
  /\ StartDispatch(rdy, tcb_curpri, tcxb_pc)
  /\ UNCHANGED <<tcb_tstat, tcb_actcnt, tcb_curevt, tcb_waievt, tcb_lastres, rescb,
                 runisr, isrstk>>

--------------------------------------------------------------------------------
(* task_manage.c *)

AtTaskLevel == callevel = "TCL_TASK"

\* A task, or an interrupt handler that runs (not the idle loop, which calls nothing).
MayCall == AtTaskLevel \/ (callevel = "TCL_ISR2" /\ isrstk # << >>)

\* ActivateTask of a dormant task, and of one that records the activation.
ActivateDormant(t) ==
  /\ MayCall
  /\ tcb_tstat[t] = "DORMANT"
  /\ tcb_tstat' = [tcb_tstat EXCEPT ![t] = "RUNNABLE"]
  /\ ResetTasks({t})
  /\ DispatchIfBetter(MakeRunnable(rdy, ActivePri({t}), t), ActivePri({t}), ActivePc({t}), t)
  /\ UNCHANGED <<tcb_actcnt, rescb, cpu>>

ActivateAgain(t) ==
  /\ MayCall
  /\ tcb_tstat[t] # "DORMANT"
  /\ tcb_actcnt[t] < tinib_maxact[t]
  /\ tcb_actcnt' = [tcb_actcnt EXCEPT ![t] = @ + 1]
  /\ UNCHANGED <<rdy, runtsk, tcb_tstat, tcb_curpri, tcb_curevt, tcb_waievt, tcb_lastres,
                 tcxb_pc, rescb, callevel, cpu>>

ActivateTask(t) == ActivateDormant(t) \/ ActivateAgain(t)

\* The running task ends and the next is chosen; then it is activated again, and the
\* task t (unless TSKID_NULL) for the first time; exit_and_dispatch.
EndTask(again, t) ==
  LET new == {x \in TaskType : x = t \/ (again /\ x = runtsk)}
      pri == ActivePri(new)
      r0  == SearchSchedtsk(rdy)
      r1  == IF again THEN MakeRunnable(r0, pri, runtsk) ELSE r0
      r2  == IF t # TSKID_NULL THEN MakeRunnable(r1, pri, t) ELSE r1
  IN  /\ tcb_tstat' = [x \in TaskType |-> IF x \in new THEN "RUNNABLE"
                                          ELSE IF x = runtsk THEN "DORMANT" ELSE tcb_tstat[x]]
      /\ ResetTasks(new)
      /\ StartDispatch(r2, pri, ActivePc(new))
      /\ UNCHANGED <<rescb, cpu>>

HoldsNoResource == tcb_lastres[runtsk] = RESID_NULL

TerminateForgetsActivation ==                                              \* fault
  /\ AtTaskLevel
  /\ HoldsNoResource
  /\ EndTask(FALSE, TSKID_NULL)
  /\ UNCHANGED tcb_actcnt

TerminateTask ==
  /\ AtTaskLevel
  /\ HoldsNoResource
  /\ EndTask(tcb_actcnt[runtsk] > 0, TSKID_NULL)
  /\ tcb_actcnt' = [tcb_actcnt EXCEPT ![runtsk] = IF @ > 0 THEN @ - 1 ELSE @]

\* ChainTask to itself keeps the recorded activations.
ChainSelf ==
  /\ AtTaskLevel
  /\ HoldsNoResource
  /\ EndTask(TRUE, TSKID_NULL)
  /\ UNCHANGED tcb_actcnt

ChainOther(t) ==
  /\ AtTaskLevel
  /\ HoldsNoResource
  /\ t # runtsk
  /\ tcb_tstat[t] = "DORMANT" \/ tcb_actcnt[t] < tinib_maxact[t]
  /\ EndTask(tcb_actcnt[runtsk] > 0, IF tcb_tstat[t] = "DORMANT" THEN t ELSE TSKID_NULL)
  /\ tcb_actcnt' = [x \in TaskType |->
       IF x = runtsk /\ tcb_actcnt[x] > 0 THEN tcb_actcnt[x] - 1
       ELSE IF x = t /\ tcb_tstat[t] # "DORMANT" THEN tcb_actcnt[x] + 1
       ELSE tcb_actcnt[x]]

Schedule ==
  LET pri == [tcb_curpri EXCEPT ![runtsk] = tinib_inipri[runtsk]] IN
  /\ AtTaskLevel
  /\ HoldsNoResource
  /\ tinib_inipri[runtsk] < rdy.nextpri
  /\ Dispatch(Preempt(rdy, pri), pri, tcxb_pc, "dispatcher_r_exepri")
  /\ UNCHANGED <<tcb_tstat, tcb_actcnt, tcb_curevt, tcb_waievt, tcb_lastres, rescb, cpu>>

--------------------------------------------------------------------------------
(* resource.c, called by a task *)

CeilingIgnored(p, res)    == p                                             \* fault
PrevpriAfterReset(res)    == TPRI_NULL                                     \* fault
ReleaseInAnyOrder(res)    == rescb_prevpri[res] # TPRI_NULL                \* fault

\* The priority GetResource gives a task of priority p.
RaisedPri(p, res) == IF resinib_ceilpri[res] > p THEN resinib_ceilpri[res] ELSE p

\* The priority ReleaseResource goes back to, and its check of the nesting.
RestoredPri(res) == rescb_prevpri[res]
ReleaseInOrder(res) == tcb_lastres[runtsk] = res

GetResource(res) ==
  /\ AtTaskLevel
  /\ tinib_inipri[runtsk] <= resinib_ceilpri[res]
  /\ rescb_prevpri[res] = TPRI_NULL
  /\ rescb_prevpri' = [rescb_prevpri EXCEPT ![res] = tcb_curpri[runtsk]]
  /\ rescb_prevres' = [rescb_prevres EXCEPT ![res] = tcb_lastres[runtsk]]
  /\ tcb_lastres' = [tcb_lastres EXCEPT ![runtsk] = res]
  /\ tcb_curpri' = [tcb_curpri EXCEPT ![runtsk] = RaisedPri(@, res)]
  /\ resstk' = [resstk EXCEPT ![runtsk] = Append(@, res)]
  /\ UNCHANGED <<rdy, runtsk, tcb_tstat, tcb_actcnt, tcb_curevt, tcb_waievt, tcxb_pc,
                 callevel, cpu>>

ReleaseResource(res) ==
  LET pri == [tcb_curpri EXCEPT ![runtsk] = RestoredPri(res)] IN
  /\ AtTaskLevel
  /\ tinib_inipri[runtsk] <= resinib_ceilpri[res]
  /\ ReleaseInOrder(res)
  /\ tcb_lastres' = [tcb_lastres EXCEPT ![runtsk] = rescb_prevres[res]]
  /\ rescb_prevpri' = [rescb_prevpri EXCEPT ![res] = TPRI_NULL]
  /\ resstk' = [resstk EXCEPT ![runtsk] = SubSeq(@, 1, Len(@) - 1)]
  /\ IF pri[runtsk] < rdy.nextpri
     THEN Dispatch(Preempt(rdy, pri), pri, tcxb_pc, "dispatcher_r")
     ELSE tcb_curpri' = pri /\ UNCHANGED <<rdy, runtsk, tcxb_pc, callevel>>
  /\ UNCHANGED <<tcb_tstat, tcb_actcnt, tcb_curevt, tcb_waievt, rescb_prevres, cpu>>

--------------------------------------------------------------------------------
(* event.c *)

NoneChecked(mask) == TRUE                                                  \* fault

\* What WaitEvent checks before it waits.
NoneSet(mask) == tcb_curevt[runtsk] \cap mask = EVTMASK_NONE

SetEvent(t, mask) ==
  /\ MayCall
  /\ t \in ExtTask
  /\ tcb_tstat[t] # "DORMANT"
  /\ tcb_curevt' = [tcb_curevt EXCEPT ![t] = @ \cup mask]
  /\ IF tcb_curevt'[t] \cap tcb_waievt[t] # EVTMASK_NONE
     THEN /\ tcb_waievt' = [tcb_waievt EXCEPT ![t] = EVTMASK_NONE]
          /\ tcb_tstat' = [tcb_tstat EXCEPT ![t] = "RUNNABLE"]
          /\ DispatchIfBetter(MakeRunnable(rdy, tcb_curpri, t), tcb_curpri, tcxb_pc, t)
     ELSE UNCHANGED <<tcb_waievt, tcb_tstat, rdy, tcb_curpri, tcxb_pc, runtsk, callevel>>
  /\ UNCHANGED <<tcb_actcnt, tcb_lastres, rescb, cpu>>

ClearEvent(mask) ==
  /\ AtTaskLevel
  /\ runtsk \in ExtTask
  /\ tcb_curevt' = [tcb_curevt EXCEPT ![runtsk] = @ \ mask]
  /\ UNCHANGED <<rdy, runtsk, tcb_tstat, tcb_curpri, tcb_actcnt, tcb_waievt, tcb_lastres,
                 tcxb_pc, rescb, callevel, cpu>>

WaitEvent(mask) ==
  LET pri == [tcb_curpri EXCEPT ![runtsk] = tinib_inipri[runtsk]] IN
  /\ AtTaskLevel
  /\ runtsk \in ExtTask
  /\ HoldsNoResource
  /\ NoneSet(mask)
  /\ tcb_tstat' = [tcb_tstat EXCEPT ![runtsk] = "WAITING"]
  /\ tcb_waievt' = [tcb_waievt EXCEPT ![runtsk] = mask]
  /\ Dispatch(SearchSchedtsk(rdy), pri, tcxb_pc, "dispatcher_r_exepri")
  /\ UNCHANGED <<tcb_actcnt, tcb_curevt, tcb_lastres, rescb, cpu>>

--------------------------------------------------------------------------------
(* irq.s and cpu_support.S: category-2 interrupts and the idle loop *)

\* irq_wrapper_type2 and _interrupt.  The controller delivers an interrupt over a
\* handler only if its level is higher.
Interrupt(i) ==
  /\ boot = tnum_task + 1
  /\ isrstk # << >> => aic_level[i] > aic_level[runisr]
  /\ isrstk' = Append(isrstk, [callevel |-> callevel, runisr |-> runisr])
  /\ callevel' = "TCL_ISR2"
  /\ runisr' = i
  /\ UNCHANGED <<rdy, runtsk, tcb, rescb, boot>>

NeverPreempts(level) == FALSE                                              \* fault

\* The tests of int_from_int: a task was interrupted and a better one became ready.
PreemptsOnReturn(level) == level = "TCL_TASK" /\ rdy.schedtsk # runtsk

\* int_from_int after the handler: back to what was interrupted, or ret_int.
InterruptReturn ==
  LET top == isrstk[Len(isrstk)] IN
  /\ isrstk # << >>
  /\ isrstk' = SubSeq(isrstk, 1, Len(isrstk) - 1)
  /\ runisr' = top.runisr
  /\ IF PreemptsOnReturn(top.callevel)
     THEN Dispatch(rdy, tcb_curpri, tcxb_pc, "ret_int_r")
     ELSE callevel' = top.callevel /\ UNCHANGED <<rdy, runtsk, tcb_curpri, tcxb_pc>>
  /\ UNCHANGED <<tcb_tstat, tcb_actcnt, tcb_curevt, tcb_waievt, tcb_lastres, rescb, boot>>

\* idle_loop finds a task to run.
LeaveIdle ==
  /\ boot = tnum_task + 1
  /\ runtsk = TSKID_NULL
  /\ isrstk = << >>
  /\ rdy.schedtsk # TSKID_NULL
  /\ StartDispatch(rdy, tcb_curpri, tcxb_pc)
  /\ UNCHANGED <<tcb_tstat, tcb_actcnt, tcb_curevt, tcb_waievt, tcb_lastres, rescb, cpu>>

--------------------------------------------------------------------------------
Mask == (SUBSET Event) \ {EVTMASK_NONE}

Next ==
  \/ InitializeTask
  \/ StartOS
  \/ \E t \in TaskType : ActivateTask(t)
  \/ TerminateTask
  \/ ChainSelf
  \/ \E t \in TaskType : ChainOther(t)
  \/ Schedule
  \/ \E res \in ResourceType : GetResource(res) \/ ReleaseResource(res)
  \/ \E t \in ExtTask, mask \in Mask : SetEvent(t, mask)
  \/ \E mask \in Mask : ClearEvent(mask) \/ WaitEvent(mask)
  \/ \E i \in IsrType : Interrupt(i)
  \/ InterruptReturn
  \/ LeaveIdle

Spec == Init /\ [][Next]_vars

\* Fairness: start-up runs to its end, interrupt handlers finish and leave time to the
\* rest of the system, and the idle loop gets to its test of schedtsk.
Fairness ==
  /\ WF_vars(InitializeTask \/ StartOS)
  /\ \A n \in 1 .. Cardinality(IsrType) : SF_vars(InterruptReturn /\ Len(isrstk) = n)
  /\ SF_vars(LeaveIdle)

FairSpec == Spec /\ Fairness

--------------------------------------------------------------------------------
(* Properties *)

Runnable == {t \in TaskType : tcb_tstat[t] = "RUNNABLE"}
Ready    == Runnable \ {rdy.schedtsk}

\* A task that has run since its activation and did not give up its execution priority.
Started(t) == t = runtsk \/ (t \in Runnable /\ tcxb_pc[t] \in {"dispatcher_r", "ret_int_r"})

\* While a task runs it is the one the scheduler chose (task.h: "matches runtsk while a
\* task runs"); this is what preempt asserts.
RunningIsScheduled ==
  AtTaskLevel => runtsk = rdy.schedtsk /\ runtsk # TSKID_NULL /\ isrstk = << >>

\* The invariant of task.c between services.
SchedulerConsistent ==
  /\ QueuesHold(rdy.queue, tcb_curpri, Ready)
  /\ MapExact(rdy)
  /\ BestChosen(rdy, tcb_curpri)
  /\ rdy.schedtsk # TSKID_NULL => rdy.schedtsk \in Runnable

\* A task that was set aside while it ran is alone in front of its queue, and only a
\* task of higher initial priority comes before it.
StartedTasksLead ==
  \A u \in Ready : Started(u) =>
    /\ tcb_curpri[u] \in TaskPri /\ rdy.queue[tcb_curpri[u]][1] = u
    /\ \A t \in Runnable :
         t = rdy.schedtsk \/ tcb_curpri[t] > tcb_curpri[u] => tinib_inipri[t] > tcb_curpri[u]

\* tcb_lastres and the chain of rescb_prevres are the stack of the resources a task
\* holds; rescb_prevpri is the priority to go back to, at least the ceiling of every
\* resource taken earlier.
ResourcesStacked ==
  /\ \A t \in TaskType : LET s == resstk[t] IN
       /\ tcb_lastres[t] = IF s = << >> THEN RESID_NULL ELSE s[Len(s)]
       /\ s # << >> => Started(t)
       /\ \A i \in 1 .. Len(s) :
            /\ rescb_prevres[s[i]] = IF i = 1 THEN RESID_NULL ELSE s[i - 1]
            /\ rescb_prevpri[s[i]] \in CurPri
            /\ tcb_curpri[t] >= resinib_ceilpri[s[i]]
            /\ resinib_ceilpri[s[i]] >= tinib_inipri[t]
            /\ \A j \in 1 .. i - 1 : rescb_prevpri[s[i]] >= resinib_ceilpri[s[j]]
  /\ \A res \in ResourceType :
       rescb_prevpri[res] # TPRI_NULL <=> \E t \in TaskType : res \in Elements(resstk[t])
  /\ \A t, u \in TaskType : \A i \in 1 .. Len(resstk[t]), j \in 1 .. Len(resstk[u]) :
       resstk[t][i] = resstk[u][j] => t = u /\ i = j

\* The priority ceiling protocol: a task that runs and may take a resource never finds
\* it taken by another task.
MutualExclusion ==
  AtTaskLevel => \A res \in ResourceType :
    rescb_prevpri[res] # TPRI_NULL /\ tinib_inipri[runtsk] <= resinib_ceilpri[res]
      => res \in Elements(resstk[runtsk])

\* A recorded activation belongs to a task that is still active and will serve it, and
\* no more are recorded than configured.
NoLostActivation ==
  \A t \in TaskType : /\ tcb_actcnt[t] <= tinib_maxact[t]
                      /\ tcb_actcnt[t] > 0 => tcb_tstat[t] # "DORMANT"

\* A task waits only for events that are not set, and only a waiting task has a mask.
NoLostWakeup ==
  \A t \in ExtTask :
    IF tcb_tstat[t] = "WAITING"
    THEN tcb_waievt[t] # EVTMASK_NONE /\ tcb_curevt[t] \cap tcb_waievt[t] = EVTMASK_NONE
    ELSE tcb_waievt[t] = EVTMASK_NONE

\* A running task is set aside only for one of strictly higher priority.
PreemptedOnlyByBetter ==
  [][\A t \in TaskType :
       runtsk = t /\ tcb_tstat'[t] = "RUNNABLE" /\ tcb_actcnt'[t] = tcb_actcnt[t]
         /\ tcxb_pc'[t] # "activate_r" /\ runtsk' # t
       => tcb_curpri'[t] < tcb_curpri'[runtsk']]_vars

\* The processor comes back to the task the scheduler has chosen.
BestTaskRuns == []<>(runtsk = rdy.schedtsk)
================================================================================
