----------------------------- MODULE OsekInterrupt -----------------------------
(***************************************************************************)
(* SuspendAllInterrupts, SuspendOSInterrupts and their counterparts        *)
(* (toppers_osek/kernel/interrupt.c) on top of OsekKernel.  On the NXT     *)
(* disable_int masks every interrupt, while set_ipl is an empty function   *)
(* and current_ipl returns 0 (cpu_config.h): SuspendOSInterrupts leaves    *)
(* the category-2 interrupts enabled.  Each service is one step.           *)
(***************************************************************************)
EXTENDS OsekKernel, TLC

CONSTANTS
  Suspends,    \* which pairs of services the program uses: "All", "OS"
  MaxNest      \* bound on their nesting; 255 in the code

ASSUME SuspendTable == Suspends \subseteq {"All", "OS"} /\ MaxNest \in 1 .. 255

VARIABLES
  sus_all_cnt, sus_os_cnt,   \* nesting of each pair
  saved_callevel,            \* callevel before the outermost of them
  entrycnt                   \* history: both counts when each handler was entered

suspend  == <<sus_all_cnt, sus_os_cnt, saved_callevel, entrycnt>>
intrVars == <<vars, suspend>>

IntrInit ==
  /\ Init
  /\ sus_all_cnt = 0
  /\ sus_os_cnt = 0
  /\ saved_callevel = "TCL_NULL"
  /\ entrycnt = << >>

--------------------------------------------------------------------------------
ResumeAllIgnoresOS(level) == saved_callevel                                \* fault

\* The level SuspendXInterrupts saves is given back by the last Resume of both kinds.
LevelResumed(level) == IF sus_all_cnt + sus_os_cnt = 1 THEN saved_callevel ELSE level

\* The first Suspend of either kind keeps callevel and forbids services.
SaveLevel ==
  IF sus_all_cnt + sus_os_cnt = 0
  THEN saved_callevel' = callevel /\ callevel' = "TCL_NULL"
  ELSE UNCHANGED <<saved_callevel, callevel>>

\* Tasks and handlers call these at any time after StartOS.
Runs == boot = tnum_task + 1 /\ (runtsk # TSKID_NULL \/ isrstk # << >>)

\* A handler resumes only what it suspended.
Entry(k) == IF entrycnt = << >> THEN 0 ELSE entrycnt[Len(entrycnt)][k]

OthersKept == UNCHANGED <<rdy, runtsk, tcb, rescb, cpu, entrycnt>>

SuspendAllInterrupts ==
  /\ Runs /\ "All" \in Suspends
  /\ sus_all_cnt < MaxNest
  /\ sus_all_cnt' = sus_all_cnt + 1
  /\ SaveLevel
  /\ OthersKept /\ UNCHANGED sus_os_cnt

ResumeAllInterrupts ==
  /\ Runs
  /\ sus_all_cnt > Entry(1)
  /\ sus_all_cnt' = sus_all_cnt - 1
  /\ callevel' = IF sus_all_cnt = 1 THEN LevelResumed(callevel) ELSE callevel
  /\ OthersKept /\ UNCHANGED <<sus_os_cnt, saved_callevel>>

SuspendOSInterrupts ==
  /\ Runs /\ "OS" \in Suspends
  /\ sus_os_cnt < MaxNest
  /\ sus_os_cnt' = sus_os_cnt + 1
  /\ SaveLevel
  /\ OthersKept /\ UNCHANGED sus_all_cnt

ResumeOSInterrupts ==
  /\ Runs
  /\ sus_os_cnt > Entry(2)
  /\ sus_os_cnt' = sus_os_cnt - 1
  /\ callevel' = IF sus_os_cnt = 1 THEN LevelResumed(callevel) ELSE callevel
  /\ OthersKept /\ UNCHANGED <<sus_all_cnt, saved_callevel>>

--------------------------------------------------------------------------------
\* The kernel's own steps.  A handler returns with the counts it was entered with.
EnterHandler(i) ==
  /\ sus_all_cnt = 0
  /\ Interrupt(i)
  /\ entrycnt' = Append(entrycnt, <<sus_all_cnt, sus_os_cnt>>)
  /\ UNCHANGED <<sus_all_cnt, sus_os_cnt, saved_callevel>>

LeaveHandler ==
  /\ isrstk # << >>
  /\ sus_all_cnt = Entry(1) /\ sus_os_cnt = Entry(2)
  /\ InterruptReturn
  /\ entrycnt' = SubSeq(entrycnt, 1, Len(entrycnt) - 1)
  /\ UNCHANGED <<sus_all_cnt, sus_os_cnt, saved_callevel>>

\* Services: each refuses callevel TCL_NULL, so none runs in a suspended section.
Service ==
  \/ InitializeTask \/ StartOS \/ LeaveIdle
  \/ \E t \in TaskType : ActivateTask(t) \/ ChainOther(t)
  \/ TerminateTask \/ ChainSelf \/ Schedule
  \/ \E res \in ResourceType : GetResource(res) \/ ReleaseResource(res)
  \/ \E t \in ExtTask, mask \in Mask : SetEvent(t, mask)
  \/ \E mask \in Mask : ClearEvent(mask) \/ WaitEvent(mask)

IntrNext ==
  \/ Service /\ UNCHANGED suspend
  \/ \E i \in IsrType : EnterHandler(i)
  \/ LeaveHandler
  \/ SuspendAllInterrupts
  \/ ResumeAllInterrupts
  \/ SuspendOSInterrupts
  \/ ResumeOSInterrupts

IntrSpec == IntrInit /\ [][IntrNext]_intrVars

--------------------------------------------------------------------------------
(* Properties *)

\* Between its first Suspend and its last Resume, however the two kinds nest, a task can
\* call no service, and everywhere else it can.
SuspendedSection ==
  runtsk # TSKID_NULL /\ isrstk = << >> =>
    (callevel = "TCL_TASK" <=> sus_all_cnt = 0 /\ sus_os_cnt = 0)

InipriI == 0 :> 0 @@ 1 :> 1
ExepriI == 0 :> 0 @@ 1 :> 1
MaxactI == 0 :> 0 @@ 1 :> 0
CeilpriI == 0 :> 1
LevelI  == 1 :> 4
================================================================================
