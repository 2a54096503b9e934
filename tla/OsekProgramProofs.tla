---------------------------- MODULE OsekProgramProofs ----------------------------
(***************************************************************************)
(* What is built on the OSEK kernel: the sections of interrupt.c, Sleep of *)
(* rtoscalls.c and the tasks of etrobo2011.                                *)
(*                                                                         *)
(* Suspended sections refuse services, for every table, every nesting of   *)
(* the two kinds and every depth of nested handlers.  The code has one     *)
(* saved_callevel for sections that tasks and handlers begin, a handler    *)
(* within the section of what it interrupted too.  The invariant looks at  *)
(* all that is nested: frame 0 is the task or the idle loop, frame k the   *)
(* k-th handler.  Only the frame in which the counts left zero runs at     *)
(* TCL_NULL, and saved_callevel is its level.                              *)
(*                                                                         *)
(* The tasks that sleep, and those of the robot, share data without a      *)
(* lock.  Both programs only take steps of the kernel, so that its         *)
(* invariant holds of them; it says that of the tasks of one priority      *)
(* only one is in the middle of its work.                                  *)
(***************************************************************************)
EXTENDS OsekInterrupt, SleeperMC, RoboTasks, OsekKernelProofs

Frame == [callevel : CallLevel, runisr : IsrType \cup {0, ISRID_NULL}]

\* What a frame runs at outside its sections.
Outer(t)   == IF t = TSKID_NULL THEN "TCL_ISR2" ELSE "TCL_TASK"
Proper(k)  == IF k = 0 THEN Outer(runtsk) ELSE "TCL_ISR2"

\* Level and counts of a frame: the innermost has them in the variables, the others where the
\* next handler found them.
LevelAt(k) == IF k = Len(isrstk) THEN callevel ELSE isrstk[k + 1].callevel
AllAt(k)   == IF k = Len(isrstk) THEN sus_all_cnt ELSE entrycnt[k + 1][1]
OsAt(k)    == IF k = Len(isrstk) THEN sus_os_cnt ELSE entrycnt[k + 1][2]
NestAt(k)  == AllAt(k) + OsAt(k)

\* The frame that began the section.
Begins(k) == NestAt(k) > 0 /\ (k = 0 \/ NestAt(k - 1) = 0)

StackTypes ==
  /\ isrstk \in Seq(Frame) /\ entrycnt \in Seq(Nat \X Nat) /\ Len(entrycnt) = Len(isrstk)
  /\ sus_all_cnt \in Nat /\ sus_os_cnt \in Nat
  /\ callevel \in CallLevel /\ runisr \in IsrType \cup {0, ISRID_NULL}
  /\ boot \in Int

CountsGrow ==
  \A k \in 0 .. Len(isrstk) : \A j \in 0 .. k : AllAt(j) <= AllAt(k) /\ OsAt(j) <= OsAt(k)

LevelsKnown ==
  \A k \in 0 .. Len(isrstk) :
    /\ LevelAt(k) = IF Begins(k) THEN "TCL_NULL" ELSE Proper(k)
    /\ Begins(k) => saved_callevel = Proper(k)

SectionInv ==
  /\ StackTypes
  /\ boot # tnum_task + 1 => /\ isrstk = << >> /\ sus_all_cnt = 0 /\ sus_os_cnt = 0
                             /\ callevel = "TCL_NULL" /\ runtsk = TSKID_NULL
  /\ boot = tnum_task + 1 => LevelsKnown
  /\ CountsGrow
  /\ runtsk = TSKID_NULL => NestAt(0) = 0

--------------------------------------------------------------------------------
\* The counts of every frame are numbers, and those of the first frame are at least zero.
LEMMA NestTypes ==
  ASSUME StackTypes
  PROVE  /\ Len(isrstk) \in Nat
         /\ \A k \in 0 .. Len(isrstk) : AllAt(k) \in Nat /\ OsAt(k) \in Nat
<1>1. \A k \in 1 .. Len(entrycnt) : entrycnt[k] \in Nat \X Nat
  BY DEF StackTypes
<1>2. Len(isrstk) \in Nat /\ Len(entrycnt) = Len(isrstk)
  BY DEF StackTypes
<1>3. ASSUME NEW k \in 0 .. Len(isrstk) PROVE AllAt(k) \in Nat /\ OsAt(k) \in Nat
  <2>1. CASE k = Len(isrstk)
    BY <2>1 DEF AllAt, OsAt, StackTypes
  <2>2. CASE k # Len(isrstk)
    <3>1. k + 1 \in 1 .. Len(entrycnt)
      BY <1>2, <1>3, <2>2
    <3> QED BY <1>1, <2>2, <3>1 DEF AllAt, OsAt
  <2> QED BY <2>1, <2>2
<1> QED BY <1>2, <1>3

LEMMA EmptyStack ==
  ASSUME NEW S, NEW s \in Seq(S), Len(s) = 0
  PROVE  s = << >>
OBVIOUS

\* What a service does to the context: nothing, or it ends in the dispatcher, which it
\* reaches only from task level and from the idle loop.
Redispatched ==
  /\ callevel' = Outer(runtsk')
  /\ callevel = "TCL_TASK" \/ (isrstk = << >> /\ runtsk = TSKID_NULL)

LEMMA DispatchContext ==
  ASSUME NEW r, NEW pri, NEW conts, StartDispatch(r, pri, conts)
  PROVE  callevel' = Outer(runtsk')
BY DEF StartDispatch, Outer

LEMMA IfBetterContext ==
  ASSUME NEW r, NEW pri, NEW conts, NEW t, DispatchIfBetter(r, pri, conts, t)
  PROVE  UNCHANGED <<callevel, runtsk>> \/ (callevel' = Outer(runtsk') /\ callevel = "TCL_TASK")
BY DispatchContext DEF DispatchIfBetter, Dispatch

LEMMA EndContext ==
  ASSUME NEW again, NEW t, EndTask(again, t)
  PROVE  callevel' = Outer(runtsk') /\ UNCHANGED cpu
<1>1. PICK r, pri, conts : StartDispatch(r, pri, conts)
  BY Zenon DEF EndTask
<1>2. callevel' = Outer(runtsk')
  BY <1>1, DispatchContext
<1>3. UNCHANGED cpu
  BY DEF EndTask
<1> QED BY <1>2, <1>3

Rested == UNCHANGED <<callevel, runtsk>>

LEMMA ServiceContext ==
  ASSUME Service, StackTypes,
         boot # tnum_task + 1 => runtsk = TSKID_NULL /\ isrstk = << >> /\ callevel = "TCL_NULL"
  PROVE  /\ UNCHANGED <<isrstk, runisr>> /\ boot' \in Int
         /\ \/ Rested /\ boot' = boot
            \/ Rested /\ boot # tnum_task + 1 /\ boot' # tnum_task + 1
            \/ Redispatched /\ boot' = tnum_task + 1
<1> DEFINE Goal == /\ UNCHANGED <<isrstk, runisr>> /\ boot' \in Int
                   /\ \/ Rested /\ boot' = boot
                      \/ Rested /\ boot # tnum_task + 1 /\ boot' # tnum_task + 1
                      \/ Redispatched /\ boot' = tnum_task + 1
<1>1. CASE InitializeTask
  BY <1>1, TaskTable DEF InitializeTask, StackTypes, Rested
<1>2. CASE StartOS
  <2>1. StartDispatch(rdy, tcb_curpri, tcxb_pc)
    BY <1>2 DEF StartOS
  <2>2. callevel' = Outer(runtsk')
    BY <2>1, DispatchContext
  <2>3. boot = tnum_task /\ boot' = tnum_task + 1 /\ UNCHANGED <<isrstk, runisr>>
    BY <1>2 DEF StartOS
  <2>4. tnum_task \in Int
    BY TaskTable
  <2>5. isrstk = << >> /\ runtsk = TSKID_NULL /\ boot' \in Int
    BY <2>3, <2>4
  <2> QED BY <2>2, <2>3, <2>5 DEF Redispatched
<1>3. CASE LeaveIdle
  <2>1. StartDispatch(rdy, tcb_curpri, tcxb_pc)
    BY <1>3 DEF LeaveIdle
  <2>2. callevel' = Outer(runtsk')
    BY <2>1, DispatchContext
  <2>3. /\ boot = tnum_task + 1 /\ boot' = boot /\ UNCHANGED <<isrstk, runisr>>
        /\ isrstk = << >> /\ runtsk = TSKID_NULL
    BY <1>3 DEF LeaveIdle, cpu
  <2> QED BY <2>2, <2>3 DEF Redispatched, StackTypes
<1>4. ASSUME UNCHANGED cpu, Rested \/ (callevel' = Outer(runtsk') /\ callevel = "TCL_TASK")
      PROVE  Goal
  BY <1>4 DEF cpu, Redispatched, StackTypes
<1> HIDE DEF Goal
<1>5. ASSUME NEW t \in TaskType, ActivateTask(t) \/ ChainOther(t) PROVE Goal
  <2>1. CASE ActivateDormant(t)
    BY <1>4, <2>1, IfBetterContext DEF ActivateDormant, Rested
  <2>2. CASE ActivateAgain(t)
    BY <1>4, <2>2 DEF ActivateAgain, Rested
  <2>3. CASE ChainOther(t)
    <3>1. PICK again, u : EndTask(again, u)
      BY <2>3 DEF ChainOther
    <3>2. callevel = "TCL_TASK"
      BY <2>3 DEF ChainOther, AtTaskLevel
    <3> QED BY <1>4, <3>1, <3>2, EndContext
  <2> QED BY <1>5, <2>1, <2>2, <2>3 DEF ActivateTask
<1>6. CASE TerminateTask \/ ChainSelf
  <2>1. PICK again, u : EndTask(again, u)
    BY <1>6 DEF TerminateTask, ChainSelf
  <2>2. callevel = "TCL_TASK"
    BY <1>6 DEF TerminateTask, ChainSelf, AtTaskLevel
  <2> QED BY <1>4, <2>1, <2>2, EndContext DEF Goal
<1>7. CASE Schedule
  BY <1>4, <1>7, DispatchContext DEF Schedule, Dispatch, AtTaskLevel, Goal
<1>8. ASSUME NEW res \in ResourceType, GetResource(res) \/ ReleaseResource(res) PROVE Goal
  <2>1. CASE GetResource(res)
    BY <1>4, <2>1 DEF GetResource, Rested
  <2>2. CASE ReleaseResource(res)
    BY <1>4, <2>2, DispatchContext DEF ReleaseResource, Dispatch, AtTaskLevel, Rested
  <2> QED BY <1>8, <2>1, <2>2
<1>9. ASSUME NEW t \in ExtTask, NEW mask \in Mask, SetEvent(t, mask) PROVE Goal
  BY <1>4, <1>9, IfBetterContext DEF SetEvent, Rested
<1>10. ASSUME NEW mask \in Mask, ClearEvent(mask) \/ WaitEvent(mask) PROVE Goal
  <2>1. CASE ClearEvent(mask)
    BY <1>4, <2>1 DEF ClearEvent, Rested
  <2>2. CASE WaitEvent(mask)
    BY <1>4, <2>2, DispatchContext DEF WaitEvent, Dispatch, AtTaskLevel
  <2> QED BY <1>10, <2>1, <2>2
<1> QED BY <1>1, <1>2, <1>3, <1>5, <1>6, <1>7, <1>8, <1>9, <1>10 DEF Service, Goal

--------------------------------------------------------------------------------
\* Where the stack does not change, neither do the frames below the innermost.
LEMMA BelowKept ==
  ASSUME StackTypes, UNCHANGED <<isrstk, entrycnt>>
  PROVE  \A k \in 0 .. Len(isrstk) :
           k # Len(isrstk) =>
             LevelAt(k)' = LevelAt(k) /\ AllAt(k)' = AllAt(k) /\ OsAt(k)' = OsAt(k)
BY DEF LevelAt, AllAt, OsAt

\* A service keeps the counts and leaves each frame at its level.
LEMMA ServiceKeeps ==
  ASSUME SectionInv, Service, UNCHANGED suspend
  PROVE  SectionInv'
<1> DEFINE n == Len(isrstk)
<1>1. StackTypes /\ n \in Nat /\ \A k \in 0 .. n : AllAt(k) \in Nat /\ OsAt(k) \in Nat
  BY NestTypes DEF SectionInv
<1>2. /\ UNCHANGED <<isrstk, runisr>> /\ boot' \in Int
      /\ \/ Rested /\ boot' = boot
         \/ Rested /\ boot # tnum_task + 1 /\ boot' # tnum_task + 1
         \/ Redispatched /\ boot' = tnum_task + 1
  BY ServiceContext DEF SectionInv
<1>3. \A k : AllAt(k)' = AllAt(k) /\ OsAt(k)' = OsAt(k) /\ NestAt(k)' = NestAt(k)
  BY <1>2 DEF suspend, AllAt, OsAt, NestAt
<1>4. CountsGrow'
  BY <1>2, <1>3 DEF SectionInv, CountsGrow
<1>5. StackTypes'
  <2>1. callevel' \in CallLevel
    BY <1>1, <1>2 DEF Rested, Redispatched, Outer, StackTypes, CallLevel
  <2> QED BY <1>1, <1>2, <2>1 DEF StackTypes, suspend
<1>6. CASE Rested /\ boot' = boot
  <2>1. \A k : LevelAt(k)' = LevelAt(k) /\ Proper(k)' = Proper(k) /\ Begins(k)' = Begins(k)
    BY <1>2, <1>3, <1>6 DEF LevelAt, Proper, Outer, Begins, Rested
  <2>2. LevelsKnown' <=> LevelsKnown
    BY <1>2, <2>1 DEF LevelsKnown, suspend
  <2> QED BY <1>2, <1>3, <1>4, <1>5, <1>6, <2>2 DEF SectionInv, suspend, Rested
<1>7. CASE Rested /\ boot # tnum_task + 1 /\ boot' # tnum_task + 1
  BY <1>2, <1>3, <1>4, <1>5, <1>7 DEF SectionInv, suspend, Rested
<1>8. CASE Redispatched /\ boot' = tnum_task + 1
  <2>1. n = 0 /\ NestAt(0) = 0
    <3>1. CASE isrstk = << >> /\ runtsk = TSKID_NULL
      BY <3>1 DEF SectionInv
    <3>2. CASE callevel = "TCL_TASK"
      <4>1. LevelsKnown
        BY <3>2 DEF SectionInv
      <4>2. LevelAt(n) = "TCL_TASK" /\ n \in 0 .. n
        BY <1>1, <3>2 DEF LevelAt
      <4>3. ~Begins(n) /\ n = 0
        BY <1>1, <4>1, <4>2 DEF LevelsKnown, Proper
      <4>4. NestAt(0) \in Nat
        BY <1>1, <4>3 DEF NestAt
      <4> HIDE DEF n
      <4> QED BY <4>3, <4>4 DEF Begins
    <3> QED BY <1>8, <3>1, <3>2 DEF Redispatched
  <2>2. LevelAt(0)' = Proper(0)' /\ ~Begins(0)'
    BY <1>2, <1>3, <1>8, <2>1 DEF LevelAt, Proper, Begins, Redispatched
  <2>3. LevelsKnown'
    BY <1>2, <2>1, <2>2 DEF LevelsKnown
  <2> QED BY <1>2, <1>3, <1>4, <1>5, <1>8, <2>1, <2>3 DEF SectionInv
<1> QED BY <1>2, <1>6, <1>7, <1>8

--------------------------------------------------------------------------------
\* A Suspend or a Resume changes the innermost frame and no other.
LEMMA TopChanges ==
  ASSUME SectionInv, boot = tnum_task + 1, OthersKept, sus_all_cnt' \in Nat, sus_os_cnt' \in Nat,
         callevel' \in CallLevel, NEW n, n = Len(isrstk),
         n > 0 => sus_all_cnt' >= AllAt(n - 1) /\ sus_os_cnt' >= OsAt(n - 1),
         n = 0 => runtsk # TSKID_NULL,
         callevel' = IF Begins(n)' THEN "TCL_NULL" ELSE Proper(n),
         Begins(n)' => saved_callevel' = Proper(n),
         saved_callevel' = saved_callevel \/ NestAt(n) = 0
  PROVE  SectionInv'
<1>1. StackTypes /\ n \in Nat /\ \A k \in 0 .. n : AllAt(k) \in Nat /\ OsAt(k) \in Nat
  BY NestTypes DEF SectionInv
<1>2. UNCHANGED <<isrstk, entrycnt, runtsk, boot, runisr>>
  BY DEF OthersKept, cpu
<1>3. StackTypes'
  BY <1>1, <1>2 DEF StackTypes
<1>4. /\ \A k \in 0 .. n : k # n => /\ LevelAt(k)' = LevelAt(k)
                                   /\ AllAt(k)' = AllAt(k) /\ OsAt(k)' = OsAt(k)
                                   /\ NestAt(k)' = NestAt(k)
      /\ LevelAt(n)' = callevel' /\ AllAt(n)' = sus_all_cnt' /\ OsAt(n)' = sus_os_cnt'
  BY <1>1, <1>2 DEF LevelAt, AllAt, OsAt, NestAt
<1>5. \A k : Proper(k)' = Proper(k)
  BY <1>2 DEF Proper, Outer
<1>6. CountsGrow'
  <2> SUFFICES ASSUME NEW k \in 0 .. n, NEW j \in 0 .. k
               PROVE  AllAt(j)' <= AllAt(k)' /\ OsAt(j)' <= OsAt(k)'
    BY <1>2 DEF CountsGrow
  <2>1. AllAt(j) <= AllAt(k) /\ OsAt(j) <= OsAt(k)
    BY DEF SectionInv, CountsGrow
  <2>2. CASE k # n
    BY <1>1, <1>4, <2>1, <2>2
  <2>3. CASE k = n /\ j = n
    BY <1>4, <2>3
  <2>4. CASE k = n /\ j # n
    <3>1. n - 1 \in 0 .. n /\ j \in 0 .. n - 1 /\ n > 0
      BY <1>1, <2>4
    <3>2. AllAt(j) <= AllAt(n - 1) /\ OsAt(j) <= OsAt(n - 1)
      BY <3>1 DEF SectionInv, CountsGrow
    <3>3. sus_all_cnt' >= AllAt(n - 1) /\ sus_os_cnt' >= OsAt(n - 1)
      BY <3>1
    <3>4. /\ AllAt(j) \in Nat /\ OsAt(j) \in Nat /\ AllAt(n - 1) \in Nat /\ OsAt(n - 1) \in Nat
          /\ AllAt(j)' = AllAt(j) /\ OsAt(j)' = OsAt(j)
      BY <1>1, <1>4, <2>4, <3>1
    <3>5. AllAt(k)' = sus_all_cnt' /\ OsAt(k)' = sus_os_cnt'
      BY <1>4, <2>4
    <3> QED BY <3>2, <3>3, <3>4, <3>5
  <2> QED BY <2>2, <2>3, <2>4
<1>7. LevelsKnown'
  <2> SUFFICES ASSUME NEW k \in 0 .. n
               PROVE  /\ LevelAt(k)' = IF Begins(k)' THEN "TCL_NULL" ELSE Proper(k)
                      /\ Begins(k)' => saved_callevel' = Proper(k)
    BY <1>2, <1>5 DEF LevelsKnown
  <2>1. CASE k = n
    BY <1>4, <2>1
  <2>2. CASE k # n
    <3>1. k - 1 # n /\ (k # 0 => k - 1 \in 0 .. n)
      BY <1>1, <2>2
    <3>2. Begins(k)' = Begins(k)
      BY <1>4, <2>2, <3>1 DEF Begins
    <3>3. LevelAt(k) = (IF Begins(k) THEN "TCL_NULL" ELSE Proper(k))
            /\ (Begins(k) => saved_callevel = Proper(k))
      BY DEF SectionInv, LevelsKnown
    <3>4. Begins(k) => NestAt(n) # 0
      <4>1. AllAt(k) <= AllAt(n) /\ OsAt(k) <= OsAt(n) /\ n \in 0 .. n
        BY <1>1, <2>2 DEF SectionInv, CountsGrow
      <4>2. AllAt(k) \in Nat /\ OsAt(k) \in Nat /\ AllAt(n) \in Nat /\ OsAt(n) \in Nat
        BY <1>1
      <4> QED BY <4>1, <4>2 DEF Begins, NestAt
    <3> QED BY <1>4, <2>2, <3>2, <3>3, <3>4
  <2> QED BY <2>1, <2>2
<1>8. runtsk' = TSKID_NULL => NestAt(0)' = 0
  <2>1. n # 0 => NestAt(0)' = NestAt(0)
    BY <1>1, <1>4
  <2> QED BY <1>2, <2>1 DEF SectionInv
<1> QED BY <1>2, <1>3, <1>6, <1>7, <1>8 DEF SectionInv

\* The counts of the frame below bound those the innermost may come down to.
LEMMA EntryIsBelow ==
  ASSUME StackTypes, NEW n, n = Len(isrstk)
  PROVE  /\ n = 0 => Entry(1) = 0 /\ Entry(2) = 0
         /\ n > 0 => Entry(1) = AllAt(n - 1) /\ Entry(2) = OsAt(n - 1)
<1>1. n \in Nat /\ Len(entrycnt) = n /\ (n = 0 <=> entrycnt = << >>)
  BY DEF StackTypes
<1>2. n > 0 => n - 1 # n /\ n - 1 + 1 = n
  BY <1>1
<1> QED BY <1>1, <1>2 DEF Entry, AllAt, OsAt

\* What is known of the innermost frame before its counts change.
LEMMA TopFacts ==
  ASSUME SectionInv, boot = tnum_task + 1, NEW n, n = Len(isrstk)
  PROVE  /\ n \in Nat /\ AllAt(n) = sus_all_cnt /\ OsAt(n) = sus_os_cnt
         /\ callevel = IF Begins(n) THEN "TCL_NULL" ELSE Proper(n)
         /\ Begins(n) => saved_callevel = Proper(n)
         /\ n > 0 => /\ sus_all_cnt >= AllAt(n - 1) /\ sus_os_cnt >= OsAt(n - 1)
                     /\ AllAt(n - 1) \in Nat /\ OsAt(n - 1) \in Nat
         /\ sus_all_cnt \in Nat /\ sus_os_cnt \in Nat /\ Proper(n) \in CallLevel
<1>1. StackTypes /\ n \in Nat /\ \A k \in 0 .. n : AllAt(k) \in Nat /\ OsAt(k) \in Nat
  BY NestTypes DEF SectionInv
<1>2. AllAt(n) = sus_all_cnt /\ OsAt(n) = sus_os_cnt /\ LevelAt(n) = callevel
  BY DEF AllAt, OsAt, LevelAt
<1>3. n \in 0 .. n /\ (n > 0 => n - 1 \in 0 .. n)
  BY <1>1
<1>4. callevel = (IF Begins(n) THEN "TCL_NULL" ELSE Proper(n))
        /\ (Begins(n) => saved_callevel = Proper(n))
  BY <1>2, <1>3 DEF SectionInv, LevelsKnown
<1>5. n > 0 => AllAt(n - 1) <= AllAt(n) /\ OsAt(n - 1) <= OsAt(n)
  BY <1>3 DEF SectionInv, CountsGrow
<1> QED BY <1>1, <1>2, <1>3, <1>4, <1>5 DEF Proper, Outer, CallLevel, StackTypes

\* The first Suspend of a frame whose counts are zero begins a section; any other is within one.
LEMMA SuspendKeeps ==
  ASSUME SectionInv, Runs, OthersKept, SaveLevel,
         \/ sus_all_cnt' = sus_all_cnt + 1 /\ sus_os_cnt' = sus_os_cnt
         \/ sus_os_cnt' = sus_os_cnt + 1 /\ sus_all_cnt' = sus_all_cnt
  PROVE  SectionInv'
<1> DEFINE n == Len(isrstk)
<1>1. boot = tnum_task + 1 /\ StackTypes
  BY DEF Runs, SectionInv
<1>2. PICK m : m = n
  OBVIOUS
<1> HIDE DEF n
<1>3. /\ m \in Nat /\ AllAt(m) = sus_all_cnt /\ OsAt(m) = sus_os_cnt
      /\ callevel = IF Begins(m) THEN "TCL_NULL" ELSE Proper(m)
      /\ Begins(m) => saved_callevel = Proper(m)
      /\ m > 0 => /\ sus_all_cnt >= AllAt(m - 1) /\ sus_os_cnt >= OsAt(m - 1)
                  /\ AllAt(m - 1) \in Nat /\ OsAt(m - 1) \in Nat
      /\ sus_all_cnt \in Nat /\ sus_os_cnt \in Nat /\ Proper(m) \in CallLevel
  BY <1>1, <1>2, TopFacts DEF n
<1>4. /\ NestAt(m)' = sus_all_cnt' + sus_os_cnt' /\ NestAt(m)' > 0
      /\ m > 0 => NestAt(m - 1)' = NestAt(m - 1)
  <2>1. isrstk' = isrstk /\ entrycnt' = entrycnt
    BY DEF OthersKept, cpu
  <2>2. NestAt(m)' = sus_all_cnt' + sus_os_cnt'
    BY <1>2, <2>1 DEF NestAt, AllAt, OsAt, n
  <2>3. m > 0 => NestAt(m - 1)' = NestAt(m - 1)
    BY <1>2, <1>3, <2>1 DEF NestAt, AllAt, OsAt, n
  <2> QED BY <1>3, <2>2, <2>3
<1>5. m > 0 => (NestAt(m) = 0 => NestAt(m - 1) = 0)
  BY <1>3 DEF NestAt
<1>6. NestAt(m) = sus_all_cnt + sus_os_cnt
  BY <1>3 DEF NestAt
<1>7. Begins(m)' <=> (m = 0 \/ NestAt(m - 1) = 0)
  BY <1>3, <1>4 DEF Begins
<1>8. /\ callevel' = IF Begins(m)' THEN "TCL_NULL" ELSE Proper(m)
      /\ Begins(m)' => saved_callevel' = Proper(m)
      /\ saved_callevel' = saved_callevel \/ NestAt(m) = 0
  <2>1. CASE NestAt(m) = 0
    <3>1. ~Begins(m) /\ Begins(m)'
      BY <1>3, <1>5, <1>7, <2>1 DEF Begins
    <3>2. saved_callevel' = callevel /\ callevel' = "TCL_NULL"
      BY <1>6, <2>1 DEF SaveLevel
    <3> QED BY <1>3, <2>1, <3>1, <3>2
  <2>2. CASE NestAt(m) # 0
    <3>1. Begins(m)' <=> Begins(m)
      BY <1>3, <1>6, <1>7, <2>2 DEF Begins
    <3>2. saved_callevel' = saved_callevel /\ callevel' = callevel
      BY <1>6, <2>2 DEF SaveLevel
    <3> QED BY <1>3, <3>1, <3>2
  <2> QED BY <2>1, <2>2
<1>9. m = 0 => runtsk # TSKID_NULL
  <2>1. m = 0 => isrstk = << >>
    <3>1. isrstk \in Seq(Frame) /\ m = Len(isrstk)
      BY <1>1, <1>2 DEF StackTypes, n
    <3> QED BY <3>1, EmptyStack
  <2> QED BY <2>1 DEF Runs
<1>10. sus_all_cnt' \in Nat /\ sus_os_cnt' \in Nat /\ sus_all_cnt' >= sus_all_cnt
         /\ sus_os_cnt' >= sus_os_cnt
  BY <1>3
<1>11. callevel' \in CallLevel
  BY <1>3, <1>8 DEF CallLevel
<1>12. m > 0 => sus_all_cnt' >= AllAt(m - 1) /\ sus_os_cnt' >= OsAt(m - 1)
  BY <1>3, <1>10
<1> QED BY <1>1, <1>2, <1>8, <1>9, <1>10, <1>11, <1>12, TopChanges DEF n

\* The last Resume of the frame that began the section gives the saved level back; a Resume in a
\* handler that was entered within a section ends nothing.
LEMMA ResumeKeeps ==
  ASSUME SectionInv, Runs, OthersKept, UNCHANGED saved_callevel,
         \/ /\ sus_all_cnt > Entry(1) /\ sus_all_cnt' = sus_all_cnt - 1 /\ sus_os_cnt' = sus_os_cnt
            /\ callevel' = IF sus_all_cnt = 1 THEN LevelResumed(callevel) ELSE callevel
         \/ /\ sus_os_cnt > Entry(2) /\ sus_os_cnt' = sus_os_cnt - 1 /\ sus_all_cnt' = sus_all_cnt
            /\ callevel' = IF sus_os_cnt = 1 THEN LevelResumed(callevel) ELSE callevel
  PROVE  SectionInv'
<1> DEFINE n == Len(isrstk)
<1>1. boot = tnum_task + 1 /\ StackTypes
  BY DEF Runs, SectionInv
<1>2. PICK m : m = n
  OBVIOUS
<1> HIDE DEF n
<1>3. /\ m \in Nat /\ AllAt(m) = sus_all_cnt /\ OsAt(m) = sus_os_cnt
      /\ callevel = IF Begins(m) THEN "TCL_NULL" ELSE Proper(m)
      /\ Begins(m) => saved_callevel = Proper(m)
      /\ m > 0 => /\ sus_all_cnt >= AllAt(m - 1) /\ sus_os_cnt >= OsAt(m - 1)
                  /\ AllAt(m - 1) \in Nat /\ OsAt(m - 1) \in Nat
      /\ sus_all_cnt \in Nat /\ sus_os_cnt \in Nat /\ Proper(m) \in CallLevel
  BY <1>1, <1>2, TopFacts DEF n
<1>4. /\ m = 0 => Entry(1) = 0 /\ Entry(2) = 0
      /\ m > 0 => Entry(1) = AllAt(m - 1) /\ Entry(2) = OsAt(m - 1)
  BY <1>1, <1>2, EntryIsBelow DEF n
<1>5. /\ NestAt(m)' = sus_all_cnt' + sus_os_cnt'
      /\ m > 0 => NestAt(m - 1)' = NestAt(m - 1)
  <2>1. isrstk' = isrstk /\ entrycnt' = entrycnt
    BY DEF OthersKept, cpu
  <2>2. NestAt(m)' = sus_all_cnt' + sus_os_cnt'
    BY <1>2, <2>1 DEF NestAt, AllAt, OsAt, n
  <2>3. m > 0 => NestAt(m - 1)' = NestAt(m - 1)
    BY <1>2, <1>3, <2>1 DEF NestAt, AllAt, OsAt, n
  <2> QED BY <2>2, <2>3
<1>6. NestAt(m) = sus_all_cnt + sus_os_cnt
        /\ (m > 0 => NestAt(m - 1) = AllAt(m - 1) + OsAt(m - 1))
  BY <1>3 DEF NestAt
<1>7. /\ sus_all_cnt' \in Nat /\ sus_os_cnt' \in Nat
      /\ NestAt(m) > 0 /\ NestAt(m)' = NestAt(m) - 1
      /\ m > 0 => sus_all_cnt' >= AllAt(m - 1) /\ sus_os_cnt' >= OsAt(m - 1)
      /\ m > 0 => NestAt(m)' >= NestAt(m - 1) /\ NestAt(m - 1) \in Nat
  BY <1>3, <1>4, <1>5, <1>6
<1>8. NestAt(m)' > 0 => (Begins(m)' <=> Begins(m)) /\ callevel' = callevel
  <2>1. NestAt(m)' > 0 => (Begins(m)' <=> Begins(m))
    <3>1. CASE m = 0
      BY <1>7, <3>1 DEF Begins
    <3>2. CASE m # 0
      <4>1. NestAt(m - 1)' = NestAt(m - 1)
        BY <1>3, <1>5, <3>2
      <4> QED BY <1>7, <3>2, <4>1 DEF Begins
    <3> QED BY <3>1, <3>2
  <2>2. NestAt(m)' > 0 => callevel' = callevel
    BY <1>3, <1>6, <1>7 DEF LevelResumed
  <2> QED BY <2>1, <2>2
<1>9. ~(NestAt(m)' > 0) => Begins(m) /\ ~Begins(m)' /\ callevel' = saved_callevel
  <2> SUFFICES ASSUME ~(NestAt(m)' > 0)
               PROVE  Begins(m) /\ ~Begins(m)' /\ callevel' = saved_callevel
    OBVIOUS
  <2>1. NestAt(m)' = 0 /\ NestAt(m) = 1
    BY <1>3, <1>6, <1>7
  <2>2. m > 0 => NestAt(m - 1) = 0
    BY <1>7, <2>1
  <2>3. Begins(m) /\ ~Begins(m)'
    BY <1>3, <2>1, <2>2 DEF Begins
  <2>4. sus_all_cnt + sus_os_cnt = 1
    BY <1>6, <2>1
  <2>5. callevel' = LevelResumed(callevel)
    BY <1>3, <1>4, <2>4
  <2> QED BY <2>3, <2>4, <2>5 DEF LevelResumed
<1>10. /\ callevel' = IF Begins(m)' THEN "TCL_NULL" ELSE Proper(m)
       /\ Begins(m)' => saved_callevel' = Proper(m)
  BY <1>3, <1>8, <1>9
<1>11. m = 0 => runtsk # TSKID_NULL
  <2>1. m = 0 => isrstk = << >>
    <3>1. isrstk \in Seq(Frame) /\ m = Len(isrstk)
      BY <1>1, <1>2 DEF StackTypes, n
    <3> QED BY <3>1, EmptyStack
  <2> QED BY <2>1 DEF Runs
<1>12. callevel' \in CallLevel
  BY <1>3, <1>10 DEF CallLevel
<1> QED BY <1>1, <1>2, <1>7, <1>10, <1>11, <1>12, TopChanges DEF n

--------------------------------------------------------------------------------
LEMMA Pushed ==
  ASSUME NEW S, NEW s \in Seq(S), NEW e \in S
  PROVE  /\ Append(s, e) \in Seq(S) /\ Len(Append(s, e)) = Len(s) + 1
         /\ Append(s, e)[Len(s) + 1] = e
         /\ \A k \in 0 .. Len(s) : k # Len(s) => Append(s, e)[k + 1] = s[k + 1]
OBVIOUS

LEMMA Popped ==
  ASSUME NEW S, NEW s \in Seq(S), s # << >>, NEW p, p = SubSeq(s, 1, Len(s) - 1),
         NEW n, n = Len(s) - 1
  PROVE  /\ p \in Seq(S) /\ Len(p) = n
         /\ \A k \in 0 .. n : k # n => p[k + 1] = s[k + 1]
<1>1. Len(s) \in Nat /\ 1 <= Len(s) /\ \A j \in 1 .. Len(s) - 1 : s[j] \in S
  OBVIOUS
<1>2. p = [j \in 1 .. Len(s) - 1 |-> s[j]]
  BY <1>1
<1>3. p \in Seq(S)
  BY <1>1, <1>2
<1>4. DOMAIN p = 1 .. Len(s) - 1 /\ \A j \in 1 .. Len(s) - 1 : p[j] = s[j]
  BY <1>2
<1>5. Len(p) = Len(s) - 1
  <2>1. Len(s) - 1 \in Nat
    BY <1>1
  <2>2. ASSUME NEW q \in Seq(S), NEW m \in Nat, DOMAIN q = 1 .. m PROVE Len(q) = m
    BY <2>2
  <2> QED BY <1>3, <1>4, <2>1, <2>2
<1>6. \A k \in 0 .. Len(s) - 1 : k # Len(s) - 1 => k + 1 \in 1 .. Len(s) - 1
  BY <1>1
<1> QED BY <1>3, <1>4, <1>5, <1>6

\* A handler is a frame above the others, which begins no section by being entered in one.
LEMMA EnterKeeps ==
  ASSUME SectionInv, NEW i \in IsrType, EnterHandler(i)
  PROVE  SectionInv'
<1>1. PICK n : n = Len(isrstk)
  OBVIOUS
<1>2. PICK f : f = [callevel |-> callevel, runisr |-> runisr]
  OBVIOUS
<1>3. PICK c : c = <<sus_all_cnt, sus_os_cnt>>
  OBVIOUS
<1>4. StackTypes /\ n \in Nat /\ \A k \in 0 .. n : AllAt(k) \in Nat /\ OsAt(k) \in Nat
  BY <1>1, NestTypes DEF SectionInv
<1>5. /\ boot = tnum_task + 1 /\ isrstk' = Append(isrstk, f) /\ entrycnt' = Append(entrycnt, c)
      /\ callevel' = "TCL_ISR2" /\ runisr' = i
      /\ UNCHANGED <<runtsk, boot, sus_all_cnt, sus_os_cnt, saved_callevel>>
  BY <1>2, <1>3 DEF EnterHandler, Interrupt
<1>6. f \in Frame /\ f.callevel = callevel
  BY <1>2, <1>4 DEF StackTypes, Frame
<1>7. c \in Nat \X Nat /\ c[1] = sus_all_cnt /\ c[2] = sus_os_cnt
  BY <1>3, <1>4 DEF StackTypes
<1>8. /\ isrstk' \in Seq(Frame) /\ Len(isrstk') = n + 1 /\ isrstk'[n + 1] = f
      /\ \A k \in 0 .. n : k # n => isrstk'[k + 1] = isrstk[k + 1]
  <2>1. isrstk \in Seq(Frame)
    BY <1>4 DEF StackTypes
  <2> QED BY <1>1, <1>4, <1>5, <1>6, <2>1, Pushed
<1>9. /\ entrycnt' \in Seq(Nat \X Nat) /\ Len(entrycnt') = n + 1 /\ entrycnt'[n + 1] = c
      /\ \A k \in 0 .. n : k # n => entrycnt'[k + 1] = entrycnt[k + 1]
  <2>1. entrycnt \in Seq(Nat \X Nat) /\ Len(entrycnt) = n
    BY <1>1, <1>4 DEF StackTypes
  <2>2. PICK C, e, d : C = Nat \X Nat /\ e = entrycnt /\ d = entrycnt'
    OBVIOUS
  <2>3. e \in Seq(C) /\ Len(e) = n /\ c \in C /\ d = Append(e, c)
    BY <1>5, <1>7, <2>1, <2>2
  <2>4. d \in Seq(C) /\ Len(d) = n + 1 /\ d[n + 1] = c
        /\ \A k \in 0 .. n : k # n => d[k + 1] = e[k + 1]
    BY <1>4, <2>3, Pushed
  <2> QED BY <2>2, <2>4
<1>10. StackTypes'
  BY <1>4, <1>5, <1>8, <1>9 DEF StackTypes, CallLevel
<1>11. \A k \in 0 .. n : LevelAt(k)' = LevelAt(k) /\ AllAt(k)' = AllAt(k) /\ OsAt(k)' = OsAt(k)
  <2> SUFFICES ASSUME NEW k \in 0 .. n
               PROVE  LevelAt(k)' = LevelAt(k) /\ AllAt(k)' = AllAt(k) /\ OsAt(k)' = OsAt(k)
    OBVIOUS
  <2>1. k # n + 1
    BY <1>4
  <2>2. CASE k = n
    BY <1>1, <1>6, <1>7, <1>8, <1>9, <2>1, <2>2 DEF LevelAt, AllAt, OsAt
  <2>3. CASE k # n
    BY <1>1, <1>8, <1>9, <2>1, <2>3 DEF LevelAt, AllAt, OsAt
  <2> QED BY <2>2, <2>3
<1>12. /\ LevelAt(n + 1)' = "TCL_ISR2" /\ AllAt(n + 1)' = AllAt(n) /\ OsAt(n + 1)' = OsAt(n)
  BY <1>1, <1>5, <1>8, <1>9 DEF LevelAt, AllAt, OsAt
<1>13. (\A k \in 0 .. n : NestAt(k)' = NestAt(k)) /\ NestAt(n + 1)' = NestAt(n)
  BY <1>11, <1>12 DEF NestAt
<1>14. \A k \in 0 .. n : (Begins(k)' <=> Begins(k)) /\ Proper(k)' = Proper(k)
  <2> SUFFICES ASSUME NEW k \in 0 .. n PROVE (Begins(k)' <=> Begins(k)) /\ Proper(k)' = Proper(k)
    OBVIOUS
  <2>1. k # 0 => k - 1 \in 0 .. n
    BY <1>4
  <2>2. k # 0 => NestAt(k - 1)' = NestAt(k - 1)
    BY <1>13, <2>1
  <2>3. NestAt(k)' = NestAt(k)
    BY <1>13
  <2> QED BY <1>5, <2>2, <2>3 DEF Begins, Proper, Outer
<1>15. ~Begins(n + 1)' /\ Proper(n + 1)' = "TCL_ISR2"
  <2>1. n + 1 # 0 /\ n + 1 - 1 = n /\ n \in 0 .. n
    BY <1>4
  <2>2. NestAt(n + 1)' = NestAt(n) /\ NestAt(n)' = NestAt(n)
    BY <1>13, <2>1
  <2>3. Proper(n + 1)' = "TCL_ISR2"
    BY <2>1 DEF Proper
  <2>4. ~Begins(n + 1)'
    BY <1>4, <2>1, <2>2 DEF Begins
  <2> QED BY <2>3, <2>4
<1>16. LevelsKnown'
  <2> SUFFICES ASSUME NEW k \in 0 .. n + 1
               PROVE  /\ LevelAt(k)' = IF Begins(k)' THEN "TCL_NULL" ELSE Proper(k)'
                      /\ Begins(k)' => saved_callevel' = Proper(k)'
    BY <1>8 DEF LevelsKnown
  <2>1. CASE k = n + 1
    BY <1>12, <1>15, <2>1
  <2>2. CASE k # n + 1
    <3>1. k \in 0 .. n
      BY <1>4, <2>2
    <3>2. /\ LevelAt(k) = IF Begins(k) THEN "TCL_NULL" ELSE Proper(k)
          /\ Begins(k) => saved_callevel = Proper(k)
      BY <1>1, <1>5, <3>1 DEF SectionInv, LevelsKnown
    <3> QED BY <1>5, <1>11, <1>14, <3>1, <3>2
  <2> QED BY <2>1, <2>2
<1>17. CountsGrow'
  <2> SUFFICES ASSUME NEW k \in 0 .. n + 1, NEW j \in 0 .. k
               PROVE  AllAt(j)' <= AllAt(k)' /\ OsAt(j)' <= OsAt(k)'
    BY <1>8 DEF CountsGrow
  <2>1. CASE k \in 0 .. n
    <3>1. j \in 0 .. n
      BY <1>4, <2>1
    <3> QED BY <1>1, <1>11, <2>1, <3>1 DEF SectionInv, CountsGrow
  <2>2. CASE k = n + 1 /\ j \in 0 .. n
    <3>1. n \in 0 .. n
      BY <1>4
    <3>2. AllAt(j) <= AllAt(n) /\ OsAt(j) <= OsAt(n)
      BY <1>1, <2>2, <3>1 DEF SectionInv, CountsGrow
    <3> QED BY <1>11, <1>12, <2>2, <3>2
  <2>3. CASE k = n + 1 /\ j = n + 1
    <3>1. n \in 0 .. n
      BY <1>4
    <3>2. AllAt(n) \in Nat /\ OsAt(n) \in Nat
      BY <1>4, <3>1
    <3> QED BY <1>12, <2>3, <3>2
  <2> QED BY <1>4, <2>1, <2>2, <2>3
<1>18. runtsk' = TSKID_NULL => NestAt(0)' = 0
  <2>1. 0 \in 0 .. n
    BY <1>4
  <2> QED BY <1>5, <1>13, <2>1 DEF SectionInv
<1> QED BY <1>5, <1>10, <1>16, <1>17, <1>18 DEF SectionInv

\* A handler that leaves gives back the counts it found, so that what it interrupted is as before;
\* another task is dispatched only where that was a task outside its sections.
LEMMA LeaveKeeps ==
  ASSUME SectionInv, LeaveHandler
  PROVE  SectionInv'
<1>1. PICK n : n = Len(isrstk) - 1
  OBVIOUS
<1>2. /\ StackTypes /\ isrstk # << >>
      /\ \A k \in 0 .. Len(isrstk) : AllAt(k) \in Nat /\ OsAt(k) \in Nat
  BY NestTypes DEF SectionInv, LeaveHandler
<1>3. n \in Nat /\ Len(isrstk) = n + 1 /\ Len(entrycnt) = n + 1 /\ entrycnt # << >>
  BY <1>1, <1>2 DEF StackTypes
<1>4. PICK top : top = isrstk[n + 1]
  OBVIOUS
<1>5. /\ isrstk' = SubSeq(isrstk, 1, Len(isrstk) - 1) /\ runisr' = top.runisr
      /\ entrycnt' = SubSeq(entrycnt, 1, Len(entrycnt) - 1)
      /\ \/ /\ top.callevel = "TCL_TASK"
            /\ \E conts : StartDispatch(rdy, tcb_curpri, conts)
         \/ callevel' = top.callevel /\ UNCHANGED runtsk
      /\ UNCHANGED <<boot, sus_all_cnt, sus_os_cnt, saved_callevel>>
      /\ sus_all_cnt = entrycnt[n + 1][1] /\ sus_os_cnt = entrycnt[n + 1][2]
  <2>1. InterruptReturn /\ sus_all_cnt = Entry(1) /\ sus_os_cnt = Entry(2)
    BY DEF LeaveHandler
  <2>2. Entry(1) = entrycnt[n + 1][1] /\ Entry(2) = entrycnt[n + 1][2]
    BY <1>3 DEF Entry
  <2>3. isrstk[Len(isrstk)] = top
    BY <1>3, <1>4
  <2>4. \/ /\ top.callevel = "TCL_TASK"
           /\ \E conts : StartDispatch(rdy, tcb_curpri, conts)
        \/ callevel' = top.callevel /\ UNCHANGED runtsk
    BY <2>1, <2>3 DEF InterruptReturn, PreemptsOnReturn, Dispatch
  <2> QED BY <2>1, <2>2, <2>3, <2>4 DEF InterruptReturn, LeaveHandler
<1>6. /\ isrstk' \in Seq(Frame) /\ Len(isrstk') = n
      /\ \A k \in 0 .. n : k # n => isrstk'[k + 1] = isrstk[k + 1]
  <2>1. Len(isrstk) - 1 = n /\ isrstk \in Seq(Frame)
    BY <1>2, <1>3 DEF StackTypes
  <2> QED BY <1>2, <1>5, <2>1, Popped
<1>7. /\ entrycnt' \in Seq(Nat \X Nat) /\ Len(entrycnt') = n
      /\ \A k \in 0 .. n : k # n => entrycnt'[k + 1] = entrycnt[k + 1]
  <2>1. Len(entrycnt) - 1 = n /\ entrycnt \in Seq(Nat \X Nat)
    BY <1>2, <1>3 DEF StackTypes
  <2> QED BY <1>3, <1>5, <2>1, Popped
<1>8. boot = tnum_task + 1 /\ LevelsKnown /\ CountsGrow
  BY <1>2 DEF SectionInv
<1>9. n \in 0 .. n + 1 /\ n # n + 1 /\ \A k \in 0 .. n : k \in 0 .. n + 1 /\ k # n + 1
  BY <1>3
<1>10. \A k \in 0 .. n : AllAt(k)' = AllAt(k) /\ OsAt(k)' = OsAt(k) /\ NestAt(k)' = NestAt(k)
  <2> SUFFICES ASSUME NEW k \in 0 .. n PROVE AllAt(k)' = AllAt(k) /\ OsAt(k)' = OsAt(k)
    BY DEF NestAt
  <2>1. CASE k = n
    BY <1>3, <1>5, <1>6, <1>9, <2>1 DEF AllAt, OsAt
  <2>2. CASE k # n
    BY <1>3, <1>6, <1>7, <1>9, <2>2 DEF AllAt, OsAt
  <2> QED BY <2>1, <2>2
<1>11. (\A k \in 0 .. n : k # n => LevelAt(k)' = LevelAt(k)) /\ LevelAt(n) = top.callevel
  BY <1>3, <1>4, <1>6, <1>9 DEF LevelAt
<1>12. \A k \in 0 .. n : Begins(k)' <=> Begins(k)
  <2> SUFFICES ASSUME NEW k \in 0 .. n PROVE Begins(k)' <=> Begins(k)
    OBVIOUS
  <2>1. k # 0 => k - 1 \in 0 .. n
    BY <1>3
  <2>2. k # 0 => NestAt(k - 1)' = NestAt(k - 1)
    BY <1>10, <2>1
  <2>3. NestAt(k)' = NestAt(k)
    BY <1>10
  <2> QED BY <2>2, <2>3 DEF Begins
<1>13. top.callevel = IF Begins(n) THEN "TCL_NULL" ELSE Proper(n)
  BY <1>3, <1>8, <1>9, <1>11 DEF LevelsKnown
<1>14. /\ callevel' = IF Begins(n) THEN "TCL_NULL" ELSE Proper(n)'
       /\ \A k \in 0 .. n : Begins(k) => Proper(k)' = Proper(k)
       /\ \A k \in 0 .. n : k # n => Proper(k)' = Proper(k)
       /\ runtsk' = TSKID_NULL => NestAt(0) = 0
  <2>1. CASE callevel' = top.callevel /\ UNCHANGED runtsk
    <3>1. \A k \in 0 .. n : Proper(k)' = Proper(k)
      BY <2>1 DEF Proper, Outer
    <3> QED BY <1>9, <1>13, <2>1, <3>1 DEF SectionInv
  <2>2. CASE top.callevel = "TCL_TASK" /\ \E conts : StartDispatch(rdy, tcb_curpri, conts)
    <3>1. callevel' = Outer(runtsk')
      BY <2>2, DispatchContext
    <3>2. n = 0 /\ ~Begins(n)
      BY <1>13, <2>2 DEF Proper
    <3>3. NestAt(0) = 0
      <4>1. NestAt(0) \in Nat
        BY <1>2, <1>3, <3>2 DEF NestAt
      <4> QED BY <3>2, <4>1 DEF Begins
    <3>4. \A k \in 0 .. n : k = n
      BY <3>2
    <3>5. Proper(n)' = callevel'
      BY <3>1, <3>2 DEF Proper
    <3> QED BY <3>2, <3>3, <3>4, <3>5
  <2> QED BY <1>5, <2>1, <2>2
<1>15. LevelsKnown'
  <2> SUFFICES ASSUME NEW k \in 0 .. n
               PROVE  /\ LevelAt(k)' = IF Begins(k)' THEN "TCL_NULL" ELSE Proper(k)'
                      /\ Begins(k)' => saved_callevel' = Proper(k)'
    BY <1>6 DEF LevelsKnown
  <2>1. /\ LevelAt(k) = IF Begins(k) THEN "TCL_NULL" ELSE Proper(k)
        /\ Begins(k) => saved_callevel = Proper(k)
    BY <1>3, <1>8, <1>9 DEF LevelsKnown
  <2>2. Begins(k)' => saved_callevel' = Proper(k)'
    BY <1>5, <1>12, <1>14, <2>1
  <2>3. CASE k = n
    <3>1. LevelAt(k)' = callevel'
      BY <1>6, <2>3 DEF LevelAt
    <3> QED BY <1>12, <1>14, <2>2, <2>3, <3>1
  <2>4. CASE k # n
    BY <1>11, <1>12, <1>14, <2>1, <2>2, <2>4
  <2> QED BY <2>3, <2>4
<1>16. CountsGrow'
  <2> SUFFICES ASSUME NEW k \in 0 .. n, NEW j \in 0 .. k
               PROVE  AllAt(j)' <= AllAt(k)' /\ OsAt(j)' <= OsAt(k)'
    BY <1>6 DEF CountsGrow
  <2>1. j \in 0 .. n
    BY <1>3
  <2>2. AllAt(j) <= AllAt(k) /\ OsAt(j) <= OsAt(k)
    BY <1>3, <1>8, <1>9 DEF CountsGrow
  <2> QED BY <1>10, <2>1, <2>2
<1>17. StackTypes'
  <2>1. top \in Frame
    BY <1>2, <1>3, <1>4 DEF StackTypes
  <2>2. runisr' \in IsrType \cup {0, ISRID_NULL}
    BY <1>5, <2>1 DEF Frame
  <2>3. callevel' \in CallLevel
    BY <1>14 DEF Proper, Outer, CallLevel
  <2> QED BY <1>2, <1>5, <1>6, <1>7, <2>2, <2>3 DEF StackTypes
<1>18. runtsk' = TSKID_NULL => NestAt(0)' = 0
  <2>1. 0 \in 0 .. n
    BY <1>3
  <2> QED BY <1>10, <1>14, <2>1
<1> QED BY <1>5, <1>8, <1>15, <1>16, <1>17, <1>18 DEF SectionInv

--------------------------------------------------------------------------------
LEMMA InitSections == IntrInit => SectionInv
<1> SUFFICES ASSUME IntrInit PROVE SectionInv
  OBVIOUS
<1>1. /\ isrstk = << >> /\ entrycnt = << >> /\ sus_all_cnt = 0 /\ sus_os_cnt = 0 /\ boot = 0
      /\ callevel = "TCL_NULL" /\ runisr = 0 /\ runtsk = TSKID_NULL
  BY DEF IntrInit, Init
<1>2. StackTypes
  BY <1>1 DEF StackTypes, CallLevel
<1>3. boot # tnum_task + 1
  BY <1>1, TaskTable
<1>4. AllAt(0) = 0 /\ OsAt(0) = 0 /\ NestAt(0) = 0 /\ Len(isrstk) = 0
  BY <1>1 DEF AllAt, OsAt, NestAt
<1> QED BY <1>1, <1>2, <1>3, <1>4 DEF SectionInv, CountsGrow

LEMMA NextSections == SectionInv /\ [IntrNext]_intrVars => SectionInv'
<1> SUFFICES ASSUME SectionInv, [IntrNext]_intrVars PROVE SectionInv'
  OBVIOUS
<1>1. CASE Service /\ UNCHANGED suspend
  BY <1>1, ServiceKeeps
<1>2. ASSUME NEW i \in IsrType, EnterHandler(i) PROVE SectionInv'
  BY <1>2, EnterKeeps
<1>3. CASE LeaveHandler
  BY <1>3, LeaveKeeps
<1>4. CASE SuspendAllInterrupts
  BY <1>4, SuspendKeeps DEF SuspendAllInterrupts
<1>5. CASE SuspendOSInterrupts
  BY <1>5, SuspendKeeps DEF SuspendOSInterrupts
<1>6. CASE ResumeAllInterrupts
  BY <1>6, ResumeKeeps DEF ResumeAllInterrupts
<1>7. CASE ResumeOSInterrupts
  BY <1>7, ResumeKeeps DEF ResumeOSInterrupts
<1>8. CASE UNCHANGED intrVars
  <2>1. UNCHANGED <<isrstk, entrycnt, sus_all_cnt, sus_os_cnt, callevel, saved_callevel, boot,
                    runisr, runtsk>>
    BY <1>8 DEF intrVars, vars, cpu, suspend
  <2>2. \A k : /\ AllAt(k)' = AllAt(k) /\ OsAt(k)' = OsAt(k) /\ NestAt(k)' = NestAt(k)
               /\ LevelAt(k)' = LevelAt(k) /\ Proper(k)' = Proper(k)
    BY <2>1 DEF AllAt, OsAt, NestAt, LevelAt, Proper, Outer
  <2>3. \A k : Begins(k)' <=> Begins(k)
    BY <2>2 DEF Begins
  <2>4. StackTypes' /\ (LevelsKnown' <=> LevelsKnown) /\ CountsGrow'
    BY <2>1, <2>2, <2>3 DEF SectionInv, StackTypes, LevelsKnown, CountsGrow
  <2> QED BY <2>1, <2>2, <2>4 DEF SectionInv
<1> QED BY <1>1, <1>2, <1>3, <1>4, <1>5, <1>6, <1>7, <1>8 DEF IntrNext

\* SuspendAllInterrupts and SuspendOSInterrupts, however they nest in tasks and handlers: a task
\* can call no service from its first Suspend to its last Resume, and can call all outside.
THEOREM SectionsRefuse == IntrSpec => []SuspendedSection
<1>1. SectionInv => SuspendedSection
  <2> SUFFICES ASSUME SectionInv, runtsk # TSKID_NULL, isrstk = << >>
               PROVE  callevel = "TCL_TASK" <=> sus_all_cnt = 0 /\ sus_os_cnt = 0
    BY DEF SuspendedSection
  <2>1. LevelsKnown /\ StackTypes
    BY DEF SectionInv
  <2>2. LevelAt(0) = callevel /\ NestAt(0) = sus_all_cnt + sus_os_cnt
    BY DEF LevelAt, NestAt, AllAt, OsAt
  <2>3. callevel = IF Begins(0) THEN "TCL_NULL" ELSE Outer(runtsk)
    BY <2>1, <2>2 DEF LevelsKnown, Proper
  <2>4. Begins(0) <=> ~(sus_all_cnt = 0 /\ sus_os_cnt = 0)
    BY <2>1, <2>2 DEF Begins, StackTypes
  <2> QED BY <2>3, <2>4 DEF Outer
<1> QED BY <1>1, InitSections, NextSections, PTL DEF IntrSpec
--------------------------------------------------------------------------------
(* Programs of tasks of one priority: Sleep (rtoscalls.c) and the tasks of etrobo2011. *)

\* Of the tasks of one initial priority at most one is in the middle of its work, whatever
\* resources they take: the others have not started since they were activated or last waited.
OneAtATime ==
  \A s, t \in TaskType : Started(s) /\ Started(t) /\ tinib_inipri[s] = tinib_inipri[t] => s = t

LEMMA StartedRunnable ==
  ASSUME KernelInv, NEW t \in TaskType, Started(t)
  PROVE  t \in Runnable
BY Tables DEF KernelInv, ResourceInv, RunnerActive, Started, Runnable

\* Tasks of one priority take turns: make_runnable puts a task behind its equals, and a task set
\* aside goes in front of them (task.c).
THEOREM EqualsTakeTurns ==
  ASSUME KernelInv, LeadInv
  PROVE  OneAtATime
<1> SUFFICES ASSUME NEW s \in TaskType, NEW t \in TaskType, Started(s), Started(t), s # t,
                    tinib_inipri[s] = tinib_inipri[t]
             PROVE  FALSE
  BY DEF OneAtATime
<1>1. s \in Runnable /\ t \in Runnable
  BY StartedRunnable
<1>2. /\ tcb_curpri \in [TaskType -> Nat]
      /\ \A x \in TaskType : tinib_inipri[x] \in Nat
      /\ \A x \in Runnable : tcb_curpri[x] >= tinib_inipri[x]
  BY Tables DEF KernelInv, DispatchInv, DispatchTypes, LeadInv, AboveInitial, Runnable
\* What StartedTasksLead says of one of them that is not schedtsk, against the other.
<1>3. ASSUME NEW u \in TaskType, NEW x \in TaskType, u \in Ready, x \in Runnable, Started(u),
             tinib_inipri[x] = tinib_inipri[u]
      PROVE  /\ x # rdy.schedtsk /\ tcb_curpri[x] <= tcb_curpri[u]
             /\ rdy.queue[tcb_curpri[u]][1] = u
  <2>1. /\ rdy.queue[tcb_curpri[u]][1] = u
        /\ x = rdy.schedtsk \/ tcb_curpri[x] > tcb_curpri[u] => tinib_inipri[x] > tcb_curpri[u]
    BY <1>3 DEF LeadInv, StartedTasksLead
  <2>2. tcb_curpri[u] >= tinib_inipri[u] /\ tcb_curpri[u] \in Nat /\ tcb_curpri[x] \in Nat
    BY <1>2, <1>3 DEF Ready
  <2> QED BY <1>2, <1>3, <2>1, <2>2
<1>4. s \in Ready \/ t \in Ready
  BY <1>1 DEF Ready
<1>5. s \in Ready /\ t \in Ready
  BY <1>1, <1>3, <1>4 DEF Ready
<1>6. /\ tcb_curpri[s] <= tcb_curpri[t] /\ rdy.queue[tcb_curpri[t]][1] = t
      /\ tcb_curpri[t] <= tcb_curpri[s] /\ rdy.queue[tcb_curpri[s]][1] = s
  BY <1>1, <1>3, <1>5
<1>7. tcb_curpri[s] = tcb_curpri[t]
  BY <1>2, <1>6
<1> QED BY <1>6, <1>7

\* The steps of the kernel these programs take.
LEMMA WaitIsKernelStep ==
  ASSUME NEW ev \in Event, Wait(ev)
  PROVE  [Next]_vars
<1>1. {ev} \in Mask
  BY DEF Mask, EVTMASK_NONE
<1> QED BY <1>1 DEF Wait, Next

LEMMA ClearIsKernelStep ==
  ASSUME NEW ev \in Event, ClearEvent({ev})
  PROVE  Next
<1>1. {ev} \in Mask
  BY DEF Mask, EVTMASK_NONE
<1> QED BY <1>1 DEF Next

LEMMA SetIsKernelStep ==
  ASSUME NEW ev \in Event, NEW t, SetEvent(t, {ev})
  PROVE  Next
<1>1. {ev} \in Mask
  BY DEF Mask, EVTMASK_NONE
<1>2. t \in ExtTask
  BY DEF SetEvent
<1> QED BY <1>1, <1>2 DEF Next

LEMMA SleepEvents == EventSleep \in Event /\ EventSleepI2C \in Event /\ 1 \in IsrType
BY SleeperTable

LEMMA WaitStepIsKernelStep ==
  ASSUME NEW t, NEW ev \in Event, NEW l, NEW k, WaitStep(t, ev, l, k)
  PROVE  [Next]_vars
BY WaitIsKernelStep DEF WaitStep

LEMMA ClearStepIsKernelStep ==
  ASSUME NEW t, NEW ev \in Event, NEW l, NEW k, ClearStep(t, ev, l, k)
  PROVE  [Next]_vars
BY ClearIsKernelStep DEF ClearStep

LEMMA ReceiveIsKernelStep ==
  ASSUME NEW t, NEW p, NEW k, Receive(t, p, k)
  PROVE  [Next]_vars
<1>1. ASSUME NEW at, NEW l, SleepI2C(t, p, at, l) PROVE [Next]_vars
  <2>1. CASE CheckBusy(t, p, at.busy, at.save, l)
    BY <2>1 DEF CheckBusy
  <2>2. CASE SaveI2C(t, p, at.save, at.flag)
    BY <2>2 DEF SaveI2C
  <2>3. CASE FlagI2C(t, p, at.flag, at.wait)
    BY <2>3 DEF FlagI2C
  <2>4. CASE WaitStep(t, EventSleepI2C, at.wait, at.clear)
    BY <2>4, SleepEvents, WaitStepIsKernelStep
  <2>5. CASE ClearStep(t, EventSleepI2C, at.clear, l)
    BY <2>5, SleepEvents, ClearStepIsKernelStep
  <2> QED BY <1>1, <2>1, <2>2, <2>3, <2>4, <2>5 DEF SleepI2C
<1>2. CASE StartTransaction(t, p)
  BY <1>2 DEF StartTransaction
<1> QED BY <1>1, <1>2 DEF Receive

LEMMA MonitorIsKernelStep ==
  ASSUME SleeperMonitor \/ TickReturns \/ KernelStep
  PROVE  [Next]_vars
<1>1. CASE MonitorI2C
  <2>1. (\E t : SetEvent(t, {EventSleepI2C})) \/ UNCHANGED vars
    BY <1>1 DEF MonitorI2C
  <2> QED BY <2>1, SleepEvents, SetIsKernelStep
<1>2. CASE MonitorCount
  BY <1>2 DEF MonitorCount
<1>3. CASE MonitorWake
  <2>1. (\E t : SetEvent(t, {EventSleep})) \/ UNCHANGED vars
    BY <1>3 DEF MonitorWake
  <2> QED BY <2>1, SleepEvents, SetIsKernelStep
<1>4. CASE TickReturns
  BY <1>4 DEF TickReturns, Next
<1>5. CASE KernelStep
  BY <1>5 DEF KernelStep, Next
<1> QED BY <1>1, <1>2, <1>3, <1>4, <1>5 DEF SleeperMonitor

--------------------------------------------------------------------------------
(* The tasks of the robot *)

LEMMA RoboEvents == EventPeriod \in Event
BY RoboTable

LEMMA RoboTaskStep ==
  ASSUME NEW t, TaskStep(t)
  PROVE  [Next]_vars
<1>1. CASE SetAlarm(t)
  BY <1>1 DEF SetAlarm
<1>2. CASE WaitPeriod(t)
  <2>1. \E l, k : WaitStep(t, EventPeriod, l, k)
    BY <1>2 DEF WaitPeriod
  <2> QED BY <2>1, RoboEvents, WaitStepIsKernelStep
<1>3. CASE ClearPeriod(t)
  <2>1. ClearStep(t, EventPeriod, "Clear", "Wait")
    BY <1>3 DEF ClearPeriod
  <2> QED BY <2>1, RoboEvents, ClearStepIsKernelStep
<1>4. CASE \E u, l, k : Work(u, l, k)
  BY <1>4 DEF Work
<1>5. CASE GetDistance
  BY <1>5, ReceiveIsKernelStep DEF GetDistance
<1>6. DriveReset \/ DriveReady \/ Drive \/ Maimai \/ Gps => \E u, l, k : Work(u, l, k)
  BY DEF DriveReset, DriveReady, Drive, Maimai, Gps
<1>7. Logger \/ SonarIdle \/ SonarCheck \/ SonarResult => \E u, l, k : Work(u, l, k)
  BY DEF Logger, SonarIdle, SonarCheck, SonarResult
<1> QED BY <1>1, <1>2, <1>3, <1>4, <1>5, <1>6, <1>7 DEF TaskStep, Sonar

LEMMA RoboStep == [RoboNext]_roboVars => [Next]_vars
<1>1. ASSUME NEW t, TaskStep(t) PROVE [Next]_vars
  BY <1>1, RoboTaskStep
<1>2. CASE TimerInterrupt
  BY <1>2, SleepEvents DEF TimerInterrupt, Next
<1>3. CASE Handler
  <2>1. AlarmCallback => \E t : SetEvent(t, {EventPeriod})
    BY DEF AlarmCallback
  <2>2. AlarmCallback \/ SleeperMonitor \/ TickReturns
    BY <1>3 DEF Handler
  <2> QED BY <2>1, <2>2, RoboEvents, SetIsKernelStep, MonitorIsKernelStep
<1>4. CASE TransactionDone
  BY <1>4 DEF TransactionDone, TransactionEnds
<1>5. CASE Press
  BY <1>5 DEF Press, sleepVars
<1>6. CASE KernelGoesOn
  BY <1>6, MonitorIsKernelStep DEF KernelGoesOn
<1>7. CASE UNCHANGED roboVars
  BY <1>7 DEF roboVars, stepVars, sleepVars
<1> QED BY <1>1, <1>2, <1>3, <1>4, <1>5, <1>6, <1>7 DEF RoboNext

\* The robot's program keeps to the services of the kernel, so that whatever is proved of the
\* kernel holds of it (main.cpp, alarm callbacks, SleeperMonitor).
THEOREM RoboUsesKernel == RoboSpec => Spec
<1>1. RoboInit => Init
  BY DEF RoboInit, SleeperInit
<1> QED BY <1>1, RoboStep, PTL DEF RoboSpec, Spec

\* Drive, Sonar and Logger have one priority in main.oil.
SharedAtOnePriority ==
  \A s, t \in {TaskDrive, TaskSonar, TaskLogger} \cap TaskType : tinib_inipri[s] = tinib_inipri[t]

\* The three tasks of main.cpp that share flags without a lock take turns, however many
\* higher-priority tasks and interrupts there are and whatever else the kernel schedules.
THEOREM TurnsKept == SharedAtOnePriority => (RoboSpec => []SharedMemoryTurns)
<1> SUFFICES ASSUME SharedAtOnePriority PROVE RoboSpec => []SharedMemoryTurns
  OBVIOUS
<1>1. KernelInv /\ LeadInv => SharedMemoryTurns
  BY EqualsTakeTurns DEF SharedAtOnePriority, SharedMemoryTurns, OneAtATime
<1>2. Spec => [](KernelInv /\ LeadInv)
  BY Inductive, PTL DEF Spec
<1> QED BY <1>1, <1>2, RoboUsesKernel, PTL

--------------------------------------------------------------------------------
(* Sleeping tasks *)

\* What a step may not do to a task t that does not call the kernel itself.
Undisturbed(t) ==
  /\ Started(t) => Started(t)'
  /\ tcb_tstat'[t] = "WAITING" => tcb_tstat[t] = "WAITING" /\ tcb_waievt'[t] = tcb_waievt[t]
  /\ Started(t) \/ tcb_tstat[t] = "WAITING" => tcb_curevt[t] \subseteq tcb_curevt'[t]

\* The dispatcher leaves the continuations alone, but for that of the task it sets aside.
LEMMA DispatchConts ==
  ASSUME NEW r, NEW pri, NEW conts, NEW t, tcxb_pc \in [TaskType -> Continuation]
  PROVE  /\ StartDispatch(r, pri, tcxb_pc) => tcxb_pc' = tcxb_pc
         /\ \A k \in SetAside : Dispatch(r, pri, tcxb_pc, k) =>
              \E j \in SetAside : tcxb_pc' = [tcxb_pc EXCEPT ![runtsk] = j]
         /\ DispatchIfBetter(r, pri, tcxb_pc, t) =>
              \/ UNCHANGED <<runtsk, tcxb_pc>>
              \/ \E j \in SetAside : tcxb_pc' = [tcxb_pc EXCEPT ![runtsk] = j]
BY DEF StartDispatch, Dispatch, DispatchIfBetter, SetAside

\* A task remains started while it stays runnable and is set aside only at these places.
LEMMA StaysStarted ==
  ASSUME KernelInv, NEW t \in TaskType, Started(t), tcb_tstat'[t] = "RUNNABLE",
         \/ UNCHANGED <<runtsk, tcxb_pc>>
         \/ \E j \in SetAside : tcxb_pc' = [tcxb_pc EXCEPT ![runtsk] = j]
         \/ runtsk = TSKID_NULL /\ UNCHANGED tcxb_pc
  PROVE  Started(t)'
<1>1. tcxb_pc \in [TaskType -> Continuation] /\ t # TSKID_NULL
  BY Tables DEF KernelInv, DispatchInv, DispatchTypes
<1>2. t \in Runnable'
  BY DEF Runnable
<1>3. CASE UNCHANGED <<runtsk, tcxb_pc>>
  BY <1>2, <1>3 DEF Started
<1>4. ASSUME NEW j \in SetAside, tcxb_pc' = [tcxb_pc EXCEPT ![runtsk] = j] PROVE Started(t)'
  <2>1. tcxb_pc'[t] = IF t = runtsk THEN j ELSE tcxb_pc[t]
    BY <1>1, <1>4
  <2>2. t = runtsk \/ tcxb_pc[t] \in SetAside
    BY DEF Started, SetAside
  <2> QED BY <1>2, <1>4, <2>1, <2>2 DEF Started, SetAside
<1>5. CASE runtsk = TSKID_NULL /\ UNCHANGED tcxb_pc
  BY <1>1, <1>2, <1>5 DEF Started
<1> QED BY <1>3, <1>4, <1>5

LEMMA SetEventUndisturbed ==
  ASSUME KernelInv, NEW t \in ExtTask, NEW u, NEW mask, SetEvent(u, mask)
  PROVE  Undisturbed(t) /\ tcb_curevt' = [tcb_curevt EXCEPT ![u] = @ \cup mask]
<1>1. /\ u \in ExtTask /\ t \in TaskType /\ u \in TaskType /\ NoLostWakeup
      /\ tcxb_pc \in [TaskType -> Continuation] /\ tcb_tstat \in [TaskType -> TaskState]
      /\ tcb_curevt \in [ExtTask -> SUBSET Event] /\ tcb_waievt \in [ExtTask -> SUBSET Event]
  BY TaskTable DEF SetEvent, ExtTask, TaskType, KernelInv, DispatchInv, DispatchTypes, BlockTypes
<1>2. tcb_curevt' = [tcb_curevt EXCEPT ![u] = @ \cup mask]
  BY DEF SetEvent
<1>3. tcb_curevt[t] \subseteq tcb_curevt'[t]
  BY <1>1, <1>2
<1>4. CASE UNCHANGED <<tcb_waievt, tcb_tstat, tcxb_pc, runtsk>>
  BY <1>2, <1>3, <1>4 DEF Undisturbed, Started, Runnable
<1>5. ASSUME tcb_waievt' = [tcb_waievt EXCEPT ![u] = EVTMASK_NONE],
             tcb_tstat' = [tcb_tstat EXCEPT ![u] = "RUNNABLE"],
             DispatchIfBetter(MakeRunnable(rdy, tcb_curpri, u), tcb_curpri, tcxb_pc, u)
      PROVE  Undisturbed(t)
  <2>1. /\ tcb_tstat'[t] = IF t = u THEN "RUNNABLE" ELSE tcb_tstat[t]
        /\ tcb_waievt'[t] = IF t = u THEN EVTMASK_NONE ELSE tcb_waievt[t]
    BY <1>1, <1>5
  <2>2. ASSUME Started(t) PROVE Started(t)'
    <3>1. tcb_tstat'[t] = "RUNNABLE"
      BY <1>1, <2>1, <2>2, StartedRunnable DEF Runnable
    <3> QED BY <1>1, <1>5, <2>2, <3>1, DispatchConts, StaysStarted
  <2>3. tcb_tstat'[t] = "WAITING" => tcb_tstat[t] = "WAITING" /\ tcb_waievt'[t] = tcb_waievt[t]
    BY <2>1
  <2> QED BY <1>3, <2>2, <2>3 DEF Undisturbed
<1> QED BY <1>2, <1>4, <1>5 DEF SetEvent

LEMMA WaitUndisturbed ==
  ASSUME KernelInv, NEW t \in ExtTask, NEW ev \in Event, t # runtsk, Wait(ev)
  PROVE  Undisturbed(t)
<1>1. CASE UNCHANGED vars
  BY <1>1 DEF vars, tcb, Undisturbed, Started, Runnable
<1>2. CASE WaitEvent({ev})
  <2>1. /\ t \in TaskType /\ runtsk \in ExtTask
        /\ tcxb_pc \in [TaskType -> Continuation] /\ tcb_tstat \in [TaskType -> TaskState]
        /\ tcb_waievt \in [ExtTask -> SUBSET Event]
    BY <1>2, TaskTable
       DEF WaitEvent, ExtTask, TaskType, KernelInv, DispatchInv, DispatchTypes, BlockTypes
  <2>2. /\ tcb_tstat' = [tcb_tstat EXCEPT ![runtsk] = "WAITING"]
        /\ tcb_waievt' = [tcb_waievt EXCEPT ![runtsk] = {ev}]
        /\ \E r, pri : Dispatch(r, pri, tcxb_pc, "dispatcher_r_exepri")
        /\ UNCHANGED tcb_curevt
    BY <1>2, Zenon DEF WaitEvent
  <2>3. tcb_tstat'[t] = tcb_tstat[t] /\ tcb_waievt'[t] = tcb_waievt[t]
    BY <2>1, <2>2
  <2>4. tcxb_pc' = [tcxb_pc EXCEPT ![runtsk] = "dispatcher_r_exepri"]
    BY <2>2 DEF Dispatch, StartDispatch
  <2>5. tcxb_pc'[t] = tcxb_pc[t]
    BY <2>1, <2>4
  <2> QED BY <2>2, <2>3, <2>5 DEF Undisturbed, Started, Runnable
<1> QED BY <1>1, <1>2 DEF Wait

LEMMA ClearUndisturbed ==
  ASSUME KernelInv, NEW t \in ExtTask, NEW mask, t # runtsk, ClearEvent(mask)
  PROVE  Undisturbed(t)
<1>1. tcb_curevt \in [ExtTask -> SUBSET Event]
  BY DEF KernelInv, DispatchInv, BlockTypes
<1>2. UNCHANGED <<runtsk, tcb_tstat, tcb_waievt, tcxb_pc>>
      /\ tcb_curevt' = [tcb_curevt EXCEPT ![runtsk] = @ \ mask]
  BY DEF ClearEvent
<1>3. tcb_curevt'[t] = tcb_curevt[t]
  BY <1>1, <1>2
<1> QED BY <1>2, <1>3 DEF Undisturbed, Started, Runnable

LEMMA HandlerUndisturbed ==
  ASSUME KernelInv, NEW t \in ExtTask, InterruptReturn \/ (\E i : Interrupt(i)) \/ UNCHANGED vars
  PROVE  Undisturbed(t)
<1>1. /\ t \in TaskType /\ tcxb_pc \in [TaskType -> Continuation]
  BY TaskTable DEF ExtTask, TaskType, KernelInv, DispatchInv, DispatchTypes
<1>2. UNCHANGED <<tcb_tstat, tcb_waievt, tcb_curevt>>
  BY DEF InterruptReturn, Interrupt, vars, tcb
<1>3. \/ UNCHANGED <<runtsk, tcxb_pc>>
      \/ \E j \in SetAside : tcxb_pc' = [tcxb_pc EXCEPT ![runtsk] = j]
  <2>1. CASE InterruptReturn
    BY <1>1, <2>1, DispatchConts DEF InterruptReturn, SetAside
  <2>2. CASE (\E i : Interrupt(i)) \/ UNCHANGED vars
    BY <2>2 DEF Interrupt, vars, tcb
  <2> QED BY <2>1, <2>2
<1>4. ASSUME Started(t) PROVE Started(t)'
  <2>1. tcb_tstat'[t] = "RUNNABLE"
    BY <1>1, <1>2, <1>4, StartedRunnable DEF Runnable
  <2> QED BY <1>1, <1>3, <1>4, <2>1, StaysStarted
<1> QED BY <1>2, <1>4 DEF Undisturbed

LEMMA StartUndisturbed ==
  ASSUME KernelInv, NEW t \in ExtTask, InitializeTask \/ StartOS \/ LeaveIdle
  PROVE  Undisturbed(t)
<1>0. t \in TaskType
  BY TaskTable DEF ExtTask, TaskType
<1>1. /\ t \in TaskType /\ tcxb_pc \in [TaskType -> Continuation] /\ TSKID_NULL \notin TaskType
      /\ tcb_tstat \in [TaskType -> TaskState] /\ boot \in Int /\ Booting
  BY <1>0, Tables DEF KernelInv, DispatchInv, DispatchTypes, BlockTypes, Context
<1>2. Started(t) => tcb_tstat[t] = "RUNNABLE"
  BY <1>1, StartedRunnable DEF Runnable
<1>3. CASE StartOS \/ LeaveIdle
  <2>1. /\ UNCHANGED <<tcb_tstat, tcb_waievt, tcb_curevt>> /\ runtsk = TSKID_NULL
        /\ UNCHANGED tcxb_pc
    BY <1>1, <1>3 DEF StartOS, LeaveIdle, StartDispatch, Booting
  <2> QED BY <1>1, <1>2, <2>1, StaysStarted DEF Undisturbed
<1>4. CASE InitializeTask
  <2>1. boot < tnum_task /\ UNCHANGED runtsk /\ tnum_task \in Nat
    BY <1>4, Tables DEF InitializeTask
  <2>2. boot # tnum_task + 1
    BY <1>1, <2>1
  <2>3. CASE UNCHANGED tcb
    BY <2>1, <2>3 DEF Undisturbed, Started, Runnable, tcb
  <2>4. CASE boot \in Autostart
    <3>1. /\ tcb_tstat' = [tcb_tstat EXCEPT ![boot] = "RUNNABLE"]
          /\ tcb_waievt' = [x \in ExtTask |-> IF x = boot THEN EVTMASK_NONE ELSE tcb_waievt[x]]
          /\ tcb_curevt' = [x \in ExtTask |-> IF x = boot THEN EVTMASK_NONE ELSE tcb_curevt[x]]
          /\ tcxb_pc' = [x \in TaskType |-> IF x = boot THEN "activate_r" ELSE tcxb_pc[x]]
      BY <1>4, <2>4 DEF InitializeTask, ResetTasks, ActivePc
    <3>2. CASE t = boot
      <4>1. tcb_tstat[t] = "DORMANT"
        <5>1. boot <= t
          BY <1>1, <3>2
        <5> QED BY <1>1, <2>2, <5>1 DEF Booting
      <4>2. tcb_tstat'[t] = "RUNNABLE"
        BY <1>1, <3>1, <3>2
      <4> QED BY <1>2, <4>1, <4>2 DEF Undisturbed
    <3>3. CASE t # boot
      <4>1. /\ tcb_tstat'[t] = tcb_tstat[t] /\ tcb_waievt'[t] = tcb_waievt[t]
            /\ tcb_curevt'[t] = tcb_curevt[t] /\ tcxb_pc'[t] = tcxb_pc[t]
        BY <1>1, <3>1, <3>3
      <4> QED BY <2>1, <4>1 DEF Undisturbed, Started, Runnable
    <3> QED BY <3>2, <3>3
  <2> QED BY <1>4, <2>3, <2>4 DEF InitializeTask, tcb
<1> QED BY <1>3, <1>4

\* Places in Sleep at which a task has a slot in mind: it has found it free, or has taken it.
Choosing == {"SaveId", "SetFlag"}
Taking   == {"SetCounter", "WaitSleep"}

\* All the other places, but the one at which it waits in Sleep.
Elsewhere ==
  {"Run", "Read", "Scan", "Transaction", "Busy1", "SaveI2C1", "FlagI2C1", "WaitI2C1", "ClearI2C1",
   "Busy2", "SaveI2C2", "FlagI2C2", "WaitI2C2", "ClearI2C2"}

Place == Choosing \cup Taking \cup {"ClearSleep"} \cup Elsewhere

SlotTypes ==
  /\ pc \in [ExtTask -> Place] /\ slot \in [ExtTask -> 0 .. N_TASKS]
  /\ isTaskSleeping \in [Slot -> BOOLEAN] /\ sleeperTask_ID \in [Slot -> Int]

\* The slot task t has found is free until it takes it, and then in use until the monitor sets
\* the event; t does not begin to wait for anything else before it takes it.
Waits(t) == pc[t] = "ClearSleep" /\ tcb_tstat[t] = "WAITING"

Owns(t) == /\ slot[t] \in Slot /\ sleeperTask_ID[slot[t]] = t
           /\ isTaskSleeping[slot[t]] \/ EventSleep \in tcb_curevt[t]

SlotOf(t) ==
  /\ pc[t] \in Choosing \cup Taking => Started(t)
  /\ pc[t] \in Choosing => slot[t] \in Slot /\ ~isTaskSleeping[slot[t]]
  /\ pc[t] = "SetFlag" => sleeperTask_ID[slot[t]] = t
  /\ pc[t] \in Taking \/ Waits(t) => Owns(t)
  /\ Waits(t) => tcb_waievt[t] = {EventSleep}

SlotInv == SlotTypes /\ \A t \in Sleepers : SlotOf(t)

\* The tasks that sleep have one priority, as in the samples.
SleepersAtOnePriority == \A s, t \in Sleepers : tinib_inipri[s] = tinib_inipri[t]

LEMMA SleeperTasks ==
  /\ Sleepers \in SUBSET ExtTask /\ ExtTask \in SUBSET TaskType /\ ExtTask \in SUBSET Int
  /\ N_TASKS \in Nat /\ Slot = 0 .. N_TASKS - 1
BY SampleTable, SleeperTable, TaskTable DEF ExtTask, TaskType, Slot

\* A task that waits in Sleep has no event set, so its slot is in use.
LEMMA WaiterSleeps ==
  ASSUME KernelInv, NEW t \in ExtTask, SlotOf(t), Waits(t)
  PROVE  isTaskSleeping[slot[t]]
<1>1. tcb_waievt[t] = {EventSleep} /\ tcb_curevt[t] \cap tcb_waievt[t] = {}
  BY DEF SlotOf, Waits, KernelInv, DispatchInv, NoLostWakeup, EVTMASK_NONE
<1> QED BY <1>1 DEF SlotOf, Owns

\* A step of another task, of a handler or of the kernel that leaves the slot of t alone.
LEMMA OthersKeepSlot ==
  ASSUME KernelInv, SlotTypes, NEW t \in ExtTask, SlotOf(t), Undisturbed(t),
         pc'[t] = pc[t], slot'[t] = slot[t], NEW i, i = slot[t],
         i \in Slot => /\ isTaskSleeping'[i] = isTaskSleeping[i]
                       /\ sleeperTask_ID'[i] = sleeperTask_ID[i]
  PROVE  SlotOf(t)'
<1>1. Started(t) => Started(t)'
  BY DEF Undisturbed
<1>2. Waits(t)' => Waits(t) /\ tcb_waievt'[t] = tcb_waievt[t]
  BY DEF Undisturbed, Waits
<1>3. ASSUME pc[t] \in Choosing PROVE i \in Slot /\ ~isTaskSleeping'[i]
  BY <1>3 DEF SlotOf
<1>4. ASSUME pc[t] = "SetFlag" PROVE sleeperTask_ID'[i] = t
  BY <1>3, <1>4 DEF SlotOf, Choosing
<1>5. ASSUME pc[t] \in Taking \/ Waits(t)' PROVE Owns(t)'
  <2>1. Owns(t) /\ (Started(t) \/ tcb_tstat[t] = "WAITING")
    BY <1>2, <1>5 DEF SlotOf, Waits
  <2>2. tcb_curevt[t] \subseteq tcb_curevt'[t]
    BY <2>1 DEF Undisturbed
  <2> QED BY <2>1, <2>2 DEF Owns
<1>6. Waits(t)' => tcb_waievt'[t] = {EventSleep}
  BY <1>2 DEF SlotOf
<1> QED BY <1>1, <1>3, <1>4, <1>5, <1>6 DEF SlotOf

\* The steps of a task in Sleep.
Running(u) == AtTaskLevel /\ runtsk = u

LEMMA OthersUndisturbed ==
  ASSUME KernelInv, NEW u, Running(u), NEW t \in ExtTask, t # u, NEW ev \in Event,
         Wait(ev) \/ ClearEvent({ev}) \/ UNCHANGED vars
  PROVE  Undisturbed(t)
BY WaitUndisturbed, ClearUndisturbed, HandlerUndisturbed DEF Running

\* While task u of one priority with t runs, t is not about to take a slot.
LEMMA OthersNotTaking ==
  ASSUME KernelInv, LeadInv, SleepersAtOnePriority, NEW u \in Sleepers, Running(u),
         NEW t \in Sleepers, t # u, SlotOf(t)
  PROVE  pc[t] \notin Choosing \cup Taking
<1>1. t \in TaskType /\ u \in TaskType /\ tinib_inipri[t] = tinib_inipri[u]
  BY SleeperTasks DEF SleepersAtOnePriority
<1>2. Started(u)
  BY DEF Running, Started
<1> QED BY <1>1, <1>2, EqualsTakeTurns DEF OneAtATime, SlotOf

\* A step of task u: it goes on at l, and may wait for an event or clear one.
Calls == \E ev \in Event : Wait(ev) \/ ClearEvent({ev}) \/ UNCHANGED vars

Goes(u, l) == Running(u) /\ pc' = [pc EXCEPT ![u] = l] /\ Calls

LEMMA StepGoes ==
  ASSUME NEW u, NEW h, NEW l, NEW ev, ev \in Event
  PROVE  /\ Step(u, h, l) /\ UNCHANGED vars => Goes(u, l)
         /\ WaitStep(u, ev, h, l) => Goes(u, l) /\ UNCHANGED tasksleep
         /\ ClearStep(u, ev, h, l) => Goes(u, l) /\ UNCHANGED tasksleep
BY DEF Step, WaitStep, ClearStep, Goes, Running, Calls

LEMMA SleepI2CGoes ==
  ASSUME NEW u, NEW p, NEW at \in {Before, After}, NEW k \in Elsewhere, SleepI2C(u, p, at, k)
  PROVE  \E l \in Elsewhere : Goes(u, l) /\ UNCHANGED tasksleep
<1>1. {at.busy, at.save, at.flag, at.wait, at.clear} \subseteq Elsewhere
  <2>1. CASE at = Before
    BY <2>1 DEF Before, Elsewhere
  <2>2. CASE at = After
    BY <2>2 DEF After, Elsewhere
  <2> QED BY <2>1, <2>2
<1>2. CASE CheckBusy(u, p, at.busy, at.save, k)
  <2>1. PICK l \in {at.save, k} : Step(u, at.busy, l) /\ UNCHANGED <<vars, tasksleep>>
    BY <1>2 DEF CheckBusy
  <2> QED BY <1>1, <2>1, SleepEvents, StepGoes
<1>3. CASE SaveI2C(u, p, at.save, at.flag)
  <2>1. Step(u, at.save, at.flag) /\ UNCHANGED <<vars, tasksleep>>
    BY <1>3 DEF SaveI2C
  <2> QED BY <1>1, <2>1, SleepEvents, StepGoes
<1>4. CASE FlagI2C(u, p, at.flag, at.wait)
  <2>1. Step(u, at.flag, at.wait) /\ UNCHANGED <<vars, tasksleep>>
    BY <1>4 DEF FlagI2C
  <2> QED BY <1>1, <2>1, SleepEvents, StepGoes
<1>5. CASE WaitStep(u, EventSleepI2C, at.wait, at.clear)
  BY <1>1, <1>5, SleepEvents, StepGoes
<1>6. CASE ClearStep(u, EventSleepI2C, at.clear, k)
  BY <1>6, SleepEvents, StepGoes
<1> QED BY <1>2, <1>3, <1>4, <1>5, <1>6 DEF SleepI2C

\* Whatever a task does outside Sleep leaves it outside, and the slots alone.
LEMMA ReaderGoes ==
  ASSUME NEW u, SampleStep(u), ~(u \in Sleepers /\ Sleep(u, duration[u], "Run"))
  PROVE  \E l \in Elsewhere :
           /\ Goes(u, l) /\ UNCHANGED <<isTaskSleeping, sleeperTask_ID, sleepTaskCounter>>
           /\ slot' \in {slot, [slot EXCEPT ![u] = 0]}
<1>1. {"Run", "Read", "Scan", "Transaction", Before.busy, After.busy} \subseteq Elsewhere
  BY DEF Before, After, Elsewhere
<1>2. CASE EnterSleep(u, IF u \in Readers THEN "Read" ELSE "Run")
  <2>1. /\ \E h : Step(u, h, "Scan")
        /\ UNCHANGED <<vars, isTaskSleeping, sleeperTask_ID, sleepTaskCounter>>
        /\ slot' = [slot EXCEPT ![u] = 0]
    BY <1>2 DEF EnterSleep
  <2> QED BY <1>1, <2>1, SleepEvents, StepGoes
<1>3. CASE Step(u, "Run", Before.busy) /\ UNCHANGED <<vars, tasksleep, i2csleep, monitor>>
  BY <1>1, <1>3, SleepEvents, StepGoes DEF tasksleep
<1>4. CASE Receive(u, port[u], AfterRead(u))
  <2>1. AfterRead(u) \in Elsewhere
    BY <1>1 DEF AfterRead
  <2>2. CASE StartTransaction(u, port[u])
    <3>1. Step(u, "Transaction", After.busy) /\ UNCHANGED <<vars, tasksleep>>
      BY <2>2 DEF StartTransaction
    <3> QED BY <1>1, <3>1, SleepEvents, StepGoes DEF tasksleep
  <2>3. \/ \E l \in Elsewhere : Goes(u, l) /\ UNCHANGED tasksleep
        \/ StartTransaction(u, port[u])
    BY <1>1, <1>4, <2>1, SleepI2CGoes DEF Receive
  <2> QED BY <2>2, <2>3 DEF tasksleep
<1> QED BY <1>2, <1>3, <1>4 DEF SampleStep

LEMMA GoesElsewhere ==
  ASSUME SlotTypes, NEW u \in ExtTask, NEW l \in Elsewhere, pc' = [pc EXCEPT ![u] = l]
  PROVE  SlotOf(u)'
<1>1. pc'[u] = l
  BY DEF SlotTypes
<1>2. l \notin Choosing \cup Taking \cup {"ClearSleep", "SetFlag"}
  BY DEF Elsewhere, Choosing, Taking
<1> QED BY <1>1, <1>2 DEF SlotOf, Waits

\* Task u goes on at l and leaves the slots of the others alone.
LEMMA GoesKeepsOthers ==
  ASSUME KernelInv, SlotTypes, NEW u, NEW l, Goes(u, l), NEW t \in ExtTask, t # u, SlotOf(t),
         slot'[t] = slot[t],
         slot[t] \in Slot => /\ isTaskSleeping'[slot[t]] = isTaskSleeping[slot[t]]
                             /\ sleeperTask_ID'[slot[t]] = sleeperTask_ID[slot[t]]
  PROVE  SlotOf(t)'
<1>1. pc'[t] = pc[t]
  BY DEF Goes, SlotTypes
<1>2. Undisturbed(t)
  BY OthersUndisturbed DEF Goes, Calls
<1>3. PICK i : i = slot[t]
  OBVIOUS
<1>4. i \in Slot => /\ isTaskSleeping'[i] = isTaskSleeping[i]
                    /\ sleeperTask_ID'[i] = sleeperTask_ID[i]
  BY <1>3
<1> QED BY <1>1, <1>2, <1>3, <1>4, OthersKeepSlot

\* The two writes of Sleep to the slot of u, which is free until SetFlag.
LEMMA ChoosingKeepsOthers ==
  ASSUME KernelInv, LeadInv, SleepersAtOnePriority, SlotInv, NEW u \in Sleepers, NEW l,
         Goes(u, l), pc[u] \in Choosing, UNCHANGED slot,
         \A i \in Slot \ {slot[u]} : /\ isTaskSleeping'[i] = isTaskSleeping[i]
                                     /\ sleeperTask_ID'[i] = sleeperTask_ID[i],
         NEW t \in Sleepers, t # u
  PROVE  SlotOf(t)'
<1>1. SlotTypes /\ SlotOf(t) /\ SlotOf(u) /\ Running(u) /\ t \in ExtTask /\ u \in ExtTask
  BY SleeperTasks DEF SlotInv, Goes
<1>2. CASE slot[t] # slot[u]
  BY <1>1, <1>2, GoesKeepsOthers
<1>3. CASE slot[t] = slot[u]
  <2>1. pc[t] \notin Choosing \cup Taking
    BY <1>1, OthersNotTaking
  <2>2. ~Waits(t)
    BY <1>1, <1>3, WaiterSleeps DEF SlotOf
  <2>3. Undisturbed(t) /\ pc'[t] = pc[t]
    BY <1>1, OthersUndisturbed DEF Goes, Calls, SlotTypes
  <2>4. ~Waits(t)'
    BY <2>2, <2>3 DEF Undisturbed, Waits
  <2> QED BY <2>1, <2>3, <2>4 DEF SlotOf, Choosing
<1> QED BY <1>2, <1>3

LEMMA SleepKeepsSlots ==
  ASSUME KernelInv, LeadInv, SleepersAtOnePriority, SlotInv, NEW u \in Sleepers,
         NEW d, Sleep(u, d, "Run")
  PROVE  SlotInv'
<1>1. /\ SlotTypes /\ SlotOf(u) /\ u \in ExtTask /\ u \in TaskType
      /\ \A t \in Sleepers : SlotOf(t) /\ t \in ExtTask
  BY SleeperTasks DEF SlotInv
<1>2. \A t \in ExtTask : slot[t] \in 0 .. N_TASKS /\ pc[t] \in Place
  BY <1>1 DEF SlotTypes
<1>9. {"SaveId", "SetFlag", "SetCounter", "WaitSleep", "ClearSleep", "Run"} \subseteq Place
  BY DEF Place, Choosing, Taking, Elsewhere
<1>3. CASE Scan(u, "Run")
  <2>1. PICK l \in {"Run", "Scan", "SaveId"} :
          /\ Step(u, "Scan", l) /\ UNCHANGED <<vars, isTaskSleeping, sleeperTask_ID>>
          /\ slot' \in {slot, [slot EXCEPT ![u] = @ + 1]}
          /\ slot' # slot => slot[u] \in Slot
          /\ l = "SaveId" => UNCHANGED slot /\ slot[u] \in Slot /\ ~isTaskSleeping[slot[u]]
    BY <1>3 DEF Scan
  <2>2. Goes(u, l) /\ Running(u) /\ pc' = [pc EXCEPT ![u] = l]
    BY <2>1, SleepEvents, StepGoes DEF Goes
  <2>3. SlotTypes'
    <3>1. slot[u] \in Slot => slot[u] + 1 \in 0 .. N_TASKS
      BY <1>2, SleeperTasks
    <3>2. slot' \in [ExtTask -> 0 .. N_TASKS]
      BY <1>1, <2>1, <3>1 DEF SlotTypes
    <3>3. l \in Place
      BY <2>1 DEF Place, Elsewhere, Choosing
    <3>4. pc' \in [ExtTask -> Place]
      BY <1>1, <2>2, <3>3 DEF SlotTypes
    <3> QED BY <1>1, <2>1, <3>2, <3>4 DEF SlotTypes
  <2>4. SlotOf(u)'
    <3>1. CASE l = "SaveId"
      <4>1. Started(u)'
        BY <2>1, <2>2 DEF Running, Started, vars
      <4>2. pc'[u] = "SaveId"
        BY <1>1, <2>2, <3>1 DEF SlotTypes
      <4> QED BY <2>1, <3>1, <4>1, <4>2 DEF SlotOf, Waits, Taking
    <3>2. CASE l # "SaveId"
      <4>1. l \in Elsewhere
        BY <2>1, <3>2 DEF Elsewhere
      <4> QED BY <1>1, <2>2, <4>1, GoesElsewhere
    <3> QED BY <3>1, <3>2
  <2>5. ASSUME NEW t \in Sleepers, t # u PROVE SlotOf(t)'
    <3>1. slot'[t] = slot[t]
      BY <1>1, <2>1, <2>5 DEF SlotTypes
    <3> QED BY <1>1, <2>1, <2>2, <2>5, <3>1, GoesKeepsOthers
  <2> QED BY <2>3, <2>4, <2>5 DEF SlotInv
<1>4. CASE SaveId(u)
  <2>1. /\ Step(u, "SaveId", "SetFlag") /\ UNCHANGED <<vars, slot, isTaskSleeping>>
        /\ sleeperTask_ID' = [sleeperTask_ID EXCEPT ![slot[u]] = u]
    BY <1>4 DEF SaveId
  <2>2. /\ Goes(u, "SetFlag") /\ Running(u) /\ pc' = [pc EXCEPT ![u] = "SetFlag"]
        /\ pc[u] = "SaveId"
    BY <2>1, SleepEvents, StepGoes DEF Goes, Step
  <2>3. slot[u] \in Slot /\ ~isTaskSleeping[slot[u]] /\ u \in Int
    BY <1>1, <2>2, SleeperTasks DEF SlotOf, Choosing
  <2>4. SlotTypes' /\ sleeperTask_ID'[slot[u]] = u /\ pc'[u] = "SetFlag"
    BY <1>1, <1>9, <2>1, <2>2, <2>3 DEF SlotTypes
  <2>5. Started(u)'
    BY <2>1, <2>2 DEF Running, Started, vars
  <2>6. SlotOf(u)'
    BY <2>1, <2>3, <2>4, <2>5 DEF SlotOf, Waits, Taking
  <2>7. \A i \in Slot \ {slot[u]} : sleeperTask_ID'[i] = sleeperTask_ID[i]
    BY <1>1, <2>1 DEF SlotTypes
  <2>8. ASSUME NEW t \in Sleepers, t # u PROVE SlotOf(t)'
    BY <2>1, <2>2, <2>7, <2>8, ChoosingKeepsOthers DEF Choosing
  <2> QED BY <2>4, <2>6, <2>8 DEF SlotInv
<1>5. CASE SetFlag(u)
  <2>1. /\ Step(u, "SetFlag", "SetCounter") /\ UNCHANGED <<vars, slot, sleeperTask_ID>>
        /\ isTaskSleeping' = [isTaskSleeping EXCEPT ![slot[u]] = TRUE]
    BY <1>5 DEF SetFlag
  <2>2. /\ Goes(u, "SetCounter") /\ Running(u) /\ pc' = [pc EXCEPT ![u] = "SetCounter"]
        /\ pc[u] = "SetFlag"
    BY <2>1, SleepEvents, StepGoes DEF Goes, Step
  <2>3. slot[u] \in Slot /\ sleeperTask_ID[slot[u]] = u
    BY <1>1, <2>2 DEF SlotOf, Choosing
  <2>4. SlotTypes' /\ isTaskSleeping'[slot[u]] = TRUE /\ pc'[u] = "SetCounter"
    BY <1>1, <1>9, <2>1, <2>2, <2>3 DEF SlotTypes
  <2>5. Started(u)'
    BY <2>1, <2>2 DEF Running, Started, vars
  <2>6. SlotOf(u)'
    BY <2>1, <2>3, <2>4, <2>5 DEF SlotOf, Waits, Owns, Choosing
  <2>7. \A i \in Slot \ {slot[u]} : isTaskSleeping'[i] = isTaskSleeping[i]
    BY <1>1, <2>1 DEF SlotTypes
  <2>8. ASSUME NEW t \in Sleepers, t # u PROVE SlotOf(t)'
    BY <2>1, <2>2, <2>7, <2>8, ChoosingKeepsOthers DEF Choosing
  <2> QED BY <2>4, <2>6, <2>8 DEF SlotInv
<1>6. CASE SetCounter(u, d)
  <2>1. /\ Step(u, "SetCounter", "WaitSleep")
        /\ UNCHANGED <<vars, slot, sleeperTask_ID, isTaskSleeping>>
    BY <1>6 DEF SetCounter
  <2>2. /\ Goes(u, "WaitSleep") /\ Running(u) /\ pc' = [pc EXCEPT ![u] = "WaitSleep"]
        /\ pc[u] = "SetCounter"
    BY <2>1, SleepEvents, StepGoes DEF Goes, Step
  <2>3. Owns(u) /\ UNCHANGED tcb_curevt
    BY <1>1, <2>1, <2>2 DEF SlotOf, Taking, vars, tcb
  <2>4. SlotTypes' /\ pc'[u] = "WaitSleep"
    BY <1>1, <1>9, <2>1, <2>2 DEF SlotTypes
  <2>5. Started(u)'
    BY <2>1, <2>2 DEF Running, Started, vars
  <2>6. SlotOf(u)'
    BY <2>1, <2>3, <2>4, <2>5 DEF SlotOf, Waits, Owns, Choosing
  <2>7. ASSUME NEW t \in Sleepers, t # u PROVE SlotOf(t)'
    BY <1>1, <2>1, <2>2, <2>7, GoesKeepsOthers
  <2> QED BY <2>4, <2>6, <2>7 DEF SlotInv
<1>7. CASE WaitStep(u, EventSleep, "WaitSleep", "ClearSleep")
  <2>1. /\ Step(u, "WaitSleep", "ClearSleep") /\ Wait(EventSleep)
        /\ UNCHANGED <<slot, sleeperTask_ID, isTaskSleeping>>
    BY <1>7 DEF WaitStep, tasksleep
  <2>2. /\ Goes(u, "ClearSleep") /\ Running(u) /\ pc' = [pc EXCEPT ![u] = "ClearSleep"]
        /\ pc[u] = "WaitSleep"
    BY <1>7, <2>1, SleepEvents, StepGoes DEF Goes, Step
  <2>3. Owns(u)
    BY <1>1, <2>2 DEF SlotOf, Taking
  <2>4. SlotTypes' /\ pc'[u] = "ClearSleep"
    BY <1>1, <1>9, <2>1, <2>2 DEF SlotTypes
  <2>5. Waits(u)' => tcb_waievt'[u] = {EventSleep} /\ UNCHANGED tcb_curevt
    <3>1. CASE WaitEvent({EventSleep})
      <4>1. tcb_waievt \in [ExtTask -> SUBSET Event] /\ runtsk = u
        BY <2>2 DEF KernelInv, DispatchInv, BlockTypes, Running
      <4> QED BY <1>1, <3>1, <4>1 DEF WaitEvent
    <3>2. CASE UNCHANGED vars
      <4>1. tcb_tstat[u] = "RUNNABLE"
        BY <1>1, <2>2, StartedRunnable DEF Running, Started, Runnable
      <4> QED BY <3>2, <4>1 DEF Waits, vars, tcb
    <3> QED BY <2>1, <3>1, <3>2 DEF Wait
  <2>6. SlotOf(u)'
    BY <2>1, <2>3, <2>4, <2>5 DEF SlotOf, Owns, Choosing, Taking
  <2>7. ASSUME NEW t \in Sleepers, t # u PROVE SlotOf(t)'
    BY <1>1, <2>1, <2>2, <2>7, GoesKeepsOthers
  <2> QED BY <2>4, <2>6, <2>7 DEF SlotInv
<1>8. CASE ClearStep(u, EventSleep, "ClearSleep", "Run")
  <2>1. UNCHANGED <<slot, sleeperTask_ID, isTaskSleeping>>
    BY <1>8 DEF ClearStep, tasksleep
  <2>2. Goes(u, "Run") /\ "Run" \in Elsewhere
    BY <1>8, SleepEvents, StepGoes DEF Elsewhere
  <2>6. pc' = [pc EXCEPT ![u] = "Run"]
    BY <2>2 DEF Goes
  <2>3. SlotTypes'
    BY <1>1, <1>9, <2>1, <2>6 DEF SlotTypes
  <2>4. SlotOf(u)'
    BY <1>1, <2>2, <2>6, GoesElsewhere
  <2>5. ASSUME NEW t \in Sleepers, t # u PROVE SlotOf(t)'
    BY <1>1, <2>1, <2>2, <2>5, GoesKeepsOthers
  <2> QED BY <2>3, <2>4, <2>5 DEF SlotInv
<1> QED BY <1>3, <1>4, <1>5, <1>6, <1>7, <1>8 DEF Sleep

LEMMA ReadersKeepSlots ==
  ASSUME KernelInv, SlotInv, NEW u \in ExtTask, NEW l \in Elsewhere, Goes(u, l),
         UNCHANGED <<isTaskSleeping, sleeperTask_ID>>, slot' \in {slot, [slot EXCEPT ![u] = 0]}
  PROVE  SlotInv'
<1>1. SlotTypes /\ \A t \in Sleepers : SlotOf(t) /\ t \in ExtTask
  BY SleeperTasks DEF SlotInv
<1>2. SlotTypes'
  <2>1. 0 \in 0 .. N_TASKS /\ l \in Place
    BY SleeperTasks DEF Place
  <2>2. slot' \in [ExtTask -> 0 .. N_TASKS]
    BY <1>1, <2>1 DEF SlotTypes
  <2>3. pc' \in [ExtTask -> Place]
    BY <1>1, <2>1 DEF SlotTypes, Goes
  <2> QED BY <1>1, <2>2, <2>3 DEF SlotTypes
<1>3. SlotOf(u)'
  BY <1>1, GoesElsewhere DEF Goes
<1>4. ASSUME NEW t \in Sleepers, t # u PROVE SlotOf(t)'
  <2>1. slot'[t] = slot[t]
    BY <1>1, <1>4 DEF SlotTypes
  <2> QED BY <1>1, <1>4, <2>1, GoesKeepsOthers
<1> QED BY <1>2, <1>3, <1>4 DEF SlotInv

\* The handler, the kernel and the hardware; MonitorWake gives a slot back and sets the event.
LEMMA OthersKeepSlots ==
  ASSUME KernelInv, SlotInv, UNCHANGED <<pc, slot, isTaskSleeping, sleeperTask_ID>>,
         \A t \in ExtTask : Undisturbed(t)
  PROVE  SlotInv'
<1>1. SlotTypes'
  BY DEF SlotInv, SlotTypes
<1>2. ASSUME NEW t \in Sleepers PROVE SlotOf(t)'
  <2>1. PICK i : i = slot[t]
    OBVIOUS
  <2>2. t \in ExtTask /\ SlotOf(t) /\ SlotTypes
    BY SleeperTasks DEF SlotInv
  <2> QED BY <2>1, <2>2, OthersKeepSlot
<1> QED BY <1>1, <1>2 DEF SlotInv

LEMMA WakeKeepsSlots ==
  ASSUME KernelInv, SlotInv, UNCHANGED <<pc, slot, sleeperTask_ID>>, NEW i \in Slot,
         isTaskSleeping' = [isTaskSleeping EXCEPT ![i] = FALSE], isTaskSleeping[i],
         SetEvent(sleeperTask_ID[i], {EventSleep})
  PROVE  SlotInv'
<1>1. SlotTypes /\ SlotTypes'
  BY DEF SlotInv, SlotTypes
<1>2. ASSUME NEW t \in Sleepers PROVE SlotOf(t)'
  <2>1. t \in ExtTask /\ SlotOf(t)
    BY SleeperTasks DEF SlotInv
  <2>2. Undisturbed(t)
        /\ tcb_curevt' = [tcb_curevt EXCEPT ![sleeperTask_ID[i]] = @ \cup {EventSleep}]
    BY <2>1, SetEventUndisturbed
  <2>3. PICK j : j = slot[t]
    OBVIOUS
  <2>4. CASE j # i
    <3>1. j \in Slot => isTaskSleeping'[j] = isTaskSleeping[j]
      BY <1>1, <2>4 DEF SlotTypes
    <3> QED BY <1>1, <2>1, <2>2, <2>3, <3>1, OthersKeepSlot
  <2>5. CASE j = i
    <3>1. pc[t] \notin Choosing
      BY <2>1, <2>3, <2>5 DEF SlotOf
    <3>2. Started(t) => Started(t)'
      BY <2>2 DEF Undisturbed
    <3>3. Waits(t)' => Waits(t) /\ tcb_waievt'[t] = tcb_waievt[t]
      BY <2>2 DEF Undisturbed, Waits
    <3>4. ASSUME pc[t] \in Taking \/ Waits(t)' PROVE Owns(t)'
      <4>1. Owns(t)
        BY <2>1, <3>3, <3>4 DEF SlotOf
      <4>2. sleeperTask_ID[i] = t
        BY <2>3, <2>5, <4>1 DEF Owns
      <4>3. EventSleep \in tcb_curevt'[t]
        <5>1. tcb_curevt \in [ExtTask -> SUBSET Event]
          BY DEF KernelInv, DispatchInv, BlockTypes
        <5> QED BY <2>1, <2>2, <4>2, <5>1
      <4> QED BY <4>1, <4>3 DEF Owns
    <3> QED BY <2>1, <3>1, <3>2, <3>3, <3>4 DEF SlotOf, Choosing
  <2> QED BY <2>4, <2>5
<1> QED BY <1>1, <1>2 DEF SlotInv

LEMMA SamplesStep == [SamplesNext]_sleepVars => [Next]_vars
<1>1. ASSUME NEW u \in ExtTask, SampleStep(u) PROVE [Next]_vars
  <2>1. CASE u \in Sleepers /\ Sleep(u, duration[u], "Run")
    <3>1. \/ UNCHANGED vars
          \/ \E h, l : WaitStep(u, EventSleep, h, l) \/ ClearStep(u, EventSleep, h, l)
      BY <2>1 DEF Sleep, Scan, SaveId, SetFlag, SetCounter
    <3> QED BY <3>1, SleepEvents, WaitStepIsKernelStep, ClearStepIsKernelStep
  <2>2. CASE ~(u \in Sleepers /\ Sleep(u, duration[u], "Run"))
    <3>1. Calls
      BY <1>1, <2>2, ReaderGoes DEF Goes
    <3> QED BY <3>1, WaitIsKernelStep, ClearIsKernelStep DEF Calls
  <2> QED BY <2>1, <2>2
<1>2. CASE \E p \in Port : TransactionEnds(p)
  BY <1>2 DEF TransactionEnds
<1>3. CASE Tick
  BY <1>3, SleepEvents DEF Tick, Next
<1>4. CASE SleeperMonitor \/ TickReturns \/ KernelStep
  BY <1>4, MonitorIsKernelStep
<1>5. CASE UNCHANGED sleepVars
  BY <1>5 DEF sleepVars
<1> QED BY <1>1, <1>2, <1>3, <1>4, <1>5 DEF SamplesNext

LEMMA InitSlots == SamplesInit => Init /\ SlotInv
<1> SUFFICES ASSUME SamplesInit PROVE Init /\ SlotInv
  OBVIOUS
<1>1. /\ Init /\ pc = [t \in ExtTask |-> "Run"] /\ slot = [t \in ExtTask |-> 0]
      /\ isTaskSleeping = [i \in Slot |-> FALSE] /\ sleeperTask_ID = [i \in Slot |-> 0]
  BY DEF SamplesInit, SleeperInit
<1>2. SlotTypes
  <2>1. "Run" \in Place /\ 0 \in 0 .. N_TASKS
    BY SleeperTasks DEF Place, Elsewhere
  <2> QED BY <1>1, <2>1 DEF SlotTypes
<1>3. ASSUME NEW t \in Sleepers PROVE SlotOf(t)
  <2>1. pc[t] = "Run"
    BY <1>1, SleeperTasks
  <2> QED BY <2>1 DEF SlotOf, Waits, Choosing, Taking
<1> QED BY <1>1, <1>2, <1>3 DEF SlotInv

LEMMA NextSlots ==
  ASSUME KernelInv, LeadInv, SleepersAtOnePriority, SlotInv, [SamplesNext]_sleepVars
  PROVE  SlotInv'
<1>1. ASSUME NEW u \in ExtTask, SampleStep(u) PROVE SlotInv'
  <2>1. CASE u \in Sleepers /\ Sleep(u, duration[u], "Run")
    BY <2>1, SleepKeepsSlots
  <2>2. CASE ~(u \in Sleepers /\ Sleep(u, duration[u], "Run"))
    BY <1>1, <2>2, ReaderGoes, ReadersKeepSlots
  <2> QED BY <2>1, <2>2
<1>2. CASE UNCHANGED <<vars, pc, slot, isTaskSleeping, sleeperTask_ID>>
  BY <1>2, HandlerUndisturbed, OthersKeepSlots
<1>3. \/ (\E p \in Port : TransactionEnds(p)) \/ MonitorCount \/ UNCHANGED sleepVars
      => UNCHANGED <<vars, pc, slot, isTaskSleeping, sleeperTask_ID>>
  BY DEF TransactionEnds, MonitorCount, sleepVars, tasksleep
<1>4. CASE Tick \/ TickReturns
  <2>1. UNCHANGED <<pc, slot, isTaskSleeping, sleeperTask_ID>>
    BY <1>4 DEF Tick, TickReturns, tasksleep
  <2>2. InterruptReturn \/ \E i : Interrupt(i)
    BY <1>4 DEF Tick, TickReturns
  <2> QED BY <2>1, <2>2, HandlerUndisturbed, OthersKeepSlots
<1>5. CASE KernelStep
  <2>1. UNCHANGED <<pc, slot, isTaskSleeping, sleeperTask_ID>>
    BY <1>5 DEF KernelStep, tasksleep
  <2> QED BY <1>5, <2>1, StartUndisturbed, OthersKeepSlots DEF KernelStep
<1>6. CASE MonitorI2C
  <2>1. UNCHANGED <<pc, slot, isTaskSleeping, sleeperTask_ID>>
    BY <1>6 DEF MonitorI2C, tasksleep
  <2>2. UNCHANGED vars \/ \E u : SetEvent(u, {EventSleepI2C})
    BY <1>6 DEF MonitorI2C
  <2> QED BY <2>1, <2>2, <1>2, SetEventUndisturbed, OthersKeepSlots
<1>7. CASE MonitorWake
  <2>1. UNCHANGED <<pc, slot, sleeperTask_ID>>
    BY <1>7 DEF MonitorWake
  <2>2. \/ UNCHANGED <<vars, isTaskSleeping>>
        \/ \E i \in Slot : /\ isTaskSleeping[i] /\ SetEvent(sleeperTask_ID[i], {EventSleep})
                           /\ isTaskSleeping' = [isTaskSleeping EXCEPT ![i] = FALSE]
    BY <1>7 DEF MonitorWake, DueTasks
  <2> QED BY <2>1, <2>2, <1>2, WakeKeepsSlots
<1> QED BY <1>1, <1>2, <1>3, <1>4, <1>5, <1>6, <1>7 DEF SamplesNext, SleeperMonitor

LEMMA SlotsAreOwned == SlotInv => SlotsOwned
BY DEF SlotInv, SlotOf, SlotsOwned, Taking, Waits, Owns

\* Tasks of one priority never share a slot of Sleep, though they test and set the flag of the
\* slot in two steps: for every number of tasks and slots, and wherever ticks and tasks of
\* other priorities come in between (rtoscalls.c, Sleep and SleeperMonitor).
THEOREM SlotsKept == SleepersAtOnePriority => (SamplesSpec => []SlotsOwned)
<1> SUFFICES ASSUME SleepersAtOnePriority PROVE SamplesSpec => []SlotsOwned
  OBVIOUS
<1>1. SamplesInit => KernelInv /\ LeadInv /\ SlotInv
  BY InitSlots, Inductive
<1>2. KernelInv /\ LeadInv /\ SlotInv /\ [SamplesNext]_sleepVars
        => (KernelInv /\ LeadInv /\ SlotInv)'
  BY SamplesStep, Inductive, NextSlots
<1> QED BY <1>1, <1>2, SlotsAreOwned, PTL DEF SamplesSpec
================================================================================
