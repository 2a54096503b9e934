------------------------------- MODULE JspKernel -------------------------------
(***************************************************************************)
(* The TOPPERS/JSP kernel: tasks that call its services, interrupt         *)
(* handlers that call theirs, and the timer's interrupt, on the state that *)
(* JspTime to JspObjects give operators for.                               *)
(*                                                                         *)
(* A service runs with the CPU locked, up to the dispatch it ends with: it *)
(* is one action.  The handlers of isig_tim run one per action, since the  *)
(* CPU is unlocked between them.  A system has the configuration that its  *)
(* kernel_cfg.c gives it: the object, the priorities, and here also which  *)
(* services its program calls and with which arguments.                    *)
(***************************************************************************)
EXTENDS JspObjects, FiniteSets

CONSTANT Configurations

\* The services of each kind of object.
ServicesOf ==
  [none |-> {}, sem |-> {"sem", "isig_sem"}, flg |-> {"flg", "iset_flg"},
   dtq |-> {"dtq", "ipsnd_dtq", "fsnd_dtq"}, mbx |-> {"mbx"}, mpf |-> {"mpf"}]

\* What the configurator and the checks of the services' arguments ensure.
Configured(cfg) ==
  /\ cfg.ipriority \in [Task -> Priority] /\ cfg.pris \subseteq Priority
  /\ cfg.active \subseteq Task /\ cfg.texrtn \subseteq Task
  /\ cfg.tmouts \subseteq {TMO_FEVR} \cup 1 .. TMAX_RELTIM /\ cfg.dlytims \subseteq 0 .. TMAX_RELTIM
  /\ cfg.handlers \subseteq Cyclic /\ cfg.started \subseteq Cyclic
  /\ cfg.cyctim \in [Cyclic -> 1 .. TMAX_RELTIM] /\ cfg.cycphs \in [Cyclic -> 0 .. TMAX_RELTIM]
  /\ cfg.tpri \in BOOLEAN /\ cfg.clr \in BOOLEAN /\ cfg.mpri \in BOOLEAN /\ cfg.fifo \in BOOLEAN
  /\ cfg.items \in Nat /\ cfg.limit \in Nat
  /\ cfg.object \in DOMAIN ServicesOf
  /\ \A object \in DOMAIN ServicesOf \ {cfg.object} : cfg.services \cap ServicesOf[object] = {}

\* What the object holds at first, and when its data or messages keep their order.
HoldsAtFirst(cfg) ==
  /\ cfg.object = "sem" => cfg.store \in 0 .. cfg.limit
  /\ cfg.object = "flg" => cfg.store \subseteq UNION cfg.ptns
  /\ cfg.object \in {"dtq", "mbx"} => cfg.store = << >>
  /\ cfg.object = "mpf" => cfg.store \in Seq(1 .. cfg.limit) /\ IsInjective(cfg.store)
  /\ cfg.mpri => cfg.msgpri \in [1 .. cfg.items -> Nat]
  /\ cfg.fifo => /\ cfg.object \in {"dtq", "mbx"}
                 /\ cfg.object = "mbx" => ~cfg.mpri
                 /\ cfg.object = "dtq" => ~cfg.tpri /\ "fsnd_dtq" \notin cfg.services

ASSUME ConfigurationTable == \A cfg \in Configurations : Configured(cfg) /\ HoldsAtFirst(cfg)

VARIABLE kernel

NothingSent(cfg) ==
  [obj |-> [wait_queue |-> << >>, rwait_queue |-> << >>, store |-> cfg.store],
   sent |-> 0, delivered |-> << >>, held |-> [t \in Task |-> {}]]

NoHandlers(cfg) ==
  [cfg |-> cfg, interrupt |-> FALSE, ticking |-> FALSE, locked |-> FALSE,
   cycsta |-> [c \in Cyclic |-> FALSE], evttim |-> [c \in Cyclic |-> 0]]

Merged(f, g) == [x \in DOMAIN f \cup DOMAIN g |-> IF x \in DOMAIN f THEN f[x] ELSE g[x]]

\* task_initialize and cyclic_initialize, which go through their tables in order.
Initialized(cfg) ==
  LET none == Merged(Merged(NoTaskActive(cfg), NoEvents), Merged(NothingSent(cfg), NoHandlers(cfg)))
      tasks[t \in 0 .. TNUM_TSK] ==
        IF t = 0 THEN none
        ELSE IF t \in cfg.active THEN make_active(tasks[t - 1], t) ELSE tasks[t - 1]
      handlers[c \in TNUM_TSK .. TNUM_TSK + TNUM_CYC] ==
        IF c = TNUM_TSK THEN tasks[TNUM_TSK]
        ELSE IF c \in cfg.started
        THEN tmevtb_enqueue_cyc([handlers[c - 1] EXCEPT !.cycsta[c] = TRUE], c, cfg.cycphs[c])
        ELSE handlers[c - 1]
  IN  handlers[TNUM_TSK + TNUM_CYC]

\* kernel_start ends in exit_and_dispatch.
Init == \E cfg \in Configurations : kernel = dispatch(Initialized(cfg))

--------------------------------------------------------------------------------
(* Who may call: CHECK_TSKCTX_UNL, CHECK_DISPATCH and CHECK_INTCTX_UNL. *)

Has(service) == service \in kernel.cfg.services
TaskContext  == ~kernel.interrupt /\ kernel.runtsk # NULL

InTask(service)    == Has(service) /\ TaskContext /\ ~kernel.locked
MayWait(service)   == InTask(service) /\ kernel.enadsp
InHandler(service) == Has(service) /\ kernel.interrupt

Returns(next) == kernel' = Dispatched(next)
Leaves(next)  == kernel' = Requested(next)

Others == Task \ {kernel.runtsk}

--------------------------------------------------------------------------------
(* Tasks. *)

ActTsk == InTask("act_tsk") /\ \E t \in Task : Returns(act_tsk(kernel, t))
IactTsk == InHandler("iact_tsk") /\ \E t \in Task : Leaves(act_tsk(kernel, t))
CanAct == InTask("can_act") /\ \E t \in Task : Returns(can_act(kernel, t))
ExtTsk == Has("ext_tsk") /\ TaskContext /\ kernel' = ext_tsk(kernel)
TerTsk == InTask("ter_tsk") /\ \E t \in Others : ~TSTAT_DORMANT(kernel, t) /\ Returns(ter_tsk(kernel, t))

ChgPri ==
  /\ InTask("chg_pri")
  /\ \E t \in Task, pri \in kernel.cfg.pris :
       ~TSTAT_DORMANT(kernel, t) /\ Returns(chg_pri(kernel, t, pri))

TslpTsk == MayWait("tslp_tsk") /\ \E tmout \in kernel.cfg.tmouts : Returns(tslp_tsk(kernel, tmout))
DlyTsk  == MayWait("dly_tsk") /\ \E time \in kernel.cfg.dlytims : Returns(dly_tsk(kernel, time))

WupTsk ==
  InTask("wup_tsk") /\ \E t \in Task : ~TSTAT_DORMANT(kernel, t) /\ Returns(wup_tsk(kernel, t))

IwupTsk ==
  InHandler("iwup_tsk") /\ \E t \in Task : ~TSTAT_DORMANT(kernel, t) /\ Leaves(wup_tsk(kernel, t))

CanWup ==
  InTask("can_wup") /\ \E t \in Task : ~TSTAT_DORMANT(kernel, t) /\ Returns(can_wup(kernel, t))

RelWai ==
  InTask("rel_wai") /\ \E t \in Task : TSTAT_WAITING(kernel, t) /\ Returns(wait_release(kernel, t))

IrelWai ==
  InHandler("irel_wai") /\ \E t \in Task : TSTAT_WAITING(kernel, t) /\ Leaves(wait_release(kernel, t))

SusTsk ==
  /\ InTask("sus_tsk")
  /\ \E t \in Task :
       /\ t = kernel.runtsk => kernel.enadsp
       /\ ~TSTAT_DORMANT(kernel, t) /\ ~TSTAT_SUSPENDED(kernel, t)
       /\ Returns(sus_tsk(kernel, t))

RsmTsk ==
  InTask("rsm_tsk") /\ \E t \in Others : TSTAT_SUSPENDED(kernel, t) /\ Returns(rsm_tsk(kernel, t))

\* Of the tasks with an exception routine.
CanRaise(t) == t \in kernel.cfg.texrtn /\ ~TSTAT_DORMANT(kernel, t)

RasTex ==
  InTask("ras_tex") /\ \E t \in Task : CanRaise(t) /\ Returns(ras_tex(kernel, t))

IrasTex == InHandler("ras_tex") /\ \E t \in Task : CanRaise(t) /\ Leaves(iras_tex(kernel, t))

DisTex == InTask("ras_tex") /\ kernel.runtsk \in kernel.cfg.texrtn /\ Returns(dis_tex(kernel))

EnaTex ==
  /\ InTask("ras_tex") /\ kernel.runtsk \in kernel.cfg.texrtn
  /\ kernel.tcb[kernel.runtsk].texnest < MaxTexNest
  /\ Returns(ena_tex(kernel))

\* The exception routine of the task that runs returns, the CPU locked or not.
TexReturn ==
  /\ TaskContext /\ kernel.tcb[kernel.runtsk].texnest > 0
  /\ kernel' = [TexReturned(kernel) EXCEPT !.locked = FALSE]

RotRdq == InTask("rot_rdq") /\ \E pri \in Priority : Returns(rot_rdq(kernel, pri))
IrotRdq == InHandler("irot_rdq") /\ \E pri \in Priority : Leaves(rot_rdq(kernel, pri))
LocCpu == InTask("loc_cpu") /\ Returns(loc_cpu(kernel))
UnlCpu == TaskContext /\ kernel.locked /\ Returns(unl_cpu(kernel))
DisDsp == InTask("dis_dsp") /\ Returns(dis_dsp(kernel))
EnaDsp == InTask("dis_dsp") /\ Returns(ena_dsp(kernel))

--------------------------------------------------------------------------------
(* Objects.  The poll of a service succeeds when the service would not wait. *)

SemaphoreFull == NoWaiters(kernel) /\ kernel.obj.store = kernel.cfg.limit

SigSem  == InTask("sem") /\ ~SemaphoreFull /\ Returns(sig_sem(kernel))
IsigSem == InHandler("isig_sem") /\ ~SemaphoreFull /\ Leaves(sig_sem(kernel))
WaiSem  == MayWait("sem") /\ \E tmout \in kernel.cfg.tmouts : Returns(twai_sem(kernel, tmout))
PolSem  == InTask("sem") /\ kernel.obj.store >= 1 /\ Returns(twai_sem(kernel, TMO_POL))

SetFlg  == InTask("flg") /\ \E ptn \in kernel.cfg.ptns : Returns(set_flg(kernel, ptn))
IsetFlg == InHandler("iset_flg") /\ \E ptn \in kernel.cfg.ptns : Leaves(set_flg(kernel, ptn))
ClrFlg  == InTask("flg") /\ \E ptn \in kernel.cfg.ptns : Returns(clr_flg(kernel, ptn))

\* A second task must not wait for the flag.
WaiFlg ==
  /\ MayWait("flg") /\ NoWaiters(kernel)
  /\ \E ptn \in kernel.cfg.ptns, mode \in {"TWF_ANDW", "TWF_ORW"}, tmout \in kernel.cfg.tmouts :
       Returns(twai_flg(kernel, ptn, mode, tmout))

PolFlg ==
  /\ InTask("flg") /\ NoWaiters(kernel)
  /\ \E ptn \in kernel.cfg.ptns, mode \in {"TWF_ANDW", "TWF_ORW"} :
       eventflag_cond(kernel, ptn, mode) /\ Returns(twai_flg(kernel, ptn, mode, TMO_POL))

MoreItems == kernel.sent < kernel.cfg.items
CanSend   == MoreItems /\ (kernel.obj.rwait_queue # << >> \/ HasRoom(kernel))
CanReceive == kernel.obj.store # << >> \/ ~NoWaiters(kernel)

SndDtq ==
  MayWait("dtq") /\ MoreItems /\ \E tmout \in kernel.cfg.tmouts : Returns(tsnd_dtq(kernel, tmout))

PsndDtq  == InTask("dtq") /\ CanSend /\ Returns(tsnd_dtq(kernel, TMO_POL))
IpsndDtq == InHandler("ipsnd_dtq") /\ CanSend /\ Leaves(tsnd_dtq(kernel, TMO_POL))
FsndDtq  == InTask("fsnd_dtq") /\ kernel.cfg.limit > 0 /\ MoreItems /\ Returns(fsnd_dtq(kernel))
IfsndDtq == InHandler("fsnd_dtq") /\ kernel.cfg.limit > 0 /\ MoreItems /\ Leaves(fsnd_dtq(kernel))
RcvDtq   == MayWait("dtq") /\ \E tmout \in kernel.cfg.tmouts : Returns(trcv_dtq(kernel, tmout))
PrcvDtq  == InTask("dtq") /\ CanReceive /\ Returns(trcv_dtq(kernel, TMO_POL))

SndMbx  == InTask("mbx") /\ MoreItems /\ Returns(snd_mbx(kernel))
RcvMbx  == MayWait("mbx") /\ \E tmout \in kernel.cfg.tmouts : Returns(trcv_mbx(kernel, tmout))
PrcvMbx == InTask("mbx") /\ kernel.obj.store # << >> /\ Returns(trcv_mbx(kernel, TMO_POL))

GetMpf  == MayWait("mpf") /\ \E tmout \in kernel.cfg.tmouts : Returns(tget_mpf(kernel, tmout))
PgetMpf == InTask("mpf") /\ kernel.obj.store # << >> /\ Returns(tget_mpf(kernel, TMO_POL))

RelMpf ==
  /\ InTask("mpf")
  /\ \E t \in Task : \E blk \in kernel.held[t] : Returns(rel_mpf(kernel, t, blk))

--------------------------------------------------------------------------------
(* Interrupts and time. *)

StaCyc == InTask("sta_cyc") /\ \E c \in kernel.cfg.handlers : Returns(sta_cyc(kernel, c))
StpCyc == InTask("sta_cyc") /\ \E c \in kernel.cfg.handlers : Returns(StopCyclic(kernel, c))

\* The interrupt of a device, whose handler calls services.
Interrupt ==
  /\ Has("interrupt") /\ ~kernel.interrupt /\ ~kernel.locked
  /\ kernel' = [kernel EXCEPT !.interrupt = TRUE]

\* The timer's interrupt calls isig_tim.  The services of handlers that may run between
\* its steps are those of cyclic handlers and of the interrupts it is interrupted by.
TimerInterrupt ==
  /\ Has("isig_tim") /\ ~kernel.interrupt /\ ~kernel.locked
  /\ kernel' = [kernel EXCEPT !.interrupt = TRUE, !.ticking = TRUE]

TickDelivers ==
  /\ kernel.ticking /\ EventDue(kernel)
  /\ kernel' = DeliverEvent(kernel)

TickEnds ==
  /\ kernel.ticking /\ ~EventDue(kernel)
  /\ kernel' = [NextTick(kernel) EXCEPT !.ticking = FALSE]

InterruptReturns ==
  /\ kernel.interrupt /\ ~kernel.ticking
  /\ kernel' = ret_int([kernel EXCEPT !.interrupt = FALSE])

--------------------------------------------------------------------------------
TaskNext ==
  \/ ActTsk \/ IactTsk \/ CanAct \/ ExtTsk \/ TerTsk \/ ChgPri
  \/ TslpTsk \/ DlyTsk \/ WupTsk \/ IwupTsk \/ CanWup \/ RelWai \/ IrelWai \/ SusTsk \/ RsmTsk
  \/ RasTex \/ IrasTex \/ DisTex \/ EnaTex \/ TexReturn
  \/ RotRdq \/ IrotRdq \/ LocCpu \/ UnlCpu \/ DisDsp \/ EnaDsp

ObjectNext ==
  \/ SigSem \/ IsigSem \/ WaiSem \/ PolSem
  \/ SetFlg \/ IsetFlg \/ ClrFlg \/ WaiFlg \/ PolFlg
  \/ SndDtq \/ PsndDtq \/ IpsndDtq \/ FsndDtq \/ IfsndDtq \/ RcvDtq \/ PrcvDtq
  \/ SndMbx \/ RcvMbx \/ PrcvMbx
  \/ GetMpf \/ PgetMpf \/ RelMpf

TimeNext ==
  StaCyc \/ StpCyc \/ Interrupt \/ TimerInterrupt \/ TickDelivers \/ TickEnds \/ InterruptReturns

Next == TaskNext \/ ObjectNext \/ TimeNext
Spec == Init /\ [][Next]_kernel

--------------------------------------------------------------------------------
(* Properties. *)

Ready(p) == kernel.ready_queue[p]
Places(q, t) == Cardinality({i \in DOMAIN q : q[i] = t})

\* The ready queues hold the runnable tasks, each once, at its priority; schedtsk is the first
\* task of the highest one; and outside of interrupts, unless a task has disabled dispatching,
\* that task runs (task.h:208-218).  Services that change priorities, suspend, wake, start and
\* end tasks keep schedtsk by cases, and must dispatch in just the cases in which it changes.
RunsFirstReadyTask ==
  /\ \A t \in Task, p \in Priority :
       Places(Ready(p), t) = IF TSTAT_RUNNABLE(kernel, t) /\ kernel.tcb[t].priority = p THEN 1 ELSE 0
  /\ kernel.ready_primap = {p \in Priority : Ready(p) # << >>}
  /\ kernel.schedtsk = IF kernel.ready_primap = {} THEN NULL ELSE search_schedtsk(kernel)
  /\ ~kernel.interrupt /\ kernel.enadsp => kernel.runtsk = kernel.schedtsk

\* A task is in a wait queue exactly while it waits for the object, once, in the common queue
\* if TS_WAIT_WOBJCB says so (task.h:94-119), and a queue by priority is in that order also
\* after priorities of waiting tasks have changed.
WaitQueuesMatchStates ==
  LET common == kernel.obj.wait_queue
      second == kernel.obj.rwait_queue
      bits(t) == kernel.tcb[t].tstat
  IN  /\ \A t \in Task :
           /\ Places(common, t) = IF "WAIT_WOBJCB" \in bits(t) THEN 1 ELSE 0
           /\ Places(second, t) = IF {"WAIT_WOBJ"} = bits(t) \cap {"WAIT_WOBJ", "WAIT_WOBJCB"}
                                  THEN 1 ELSE 0
      /\ kernel.cfg.tpri =>
           \A i, j \in DOMAIN common :
             i < j => kernel.tcb[common[i]].priority <= kernel.tcb[common[j]].priority

\* No task waits for what the object has: a semaphore with a count, a flag with the task's
\* pattern, a data queue with room or data, a mailbox with a message, a pool with a block.
NoneWaitsForWhatIsThere ==
  LET store  == kernel.obj.store
      object == kernel.cfg.object
      want   == kernel.tcb[FirstWaiting(kernel)].data
  IN  /\ ~NoWaiters(kernel) =>
           CASE object = "sem" -> store = 0
             [] object = "flg" -> ~eventflag_cond(kernel, want[1], want[2])
             [] object = "dtq" -> Len(store) = kernel.cfg.limit
             [] OTHER          -> store = << >>
      /\ kernel.obj.rwait_queue # << >> => store = << >> /\ NoWaiters(kernel)

\* A time event is in the heap for each task that waits with a timeout and each cyclic handler
\* that is started, for nothing else, and its block knows its place: an event left behind by a
\* wait that ended would end another wait of the task, or write to a stack frame that is gone.
EventsMatchWaits ==
  LET heap == kernel.heap IN
  /\ {heap[i].owner : i \in DOMAIN heap} =
       {t \in Task : TSTAT_WAITING(kernel, t) /\ kernel.tcb[t].winfo = TMEVTB}
         \cup {c \in Cyclic : kernel.cycsta[c]}
  /\ \A i \in DOMAIN heap : kernel.index[heap[i].owner] = i

\* A task that runs with its exceptions enabled has none pending: the exception routine starts
\* in the service, at the end of the interrupt or with the dispatch, whichever comes first.
ExceptionsAreTaken ==
  ~kernel.interrupt /\ kernel.runtsk # NULL =>
    ~(kernel.tcb[kernel.runtsk].enatex /\ kernel.tcb[kernel.runtsk].texptn)

\* Data and messages arrive in the order in which they were sent, none of them twice, whether
\* they go through the buffer, straight to a receiver or wait with their sender.  (In a queue
\* by priority, or with fsnd_dtq, which drops and overtakes, the order is another.)
ArrivesInOrder ==
  LET item == kernel.delivered IN
  kernel.cfg.fifo => \A i, j \in DOMAIN item : i < j => item[i] < item[j]

\* A block of a memory pool is free or a task's, never twice.
BlocksHaveOneOwner ==
  LET free == kernel.obj.store IN
  kernel.cfg.object = "mpf" =>
    \A t \in Task : \A blk \in kernel.held[t] :
      Places(free, blk) = 0 /\ \A u \in Task \ {t} : blk \notin kernel.held[u]

\* The heap and its wrapping times are timers that go off at their time, neither early nor late.
PeriodOf(t) == IF t \in Cyclic THEN kernel.cfg.cyctim[t] ELSE 0
TimeLeft ==
  [o \in {kernel.heap[i].owner : i \in DOMAIN kernel.heap} |->
     Ahead(kernel, kernel.heap[CHOOSE i \in DOMAIN kernel.heap : kernel.heap[i].owner = o].time)]

Timers == INSTANCE JspTimers WITH
  Timer <- EventOwner, Tic <- TIC_NUME, MaxTime <- TMAX_RELTIM,
  left <- TimeLeft, period <- [t \in EventOwner |-> PeriodOf(t)], ticking <- kernel.ticking

GoesOffInTime == Timers!Spec

================================================================================
