------------------------------ MODULE JspServices ------------------------------
(***************************************************************************)
(* The services of the TOPPERS/JSP kernel on tasks: kernel/task_manage.c,  *)
(* task_sync.c, task_except.c, sys_manage.c and cyclic.c.  Each operator   *)
(* gives the kernel's state at the end of a service that returns E_OK or   *)
(* that makes its caller wait; a service that fails changes nothing.  The  *)
(* task-level service and the one of interrupt handlers share it.          *)
(***************************************************************************)
EXTENDS JspWait

CONSTANT MaxTexNest   \* how deep exception routines may nest: a bound of the model

--------------------------------------------------------------------------------
(* task_manage.c *)

act_tsk(k, t) ==
  IF TSTAT_DORMANT(k, t) THEN make_active(k, t) ELSE [k EXCEPT !.tcb[t].actcnt = TRUE]

can_act(k, t) == [k EXCEPT !.tcb[t].actcnt = FALSE]

\* Also from the dispatch disabled state and with the CPU locked, with a message in the log.
ext_tsk(k) == exit_task([k EXCEPT !.enadsp = TRUE, !.locked = FALSE])

\* wait_cancel leaves the state to make_dormant.
ter_tsk(k, t) ==
  LET out == IF TSTAT_RUNNABLE(k, t) THEN make_non_runnable(k, t)
             ELSE IF TSTAT_WAITING(k, t) THEN wait_cancel(k, t)
             ELSE k
  IN  Reactivate(make_dormant(out, t), t)

chg_pri(k, t, newpri) ==
  IF TSTAT_RUNNABLE(k, t) THEN change_priority(k, t, newpri)
  ELSE LET set == [k EXCEPT !.tcb[t].priority = newpri]
       IN  IF "WAIT_WOBJCB" \in k.tcb[t].tstat THEN wobj_change_priority(set, t) ELSE set

--------------------------------------------------------------------------------
(* task_sync.c.  slp_tsk is tslp_tsk without end. *)

tslp_tsk(k, tmout) ==
  IF k.tcb[k.runtsk].wupcnt THEN [k EXCEPT !.tcb[k.runtsk].wupcnt = FALSE]
  ELSE make_wait_tmout(k, {"WAIT_SLEEP"}, NoData, tmout)

wup_tsk(k, t) ==
  IF "WAIT_SLEEP" \in k.tcb[t].tstat THEN wait_complete(k, t)
  ELSE [k EXCEPT !.tcb[t].wupcnt = TRUE]

can_wup(k, t) == [k EXCEPT !.tcb[t].wupcnt = FALSE]

sus_tsk(k, t) ==
  IF TSTAT_RUNNABLE(k, t)
  THEN make_non_runnable([k EXCEPT !.tcb[t].tstat = {"SUSPENDED"}], t)
  ELSE [k EXCEPT !.tcb[t].tstat = @ \cup {"SUSPENDED"}]

rsm_tsk(k, t) ==
  IF TSTAT_WAITING(k, t) THEN [k EXCEPT !.tcb[t].tstat = @ \ {"SUSPENDED"}]
  ELSE make_runnable(k, t)

dly_tsk(k, dlytim) == WatchTime(MakeWaiting(k, {}, NoData), "wait_tmout_ok", dlytim)

--------------------------------------------------------------------------------
(* task_except.c.  Only the task that runs takes its exception at once; in  *)
(* an interrupt that is left to the end of the interrupt.                   *)

RaiseException(k, t) == [k EXCEPT !.tcb[t].texptn = TRUE]

ras_tex(k, t) == calltex(RaiseException(k, t))

iras_tex(k, t) ==
  [RaiseException(k, t) EXCEPT !.ret = t = k.runtsk /\ k.tcb[t].enatex]

dis_tex(k) == [k EXCEPT !.tcb[k.runtsk].enatex = FALSE]
ena_tex(k) == calltex([k EXCEPT !.tcb[k.runtsk].enatex = TRUE])

--------------------------------------------------------------------------------
(* sys_manage.c *)

rot_rdq(k, pri) == rotate_ready_queue(k, pri)
loc_cpu(k)      == [k EXCEPT !.locked = TRUE]
unl_cpu(k)      == [k EXCEPT !.locked = FALSE]
dis_dsp(k)      == [k EXCEPT !.enadsp = FALSE]
ena_dsp(k)      == [k EXCEPT !.enadsp = TRUE, !.ret = k.runtsk # k.schedtsk]

--------------------------------------------------------------------------------
(* cyclic.c.  evttim of a handler that is stopped is not read again: 0. *)

tmevtb_enqueue_cyc(k, c, evttim) ==
  [tmevtb_insert(k, c, "call_cychdr", evttim) EXCEPT !.evttim[c] = evttim]

StopCyclic(k, c) ==
  IF k.cycsta[c] THEN [tmevtb_delete(k, c) EXCEPT !.cycsta[c] = FALSE, !.evttim[c] = 0] ELSE k

sta_cyc(k, c) ==
  tmevtb_enqueue_cyc([StopCyclic(k, c) EXCEPT !.cycsta[c] = TRUE], c,
                     Wrap(base_time(k) + k.cfg.cyctim[c]))

\* The next call is registered before the handler runs, which it does with the CPU unlocked.
call_cychdr(k, c) == tmevtb_enqueue_cyc(k, c, Wrap(k.evttim[c] + k.cfg.cyctim[c]))

\* A step of isig_tim: the callback of the event at the top of the heap.
DeliverEvent(k) ==
  LET event == k.heap[1]
      rest  == tmevtb_delete_top(k)
  IN  CASE event.callback = "wait_tmout"    -> wait_tmout(rest, event.owner)
        [] event.callback = "wait_tmout_ok" -> wait_tmout_ok(rest, event.owner)
        [] event.callback = "call_cychdr"   -> call_cychdr(rest, event.owner)

================================================================================
