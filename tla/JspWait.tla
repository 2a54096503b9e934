-------------------------------- MODULE JspWait --------------------------------
(***************************************************************************)
(* How a task of the TOPPERS/JSP kernel starts and ends to wait            *)
(* (kernel/wait.c): operators on the record k of the kernel's state.       *)
(*                                                                         *)
(* k.obj is the one communication object of the configuration.  Its        *)
(* wait_queue is the one of the common control block WOBJCB; rwait_queue   *)
(* is the second queue of a data queue, of the tasks that receive.         *)
(***************************************************************************)
EXTENDS JspTask

TMO_POL  == 0
TMO_FEVR == -1

\* queue_delete of a task that is on whichever queue of the object.
LeaveQueues(k, t) ==
  [k EXCEPT !.obj.wait_queue = queue_delete(@, t), !.obj.rwait_queue = queue_delete(@, t)]

--------------------------------------------------------------------------------
(* Plausible faults of the functions below; the project's mutants use them. *)

CancelKeepsTimer(k, t) ==
  IF "WAIT_WOBJ" \in k.tcb[t].tstat THEN LeaveQueues(k, t) ELSE k

KeepsPlace(k, t) == k

--------------------------------------------------------------------------------
(* The start of a wait.  The caller dispatches. *)

MakeWaiting(k, bits, data) ==
  LET t == k.runtsk
      out == make_non_runnable([k EXCEPT !.tcb[t].tstat = {"WAITING"} \cup bits], t)
  IN  [out EXCEPT !.tcb[t].winfo = Zero, !.tcb[t].data = data, !.ret = TRUE]

\* With a time event of the task, whose callback ends the wait.
WatchTime(k, callback, tmout) ==
  LET t == k.runtsk
  IN  tmevtb_enqueue([k EXCEPT !.tcb[t].winfo = TMEVTB], t, callback, tmout)

\* make_wait and make_wait_tmout.
make_wait_tmout(k, bits, data, tmout) ==
  LET waiting == MakeWaiting(k, bits, data)
  IN  IF tmout > 0 THEN WatchTime(waiting, "wait_tmout", tmout) ELSE waiting

\* In order of priority, after the tasks of equal priority.
queue_insert_tpri(k, t, queue) ==
  InsertBehind(queue, {i \in DOMAIN queue : k.tcb[queue[i]].priority <= k.tcb[t].priority}, t)

wobj_queue_insert(k, t) ==
  [k EXCEPT !.obj.wait_queue =
     IF k.cfg.tpri THEN queue_insert_tpri(k, t, @) ELSE Append(@, t)]

wobj_make_wait_tmout(k, data, tmout) ==
  wobj_queue_insert(make_wait_tmout(k, {"WAIT_WOBJ", "WAIT_WOBJCB"}, data, tmout), k.runtsk)

wobj_change_priority(k, t) ==
  IF k.cfg.tpri
  THEN [k EXCEPT !.obj.wait_queue = queue_insert_tpri(k, t, queue_delete(@, t))]
  ELSE k

--------------------------------------------------------------------------------
(* The end of a wait. *)

make_non_wait(k, t) ==
  IF TSTAT_SUSPENDED(k, t)
  THEN [k EXCEPT !.tcb[t].tstat = {"SUSPENDED"}, !.ret = FALSE]
  ELSE make_runnable(k, t)

\* tmevtb_dequeue, if the WINFO points to a time event.
StopWatch(k, t) == IF k.tcb[t].winfo # Zero THEN tmevtb_delete(k, t) ELSE k

wait_complete(k, t) ==
  make_non_wait([StopWatch(k, t) EXCEPT !.tcb[t].winfo = Zero], t)

wait_cancel(k, t) ==
  LET stopped == StopWatch(k, t)
  IN  IF "WAIT_WOBJ" \in k.tcb[t].tstat THEN LeaveQueues(stopped, t) ELSE stopped

wait_release(k, t) ==
  make_non_wait([wait_cancel(k, t) EXCEPT !.tcb[t].winfo = "E_RLWAI"], t)

\* The callbacks of the time events of tasks.
wait_tmout(k, t) ==
  LET out == IF "WAIT_WOBJ" \in k.tcb[t].tstat THEN LeaveQueues(k, t) ELSE k
  IN  Requested(make_non_wait([out EXCEPT !.tcb[t].winfo = "E_TMOUT"], t))

wait_tmout_ok(k, t) ==
  Requested(make_non_wait([k EXCEPT !.tcb[t].winfo = Zero], t))

================================================================================
