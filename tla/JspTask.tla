-------------------------------- MODULE JspTask --------------------------------
(***************************************************************************)
(* Tasks and their scheduling in the TOPPERS/JSP kernel (kernel/task.c)    *)
(* and the ARM dispatcher (config/armv4/cpu_support.S).                    *)
(*                                                                         *)
(* The functions are operators on the record k of the kernel's state.      *)
(* Those of task.c return TRUE when the caller has to dispatch: k.ret.     *)
(* tstat is the set of its TS_ bits; a task's waiting information (its     *)
(* WINFO) is in winfo, the union of the code, and data.                    *)
(***************************************************************************)
EXTENDS JspTime, SequencesExt

CONSTANTS
  TNUM_TPRI,   \* priorities 1 .. TNUM_TPRI, 1 the highest
  NULL         \* no task

ASSUME PriorityCount == TNUM_TPRI \in 1 .. 16 /\ NULL \notin Task

Priority == 1 .. TNUM_TPRI

TSTAT_DORMANT(k, t)   == k.tcb[t].tstat = {}
TSTAT_RUNNABLE(k, t)  == "RUNNABLE" \in k.tcb[t].tstat
TSTAT_WAITING(k, t)   == "WAITING" \in k.tcb[t].tstat
TSTAT_SUSPENDED(k, t) == "SUSPENDED" \in k.tcb[t].tstat

\* The WINFO of the code is a union: NULL, the absence of a time event, and E_OK are both 0.
Zero   == "0"
TMEVTB == "tmevtb"
NoData == << >>

\* A task's context block and what make_dormant gives it.
Dormant(k, t) ==
  [tstat |-> {}, priority |-> k.cfg.ipriority[t], actcnt |-> k.tcb[t].actcnt, wupcnt |-> FALSE,
   enatex |-> FALSE, texptn |-> FALSE, texnest |-> 0, winfo |-> Zero, data |-> NoData]

NoTaskActive(cfg) ==
  [runtsk |-> NULL, schedtsk |-> NULL, reqflg |-> FALSE, enadsp |-> TRUE, ret |-> FALSE,
   ready_queue |-> [p \in Priority |-> << >>], ready_primap |-> {},
   tcb |-> [t \in Task |-> [tstat |-> {}, priority |-> cfg.ipriority[t], actcnt |-> FALSE,
                            wupcnt |-> FALSE, enatex |-> FALSE, texptn |-> FALSE,
                            texnest |-> 0, winfo |-> Zero, data |-> NoData]]]

queue_delete(q, t) == RemoveFirst(q, t)

\* queue_insert_prev at the first element that is not in one of the places past.
InsertBehind(q, past, e) ==
  LET at == CHOOSE i \in 1 .. Len(q) + 1 : i \notin past /\ \A j \in 1 .. i - 1 : j \in past
  IN  InsertAt(q, at, e)

Highest(P)         == CHOOSE p \in P : \A r \in P : p <= r
search_schedtsk(k) == Head(k.ready_queue[Highest(k.ready_primap)])

--------------------------------------------------------------------------------
(* Plausible faults of the functions below; the project's mutants use them. *)

ChangePriorityKeepsEqual(k, t, newpri) ==
  LET oldpri == k.tcb[t].priority
      left   == [k.ready_queue EXCEPT ![oldpri] = queue_delete(@, t)]
      queue  == [left EXCEPT ![newpri] = Append(@, t)]
      moved  == [k EXCEPT !.tcb[t].priority = newpri, !.ready_queue = queue,
                          !.ready_primap = {p \in Priority : queue[p] # << >>}, !.ret = FALSE]
  IN  IF k.schedtsk = t /\ newpri > oldpri
      THEN [moved EXCEPT !.schedtsk = search_schedtsk(moved),
                         !.ret = search_schedtsk(moved) # t /\ k.enadsp]
      ELSE IF k.schedtsk # t /\ newpri < k.tcb[k.schedtsk].priority
      THEN [moved EXCEPT !.schedtsk = t, !.ret = k.enadsp]
      ELSE moved

--------------------------------------------------------------------------------
(* task.c *)

make_runnable(k, t) ==
  LET pri   == k.tcb[t].priority
      first == k.schedtsk = NULL \/ pri < k.tcb[k.schedtsk].priority
  IN  [k EXCEPT !.tcb[t].tstat    = {"RUNNABLE"},
                !.ready_queue[pri] = Append(@, t),
                !.ready_primap     = @ \cup {pri},
                !.schedtsk         = IF first THEN t ELSE @,
                !.ret              = first /\ k.enadsp]

make_non_runnable(k, t) ==
  LET pri   == k.tcb[t].priority
      queue == queue_delete(k.ready_queue[pri], t)
      left  == [k EXCEPT !.ready_queue[pri] = queue,
                         !.ready_primap = IF queue = << >> THEN @ \ {pri} ELSE @,
                         !.ret = FALSE]
      next  == IF queue # << >> THEN Head(queue)
               ELSE IF left.ready_primap = {} THEN NULL
               ELSE search_schedtsk(left)
  IN  IF k.schedtsk = t THEN [left EXCEPT !.schedtsk = next, !.ret = k.enadsp] ELSE left

make_dormant(k, t) == [k EXCEPT !.tcb[t] = Dormant(k, t), !.ret = FALSE]

make_active(k, t) == make_runnable(k, t)

\* An activation that was queued while the task was not dormant starts it again.
Reactivate(k, t) ==
  IF k.tcb[t].actcnt THEN make_active([k EXCEPT !.tcb[t].actcnt = FALSE], t) ELSE k

change_priority(k, t, newpri) ==
  LET oldpri == k.tcb[t].priority
      left   == [k.ready_queue EXCEPT ![oldpri] = queue_delete(@, t)]
      queue  == [left EXCEPT ![newpri] = Append(@, t)]
      moved  == [k EXCEPT !.tcb[t].priority = newpri,
                          !.ready_queue = queue,
                          !.ready_primap = (IF left[oldpri] = << >> THEN @ \ {oldpri} ELSE @) \cup {newpri},
                          !.ret = FALSE]
  IN  IF k.schedtsk = t /\ newpri >= oldpri
      THEN [moved EXCEPT !.schedtsk = search_schedtsk(moved),
                         !.ret = search_schedtsk(moved) # t /\ k.enadsp]
      ELSE IF k.schedtsk # t /\ newpri < k.tcb[k.schedtsk].priority
      THEN [moved EXCEPT !.schedtsk = t, !.ret = k.enadsp]
      ELSE moved

rotate_ready_queue(k, pri) ==
  LET queue == k.ready_queue[pri]
      turned == Append(Tail(queue), Head(queue))
  IN  IF Len(queue) < 2 THEN [k EXCEPT !.ret = FALSE]
      ELSE IF k.schedtsk = Head(queue)
      THEN [k EXCEPT !.ready_queue[pri] = turned, !.schedtsk = Head(turned), !.ret = k.enadsp]
      ELSE [k EXCEPT !.ready_queue[pri] = turned, !.ret = FALSE]

--------------------------------------------------------------------------------
(* Task exceptions.  texptn is whether a cause is pending, texnest how deep *)
(* the task is in its exception routine.                                    *)

call_texrtn(k) ==
  [k EXCEPT !.tcb[k.runtsk].enatex = FALSE, !.tcb[k.runtsk].texptn = FALSE,
            !.tcb[k.runtsk].texnest = @ + 1]

calltex(k) ==
  IF k.runtsk # NULL /\ k.tcb[k.runtsk].enatex /\ k.tcb[k.runtsk].texptn
  THEN call_texrtn(k) ELSE k

\* The routine returns: again for a cause that came meanwhile, else exceptions are enabled again.
TexReturned(k) ==
  LET t == k.runtsk IN
  IF k.tcb[t].texptn
  THEN [k EXCEPT !.tcb[t].enatex = FALSE, !.tcb[t].texptn = FALSE]
  ELSE [k EXCEPT !.tcb[t].enatex = TRUE, !.tcb[t].texnest = @ - 1]

--------------------------------------------------------------------------------
(* The dispatcher.  A task that waited goes on in its service, which reads  *)
(* the result from the WINFO on its stack and drops it.                     *)

Resumed(k) ==
  IF k.runtsk = NULL THEN k
  ELSE [k EXCEPT !.tcb[k.runtsk].winfo = Zero, !.tcb[k.runtsk].data = NoData]

\* A fault: an exception raised while the task did not run waits for the next interrupt.
DispatchOnly(k) == Resumed([k EXCEPT !.runtsk = k.schedtsk, !.ret = FALSE])

dispatch(k) == calltex(Resumed([k EXCEPT !.runtsk = k.schedtsk, !.ret = FALSE]))

\* A task-level service dispatches when the functions it called say so.
Dispatched(k) == IF k.ret THEN dispatch(k) ELSE k

\* An interrupt handler leaves that to the end of the interrupt.
Requested(k) == [k EXCEPT !.reqflg = @ \/ k.ret, !.ret = FALSE]

\* The end of the outermost interrupt.  The idle loop counts as an interrupt: one that
\* interrupts it returns into the loop, which looks at schedtsk and leaves reqflg alone.
ret_int(k) ==
  IF k.runtsk = NULL THEN dispatch(k)
  ELSE IF ~k.reqflg THEN k
  ELSE IF k.enadsp /\ k.schedtsk # k.runtsk THEN dispatch([k EXCEPT !.reqflg = FALSE])
  ELSE calltex([k EXCEPT !.reqflg = FALSE])

exit_task(k) ==
  LET t == k.runtsk
  IN  dispatch(Reactivate(make_dormant(make_non_runnable(k, t), t), t))

================================================================================
