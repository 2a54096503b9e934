---------------------------- MODULE SchedulerQueues ----------------------------
(***************************************************************************)
(* What make_runnable, search_schedtsk and preempt promise: the operators  *)
(* of OsekSched on sequences of tasks.  A task enters the scheduler at     *)
(* some priority; the scheduled task leaves, changes its priority (by a    *)
(* resource), or goes behind a better one.                                 *)
(***************************************************************************)
EXTENDS OsekSched

VARIABLES rdy, tcb_curpri
queueVars == <<rdy, tcb_curpri>>

Held == {rdy.schedtsk} \cup UNION {Elements(rdy.queue[p]) : p \in TaskPri}

QueuesInit == rdy = NoTaskReady /\ tcb_curpri = [t \in TaskType |-> TPRI_MINTASK]

Enter(t, p) ==
  /\ t \notin Held
  /\ tcb_curpri' = [tcb_curpri EXCEPT ![t] = p]
  /\ rdy' = MakeRunnable(rdy, tcb_curpri', t)

Leave == rdy.schedtsk # TSKID_NULL /\ rdy' = SearchSchedtsk(rdy) /\ UNCHANGED tcb_curpri

ChangePriority(p) ==
  /\ rdy.schedtsk # TSKID_NULL
  /\ p >= rdy.nextpri
  /\ tcb_curpri' = [tcb_curpri EXCEPT ![rdy.schedtsk] = p]
  /\ UNCHANGED rdy

Lower(p) ==
  /\ rdy.schedtsk # TSKID_NULL
  /\ p < rdy.nextpri
  /\ tcb_curpri' = [tcb_curpri EXCEPT ![rdy.schedtsk] = p]
  /\ rdy' = Preempt(rdy, tcb_curpri')

QueuesNext ==
  \/ \E t \in TaskType, p \in TaskPri : Enter(t, p)
  \/ Leave
  \/ \E p \in TaskPri : ChangePriority(p) \/ Lower(p)

QueuesSpec == QueuesInit /\ [][QueuesNext]_queueVars
================================================================================
