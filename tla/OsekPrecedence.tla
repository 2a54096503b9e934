---------------------------- MODULE OsekPrecedence ----------------------------
(***************************************************************************)
(* OsekKernel implements PriorityOrder: schedtsk followed by the ready     *)
(* queues, from the highest priority down, is the order of the runnable    *)
(* tasks.                                                                  *)
(***************************************************************************)
EXTENDS OsekKernelMC

queuesFrom[p \in -1 .. TPRI_MAXTASK] ==
  IF p < 0 THEN << >> ELSE rdy.queue[p] \o queuesFrom[p - 1]

precedence ==
  (IF rdy.schedtsk = TSKID_NULL THEN << >> ELSE <<rdy.schedtsk>>) \o queuesFrom[TPRI_MAXTASK]

precedencePri == [t \in TaskType |-> IF t \in Runnable THEN tcb_curpri[t] ELSE 0]

\* The only values tcb_curpri takes.
usedPri == {tinib_inipri[t] : t \in TaskType} \cup {tinib_exepri[t] : t \in TaskType}
             \cup {resinib_ceilpri[r] : r \in ResourceType} \cup {TPRI_MINTASK}

Abstract == INSTANCE PriorityOrder WITH
              Task  <- TaskType,
              Pri   <- usedPri,
              order <- precedence,
              pri   <- precedencePri

\* Every service, dispatch and interrupt moves tasks in the order of precedence only as
\* the scheduler promises: arrivals go behind their equals, a preempted task stays
\* before them, and nobody but the head leaves.
ImplementsPriorityOrder == Abstract!Spec
================================================================================
