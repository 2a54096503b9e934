------------------------------- MODULE OsekSched -------------------------------
(***************************************************************************)
(* The scheduler data of the OSEK kernel (toppers_osek/kernel/task.c): the *)
(* ready queues, the bitmap of their non-empty priorities, nextpri and     *)
(* schedtsk, and the functions of task.c that change them.  They run with  *)
(* the CPU locked, several in one service, so they are operators on a      *)
(* record that the actions of OsekKernel chain.                            *)
(*                                                                         *)
(* A linked list ready_queue_first/tcb_next/ready_queue_last is the        *)
(* sequence of the tasks on it; module OsekReadyList shows that it is one. *)
(***************************************************************************)
EXTENDS Integers, Sequences, FiniteSets

CONSTANTS
  tnum_task,      \* number of tasks
  tnum_exttask,   \* tasks 0 .. tnum_exttask-1 are extended (they may wait for events)
  TNUM_PRIORITY,  \* number of task priorities; 16 in osek_kernel.h
  tinib_inipri,   \* initial priority of each task
  tinib_exepri,   \* priority once it runs: internal resource, or non-preemptive
  tinib_maxact    \* activations that may be recorded while it is not dormant

TaskType       == 0 .. tnum_task - 1
ExtTask        == 0 .. tnum_exttask - 1
TSKID_NULL     == 255
TPRI_MINTASK   == 0
TPRI_MAXTASK   == TNUM_PRIORITY - 1
TPRI_SCHEDULER == 127
TPRI_MINISR    == 128
TPRI_NULL      == 255
TaskPri        == TPRI_MINTASK .. TPRI_MAXTASK

\* What the system generator puts into kernel_cfg.c.
ASSUME TaskTable ==
  /\ tnum_task \in 1 .. 254
  /\ tnum_exttask \in 0 .. tnum_task
  /\ TNUM_PRIORITY \in 1 .. 16
  /\ tinib_inipri \in [TaskType -> TaskPri]
  /\ tinib_exepri \in [TaskType -> TaskPri \cup {TPRI_SCHEDULER}]
  /\ \A t \in TaskType : tinib_inipri[t] <= tinib_exepri[t]
  /\ tinib_maxact \in [TaskType -> 0 .. 255]

NoTaskReady == [queue |-> [p \in TaskPri |-> << >>], primap |-> {},
                nextpri |-> TPRI_MINTASK, schedtsk |-> TSKID_NULL]

Scheduler == [queue    : [TaskPri -> Seq(TaskType)],
              primap   : SUBSET TaskPri,
              nextpri  : TaskPri,
              schedtsk : TaskType \cup {TSKID_NULL}]

\* The highest priority of a non-empty set; OsekBitmap shows bitmap_search computes it.
Highest(P) == CHOOSE p \in P : \A q \in P : q <= p

--------------------------------------------------------------------------------
(* Plausible faults of the functions below; the project's mutants use them. *)

InsertFirstAtEnd(r, p, t) == [r EXCEPT !.queue[p] = Append(@, t), !.primap = @ \cup {p}]

InsertLastAtFront(r, p, t) == [r EXCEPT !.queue[p] = <<t>> \o @, !.primap = @ \cup {p}]

MakeRunnableNoNextpri(r, pri, t) ==
  IF r.schedtsk # TSKID_NULL /\ pri[t] <= pri[r.schedtsk]
  THEN [r EXCEPT !.queue[pri[t]] = Append(@, t), !.primap = @ \cup {pri[t]}]
  ELSE [r EXCEPT !.schedtsk = t]

MakeRunnablePreemptsEquals(r, pri, t) ==
  IF r.schedtsk # TSKID_NULL /\ pri[t] < pri[r.schedtsk]
  THEN [r EXCEPT !.queue[pri[t]] = Append(@, t), !.primap = @ \cup {pri[t]},
                 !.nextpri = IF pri[t] > @ THEN pri[t] ELSE @]
  ELSE IF r.schedtsk = TSKID_NULL THEN [r EXCEPT !.schedtsk = t]
  ELSE [r EXCEPT !.queue[pri[r.schedtsk]] = <<r.schedtsk>> \o @,
                 !.primap = @ \cup {pri[r.schedtsk]},
                 !.nextpri = pri[r.schedtsk], !.schedtsk = t]

--------------------------------------------------------------------------------
(* task.c *)

\* ready_insert_first and ready_insert_last, with the update of ready_primap that
\* follows every call of them.
InsertFirst(r, p, t) == [r EXCEPT !.queue[p] = <<t>> \o @, !.primap = @ \cup {p}]
InsertLast(r, p, t)  == [r EXCEPT !.queue[p] = Append(@, t), !.primap = @ \cup {p}]

\* make_runnable, for a task with priority pri[t]: behind its equals if schedtsk has
\* at least that priority, else schedtsk goes back to the front of its own queue.
\* The C function returns TRUE iff schedtsk is t afterwards.
MakeRunnable(r, pri, t) ==
  IF r.schedtsk # TSKID_NULL /\ pri[t] <= pri[r.schedtsk]
  THEN [InsertLast(r, pri[t], t) EXCEPT !.nextpri = IF pri[t] > @ THEN pri[t] ELSE @]
  ELSE IF r.schedtsk = TSKID_NULL THEN [r EXCEPT !.schedtsk = t]
  ELSE [InsertFirst(r, pri[r.schedtsk], r.schedtsk)
          EXCEPT !.nextpri = pri[r.schedtsk], !.schedtsk = t]

\* search_schedtsk: the head of the queue nextpri becomes schedtsk; the task that was
\* schedtsk is forgotten.
SearchSchedtsk(r) ==
  IF r.primap = {} THEN [r EXCEPT !.schedtsk = TSKID_NULL]
  ELSE LET taken == [r EXCEPT !.schedtsk = Head(r.queue[r.nextpri]),
                              !.queue[r.nextpri] = Tail(@)]
           map   == r.primap \ {r.nextpri}
       IN  IF taken.queue[r.nextpri] # << >> THEN taken
           ELSE [taken EXCEPT !.primap  = map,
                              !.nextpri = IF map = {} THEN TPRI_MINTASK ELSE Highest(map)]

\* preempt: schedtsk goes to the front of its queue and the best ready task is chosen.
\* Its assert(runtsk == schedtsk) is the invariant RunningIsScheduled of OsekKernel.
Preempt(r, pri) == SearchSchedtsk(InsertFirst(r, pri[r.schedtsk], r.schedtsk))

--------------------------------------------------------------------------------
(* What the services keep true of the scheduler data *)

Elements(s) == {s[i] : i \in 1 .. Len(s)}
Distinct(s) == \A i, j \in 1 .. Len(s) : s[i] = s[j] => i = j

\* The queues q hold exactly the tasks of X, each once, at its priority.
QueuesHold(q, pri, X) ==
  /\ \A p \in TaskPri : Elements(q[p]) = {t \in X : pri[t] = p}
  /\ \A p \in TaskPri : Distinct(q[p])
  /\ \A t \in X : pri[t] \in TaskPri

\* ready_primap marks the non-empty queues and nextpri is the best of them.
MapExact(r) ==
  /\ r.primap = {p \in TaskPri : r.queue[p] # << >>}
  /\ r.primap # {} => r.nextpri \in r.primap
  /\ \A p \in r.primap : p <= r.nextpri
  /\ r.primap = {} => r.nextpri = TPRI_MINTASK

\* schedtsk is runnable and at least as good as every ready task.
BestChosen(r, pri) ==
  IF r.schedtsk = TSKID_NULL THEN r.primap = {}
  ELSE r.primap # {} => pri[r.schedtsk] >= r.nextpri
================================================================================
