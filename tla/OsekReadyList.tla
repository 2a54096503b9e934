----------------------------- MODULE OsekReadyList -----------------------------
(***************************************************************************)
(* The ready queues of toppers_osek/kernel/task.c as they are stored: a    *)
(* list per priority, linked through tcb_next, whose last pointer is       *)
(* meaningless while the list is empty, and a 16-bit map of the lists that *)
(* are not empty.  It implements SchedulerQueues.                          *)
(***************************************************************************)
EXTENDS OsekSched

CONSTANT ActivationPri   \* the priorities tasks are activated at
ASSUME ActivePriorities == ActivationPri \subseteq TaskPri

VARIABLES
  lists,         \* the static variables of task.c: see InitialLists
  curpri         \* tcb_curpri; OsekKernel has a variable of that name
listVars == <<lists, curpri>>

Map == INSTANCE OsekBitmap

\* ready_queue_last and tcb_next are .bss and not initialized.
InitialLists == [first    |-> [p \in TaskPri |-> TSKID_NULL],
                 last     |-> [p \in TaskPri |-> 0],
                 next     |-> [t \in TaskType |-> 0],
                 primap   |-> 0,
                 nextpri  |-> TPRI_MINTASK,
                 schedtsk |-> TSKID_NULL]

ready_insert_first(s, pri, t) ==
  [s EXCEPT !.first[pri] = t,
            !.next[t] = s.first[pri],
            !.last[pri] = IF s.first[pri] = TSKID_NULL THEN t ELSE @]

LastNotEnded(s, pri, t) ==                                                 \* fault
  IF s.first[pri] = TSKID_NULL
  THEN [s EXCEPT !.first[pri] = t, !.last[pri] = t]
  ELSE [s EXCEPT !.next[s.last[pri]] = t, !.last[pri] = t]

ready_insert_last(s, pri, t) ==
  IF s.first[pri] = TSKID_NULL
  THEN [s EXCEPT !.first[pri] = t, !.last[pri] = t, !.next[t] = TSKID_NULL]
  ELSE [s EXCEPT !.next = [@ EXCEPT ![s.last[pri]] = t, ![t] = TSKID_NULL], !.last[pri] = t]

make_runnable(s, pri, t) ==
  IF s.schedtsk = TSKID_NULL THEN [s EXCEPT !.schedtsk = t]
  ELSE IF pri[t] <= pri[s.schedtsk]
  THEN [ready_insert_last(s, pri[t], t)
          EXCEPT !.primap = Map!SetBit(@, pri[t]), !.nextpri = IF pri[t] > @ THEN pri[t] ELSE @]
  ELSE [ready_insert_first(s, pri[s.schedtsk], s.schedtsk)
          EXCEPT !.primap = Map!SetBit(@, pri[s.schedtsk]),
                 !.nextpri = pri[s.schedtsk], !.schedtsk = t]

\* With ready_delete_first, which leaves ready_queue_last as it is.
search_schedtsk(s) ==
  IF s.primap = 0 THEN [s EXCEPT !.schedtsk = TSKID_NULL]
  ELSE LET head  == s.first[s.nextpri]
           taken == [s EXCEPT !.schedtsk = head, !.first[s.nextpri] = s.next[head]]
           map   == Map!ClearBit(s.primap, s.nextpri)
       IN  IF s.next[head] # TSKID_NULL THEN taken
           ELSE [taken EXCEPT !.primap = map,
                              !.nextpri = IF map = 0 THEN TPRI_MINTASK ELSE Map!bitmap_search(map)]

preempt(s, pri) ==
  search_schedtsk([ready_insert_first(s, pri[s.schedtsk], s.schedtsk)
                     EXCEPT !.primap = Map!SetBit(@, pri[s.schedtsk])])

--------------------------------------------------------------------------------
\* The tasks a list holds, walked from the task t.
Walk[n \in 0 .. tnum_task] ==
  [t \in TaskType \cup {TSKID_NULL} |->
     IF n = 0 \/ t = TSKID_NULL THEN << >> ELSE <<t>> \o Walk[n - 1][lists.next[t]]]

List(pri) == Walk[tnum_task][lists.first[pri]]

InScheduler(t) == t = lists.schedtsk \/ \E p \in TaskPri : t \in Elements(List(p))

ListInit == lists = InitialLists /\ curpri = [t \in TaskType |-> TPRI_MINTASK]

Activate(t, p) ==
  /\ ~InScheduler(t)
  /\ curpri' = [curpri EXCEPT ![t] = p]
  /\ lists' = make_runnable(lists, curpri', t)

Stop == lists.schedtsk # TSKID_NULL /\ lists' = search_schedtsk(lists) /\ UNCHANGED curpri

Reprioritize(p) ==
  /\ lists.schedtsk # TSKID_NULL
  /\ curpri' = [curpri EXCEPT ![lists.schedtsk] = p]
  /\ lists' = IF p < lists.nextpri THEN preempt(lists, curpri') ELSE lists

ListNext ==
  \/ \E t \in TaskType, p \in ActivationPri : Activate(t, p)
  \/ Stop
  \/ \E p \in ActivationPri : Reprioritize(p)

ListSpec == ListInit /\ [][ListNext]_listVars

--------------------------------------------------------------------------------
(* Properties *)

Queues == INSTANCE SchedulerQueues WITH
            rdy <- [queue    |-> [p \in TaskPri |-> List(p)],
                    primap   |-> {p \in TaskPri : Map!HasBit(lists.primap, p)},
                    nextpri  |-> lists.nextpri,
                    schedtsk |-> lists.schedtsk],
            tcb_curpri <- curpri

\* The linked lists and the bit map behave as the sequences and the set that OsekSched
\* has in their place: no step follows a pointer left over from an earlier list.
ImplementsQueues == Queues!QueuesSpec

\* An instance for TLC: three tasks on three priorities, in different nibbles of the map.
ListPri == [t \in TaskType |-> 0]
================================================================================
