------------------------------ MODULE JspKernelMC ------------------------------
(***************************************************************************)
(* The configurations TLC checks JspKernel with: for each kind of object,  *)
(* and for the services without one, a program that calls what interacts.  *)
(***************************************************************************)
EXTENDS JspKernel

Nothing ==
  [object |-> "none", store |-> 0, limit |-> 0, tpri |-> FALSE, clr |-> FALSE, mpri |-> FALSE,
   fifo |-> FALSE, items |-> 0, msgpri |-> << >>, ptns |-> {}, pris |-> {},
   ipriority |-> <<1, 2, 2>>, active |-> {1, 2, 3}, texrtn |-> {},
   tmouts |-> {TMO_FEVR}, dlytims |-> {},
   handlers |-> {}, started |-> {}, cyctim |-> [c \in Cyclic |-> 1], cycphs |-> [c \in Cyclic |-> 0],
   services |-> {}]

\* Scheduling: priorities, suspension, sleep, queued activations, dispatching disabled.
Scheduling ==
  [Nothing EXCEPT !.pris = {1, 2},
     !.services = {"act_tsk", "iact_tsk", "ext_tsk", "ter_tsk", "chg_pri", "tslp_tsk",
                   "sus_tsk", "rsm_tsk", "rot_rdq", "irot_rdq", "dis_dsp", "interrupt"}]

\* Task exceptions of two tasks, raised by tasks and interrupts while their task runs, is
\* ready, sleeps or has them disabled.
Exceptions ==
  [Nothing EXCEPT !.texrtn = {1, 2}, !.active = {1, 2},
     !.services = {"ext_tsk", "act_tsk", "ras_tex", "tslp_tsk", "wup_tsk", "dis_dsp", "loc_cpu",
                   "interrupt"}]

\* Sleep and delay with timeouts; the sleeper is woken, released, suspended and terminated.
Sleeping ==
  [Nothing EXCEPT !.active = {1, 2}, !.tmouts = {TMO_FEVR, 1, 3}, !.dlytims = {0, 2},
     !.services = {"ter_tsk", "tslp_tsk", "dly_tsk", "wup_tsk", "iwup_tsk", "can_wup",
                   "irel_wai", "sus_tsk", "rsm_tsk", "isig_tim"}]

\* Waiting for a semaphore in the order of priorities, which change, with timeouts.
Semaphore ==
  [Nothing EXCEPT !.object = "sem", !.limit = 1, !.tpri = TRUE, !.pris = {1, 2},
     !.tmouts = {TMO_FEVR, 2},
     !.services = {"sem", "isig_sem", "chg_pri", "rel_wai", "isig_tim"}]

EventFlag ==
  [Nothing EXCEPT !.object = "flg", !.store = {}, !.ptns = {{1}, {2}, {1, 2}},
     !.services = {"flg", "iset_flg", "irel_wai", "ter_tsk", "act_tsk", "interrupt"}]

ClearingFlag ==
  [EventFlag EXCEPT !.clr = TRUE, !.active = {1, 2}, !.tmouts = {TMO_FEVR, 1},
     !.services = {"flg", "iset_flg", "isig_tim"}]

DataQueue ==
  [Nothing EXCEPT !.object = "dtq", !.store = << >>, !.limit = 1, !.fifo = TRUE, !.items = 4,
     !.services = {"dtq", "ipsnd_dtq", "irel_wai", "ter_tsk", "act_tsk", "can_act", "interrupt"}]

\* Without a buffer senders and receivers meet.
Rendezvous ==
  [DataQueue EXCEPT !.limit = 0, !.items = 3, !.tmouts = {TMO_FEVR, 1},
     !.services = {"dtq", "ipsnd_dtq", "isig_tim"}]

ForcedQueue ==
  [DataQueue EXCEPT !.fifo = FALSE, !.tpri = TRUE, !.pris = {1, 2},
     !.services = {"dtq", "fsnd_dtq", "chg_pri", "interrupt"}]

Mailbox ==
  [Nothing EXCEPT !.object = "mbx", !.store = << >>, !.fifo = TRUE, !.items = 4,
     !.services = {"mbx", "rel_wai", "ter_tsk", "act_tsk", "sus_tsk", "rsm_tsk"}]

\* Messages by priority, tasks by priority.
PriorityMailbox ==
  [Mailbox EXCEPT !.fifo = FALSE, !.mpri = TRUE, !.msgpri = <<2, 1, 2, 1>>, !.tpri = TRUE,
     !.pris = {1, 2}, !.services = {"mbx", "chg_pri", "rel_wai"}]

MemoryPool ==
  [Nothing EXCEPT !.object = "mpf", !.store = <<1, 2>>, !.limit = 2,
     !.tmouts = {TMO_FEVR, 1}, !.services = {"mpf", "rel_wai", "sus_tsk", "rsm_tsk", "isig_tim"}]

\* Six cyclic handlers, two of which are never stopped: a heap of three levels, which events
\* leave from the middle.
Handlers ==
  [Nothing EXCEPT !.active = {1}, !.handlers = 6 .. 9, !.started = {4, 5},
     !.cyctim = [c \in Cyclic |-> IF c < 7 THEN 1 ELSE 2], !.cycphs = [c \in Cyclic |-> c % 2],
     !.services = {"sta_cyc", "isig_tim"}]

Configs ==
  {Scheduling, Exceptions, Sleeping, Semaphore, EventFlag, ClearingFlag, DataQueue, Rendezvous,
   ForcedQueue, Mailbox, PriorityMailbox, MemoryPool, Handlers}

================================================================================
