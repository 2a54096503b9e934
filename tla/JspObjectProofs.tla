---------------------------- MODULE JspObjectProofs ----------------------------
(***************************************************************************)
(* What the object of JspKernel holds against what its tasks wait for, in  *)
(* every configuration: no task waits for what is there, data and messages *)
(* arrive in order, and a block has one owner.                             *)
(*                                                                         *)
(* Fine, the invariant beside Core, says it for each kind of object. The   *)
(* steps that are no service of the object leave it alone but for tasks    *)
(* that end to wait (Slims), and keep Fine for that reason; the services   *)
(* keep it by the cases of semaphore.c to mempfix.c.                       *)
(***************************************************************************)
EXTENDS JspKernelProofs

\* The exception routine of a task starts and returns.
PutBlock(m, k, t, c) ==
  /\ m = [f \in Fields |-> m[f]] /\ Same(m, k, {"tcb"})
  /\ m.tcb = [u \in Task |-> m.tcb[u]] /\ \A u \in Task \ {t} : m.tcb[u] = k.tcb[u]
  /\ m.tcb[t] = c /\ c = [f \in Blocks |-> c[f]] /\ c.data = k.tcb[t].data

LEMMA PutSpares ==
  ASSUME NEW k, Whole(k), NEW t \in Task, NEW m, NEW c, PutBlock(m, k, t, c)
  PROVE  Spares(m, k)
<1>1. Same(m, k, Inner \cup {"tcb"})
  BY DEF Same, PutBlock
<1>2. BlockSet(m, k, t)
  BY <1>1 DEF BlockSet, PutBlock
<1> QED BY <1>2, BlockSpares

LEMMA CalledSpares ==
  ASSUME NEW k, Whole(k), NEW t \in Task, NEW m, TexCalled(m, k, t)
  PROVE  Spares(m, k)
<1>1. /\ m = [f \in Fields |-> m[f]] /\ Same(m, k, {"tcb"})
      /\ m.tcb = [u \in Task |-> m.tcb[u]] /\ \A u \in Task \ {t} : m.tcb[u] = k.tcb[u]
  BY DEF TexCalled, Whole, Fields, Same
<1>2. m.tcb[t] = [k.tcb[t] EXCEPT !.enatex = FALSE, !.texptn = FALSE, !.texnest = @ + 1]
  BY DEF TexCalled, Whole, Fields
<1>3. PICK b, c : /\ b = k.tcb[t]
                  /\ c = [b EXCEPT !.enatex = FALSE, !.texptn = FALSE, !.texnest = @ + 1]
  OBVIOUS
<1>4. b = [f \in Blocks |-> b[f]]
  BY <1>3 DEF Whole
<1>5. c = [f \in Blocks |-> c[f]] /\ c.data = b.data
  BY <1>3, <1>4 DEF Blocks
<1>6. m.tcb[t] = c /\ c = [f \in Blocks |-> c[f]] /\ c.data = k.tcb[t].data
  BY <1>2, <1>3, <1>5
<1>7. PutBlock(m, k, t, c)
  BY <1>1, <1>6 DEF PutBlock
<1> QED BY <1>7, PutSpares

LEMMA CalltexSpares ==
  ASSUME NEW k, Whole(k), k.runtsk \in Task \cup {NULL}, NEW m, m = calltex(k)
  PROVE  Spares(m, k)
<1>1. CASE m = k
  BY <1>1, SparesSelf
<1>2. CASE k.runtsk \in Task /\ m = call_texrtn(k)
  <2>1. PICK t \in Task : t = k.runtsk /\ TexCalled(m, k, t)
    BY <1>2 DEF call_texrtn, TexCalled
  <2> QED BY <2>1, CalledSpares
<1> QED BY <1>1, <1>2 DEF calltex

TexAgain(m, k, t) == m = [k EXCEPT !.tcb[t].enatex = FALSE, !.tcb[t].texptn = FALSE]
TexLeft(m, k, t)  == m = [k EXCEPT !.tcb[t].enatex = TRUE, !.tcb[t].texnest = @ - 1]

LEMMA AgainSpares ==
  ASSUME NEW k, Whole(k), NEW t \in Task, NEW m, TexAgain(m, k, t)
  PROVE  Spares(m, k)
<1>1. /\ m = [f \in Fields |-> m[f]] /\ Same(m, k, {"tcb"})
      /\ m.tcb = [u \in Task |-> m.tcb[u]] /\ \A u \in Task \ {t} : m.tcb[u] = k.tcb[u]
  BY DEF TexAgain, Whole, Fields, Same
<1>2. m.tcb[t] = [k.tcb[t] EXCEPT !.enatex = FALSE, !.texptn = FALSE]
  BY DEF TexAgain, Whole, Fields
<1>3. PICK b, c : b = k.tcb[t] /\ c = [b EXCEPT !.enatex = FALSE, !.texptn = FALSE]
  OBVIOUS
<1>4. b = [f \in Blocks |-> b[f]]
  BY <1>3 DEF Whole
<1>5. c = [f \in Blocks |-> c[f]] /\ c.data = b.data
  BY <1>3, <1>4 DEF Blocks
<1>6. m.tcb[t] = c /\ c = [f \in Blocks |-> c[f]] /\ c.data = k.tcb[t].data
  BY <1>2, <1>3, <1>5
<1>7. PutBlock(m, k, t, c)
  BY <1>1, <1>6 DEF PutBlock
<1> QED BY <1>7, PutSpares

LEMMA LeftSpares ==
  ASSUME NEW k, Whole(k), NEW t \in Task, NEW m, TexLeft(m, k, t)
  PROVE  Spares(m, k)
<1>1. /\ m = [f \in Fields |-> m[f]] /\ Same(m, k, {"tcb"})
      /\ m.tcb = [u \in Task |-> m.tcb[u]] /\ \A u \in Task \ {t} : m.tcb[u] = k.tcb[u]
  BY DEF TexLeft, Whole, Fields, Same
<1>2. m.tcb[t] = [k.tcb[t] EXCEPT !.enatex = TRUE, !.texnest = @ - 1]
  BY DEF TexLeft, Whole, Fields
<1>3. PICK b, c : b = k.tcb[t] /\ c = [b EXCEPT !.enatex = TRUE, !.texnest = @ - 1]
  OBVIOUS
<1>4. b = [f \in Blocks |-> b[f]]
  BY <1>3 DEF Whole
<1>5. c = [f \in Blocks |-> c[f]] /\ c.data = b.data
  BY <1>3, <1>4 DEF Blocks
<1>6. m.tcb[t] = c /\ c = [f \in Blocks |-> c[f]] /\ c.data = k.tcb[t].data
  BY <1>2, <1>3, <1>5
<1>7. PutBlock(m, k, t, c)
  BY <1>1, <1>6 DEF PutBlock
<1> QED BY <1>7, PutSpares

LEMMA ReturnSpares ==
  ASSUME NEW k, Whole(k), k.runtsk \in Task, NEW m, m = TexReturned(k)
  PROVE  Spares(m, k)
<1>1. PICK t \in Task : t = k.runtsk /\ (TexAgain(m, k, t) \/ TexLeft(m, k, t))
  BY DEF TexReturned, TexAgain, TexLeft
<1> QED BY <1>1, AgainSpares, LeftSpares

LEMMA ReactivateSpares ==
  ASSUME NEW k, Whole(k), NEW t \in Task, NEW m, m = Reactivate(k, t)
  PROVE  Spares(m, k)
<1>1. CASE m = k
  BY <1>1, SparesSelf
<1>2. CASE m = make_active([k EXCEPT !.tcb[t].actcnt = FALSE], t)
  <2>1. PICK g, no : no = FALSE /\ g = [k EXCEPT !.tcb[t].actcnt = no]
    OBVIOUS
  <2>2. Spares(g, k)
    BY <2>1, CountersSpare
  <2>3. m = make_runnable(g, t)
    BY <1>2, <2>1 DEF make_active
  <2>4. Spares(m, g)
    BY <2>2, <2>3, RunnableSpares DEF Spares
  <2> QED BY <2>2, <2>4, SparesSpares
<1> QED BY <1>1, <1>2 DEF Reactivate

--------------------------------------------------------------------------------
(* wait.c and the dispatcher. *)

\* Elements of a queue of tasks may have left, and those that are left are in their order, unless
\* the queue goes by priorities.
Narrows(r, q, any) ==
  q \in Seq(Task) /\ Distinct(q) =>
    /\ r \in Seq(Task) /\ Distinct(r) /\ Elements(r) \subseteq Elements(q)
    /\ any \/ \A key \in [Task -> Int] : InOrder(q, key) => InOrder(r, key)

\* Tasks may have left the queues, and the data of those in D is not what it was.
Thins(m, k, D) ==
  /\ Whole(m) /\ m.obj.store = k.obj.store /\ m.sent = k.sent /\ m.delivered = k.delivered
  /\ m.held = k.held /\ m.cfg = k.cfg
  /\ \A t \in Task \ D : m.tcb[t].data = k.tcb[t].data
  /\ Narrows(m.obj.wait_queue, k.obj.wait_queue, k.cfg.tpri)
  /\ Narrows(m.obj.rwait_queue, k.obj.rwait_queue, FALSE)

LEMMA NarrowsSelf ==
  ASSUME NEW q, NEW any
  PROVE  Narrows(q, q, any)
BY DEF Narrows

LEMMA NarrowsNarrows ==
  ASSUME NEW q, NEW r, NEW s, NEW any, Narrows(r, q, any), Narrows(s, r, any)
  PROVE  Narrows(s, q, any)
BY DEF Narrows

LEMMA DeletedNarrows ==
  ASSUME NEW q, NEW t, NEW any
  PROVE  Narrows(queue_delete(q, t), q, any)
<1>1. SUFFICES ASSUME q \in Seq(Task), Distinct(q) PROVE Narrows(queue_delete(q, t), q, any)
  BY DEF Narrows
<1>2. PICK Q : Q = Elements(q)
  OBVIOUS
<1>3. Queue(q, Q)
  BY <1>1, <1>2 DEF Queue
<1>4. /\ Queue(queue_delete(q, t), Q \ {t})
      /\ \A key \in [Task -> Int] : InOrder(q, key) => InOrder(queue_delete(q, t), key)
  BY <1>3, QueueDeleted
<1> QED BY <1>2, <1>4 DEF Narrows, Queue

LEMMA SparesThins ==
  ASSUME NEW k, NEW m, Spares(m, k), NEW D
  PROVE  Thins(m, k, D)
BY NarrowsSelf DEF Spares, Thins

LEMMA ThinsThins ==
  ASSUME NEW k, NEW m, NEW n, NEW D, NEW E, Thins(m, k, D), Thins(n, m, E)
  PROVE  Thins(n, k, D \cup E)
<1>1. /\ Narrows(n.obj.wait_queue, k.obj.wait_queue, k.cfg.tpri)
      /\ Narrows(n.obj.rwait_queue, k.obj.rwait_queue, FALSE)
  <2>1. m.cfg = k.cfg
    BY DEF Thins
  <2>0. PICK no : no = FALSE
    OBVIOUS
  <2>2. /\ Narrows(n.obj.wait_queue, m.obj.wait_queue, k.cfg.tpri)
        /\ Narrows(n.obj.rwait_queue, m.obj.rwait_queue, no)
    BY <2>0, <2>1 DEF Thins
  <2>3. /\ Narrows(m.obj.wait_queue, k.obj.wait_queue, k.cfg.tpri)
        /\ Narrows(m.obj.rwait_queue, k.obj.rwait_queue, no)
    BY <2>0 DEF Thins
  <2>4. Narrows(n.obj.wait_queue, k.obj.wait_queue, k.cfg.tpri)
    BY <2>2, <2>3, NarrowsNarrows
  <2>5. Narrows(n.obj.rwait_queue, k.obj.rwait_queue, no)
    BY <2>2, <2>3, NarrowsNarrows
  <2> QED BY <2>0, <2>4, <2>5
<1> QED BY <1>1 DEF Thins

LEMMA LeaveThins ==
  ASSUME NEW k, Whole(k), NEW t, NEW m, m = LeaveQueues(k, t)
  PROVE  Thins(m, k, {})
<1>1. m = [f \in Fields |-> m[f]] /\ Same(m, k, {"obj"})
  BY DEF LeaveQueues, Whole, Fields, Same
<1>2. m.obj = [k.obj EXCEPT !.wait_queue = queue_delete(@, t), !.rwait_queue = queue_delete(@, t)]
  BY DEF LeaveQueues, Whole, Fields
<1>3. PICK o, a, b : /\ o = k.obj /\ a = queue_delete(k.obj.wait_queue, t)
                     /\ b = queue_delete(k.obj.rwait_queue, t)
  OBVIOUS
<1>4. o = [f \in Queued |-> o[f]] /\ m.obj = [o EXCEPT !.wait_queue = a, !.rwait_queue = b]
  BY <1>2, <1>3 DEF Whole
<1>5. /\ m.obj = [f \in Queued |-> m.obj[f]] /\ m.obj.store = o.store
      /\ m.obj.wait_queue = a /\ m.obj.rwait_queue = b
  BY <1>4 DEF Queued
<1>6. /\ m.sent = k.sent /\ m.delivered = k.delivered /\ m.held = k.held /\ m.cfg = k.cfg
      /\ m.tcb = k.tcb
  BY <1>1 DEF Same, Fields
<1>7. /\ Narrows(m.obj.wait_queue, k.obj.wait_queue, k.cfg.tpri)
      /\ Narrows(m.obj.rwait_queue, k.obj.rwait_queue, FALSE)
  <2>1. Narrows(queue_delete(k.obj.wait_queue, t), k.obj.wait_queue, k.cfg.tpri)
    BY DeletedNarrows
  <2>2. Narrows(queue_delete(k.obj.rwait_queue, t), k.obj.rwait_queue, FALSE)
    BY DeletedNarrows
  <2> QED BY <1>3, <1>5, <2>1, <2>2
<1>8. Whole(m)
  BY <1>1, <1>5, <1>6 DEF Whole
<1> QED BY <1>3, <1>5, <1>6, <1>7, <1>8 DEF Thins

LEMMA WatchSpares ==
  ASSUME NEW k, Whole(k), NEW t, NEW m, m = StopWatch(k, t)
  PROVE  Spares(m, k) /\ m.tcb = k.tcb
BY DeleteSpares, SparesSelf DEF StopWatch

LEMMA NonWaitSpares ==
  ASSUME NEW k, Whole(k), NEW t \in Task, NEW m, m = make_non_wait(k, t)
  PROVE  Spares(m, k)
<1>1. CASE m = make_runnable(k, t)
  BY <1>1, RunnableSpares
<1>2. CASE m = [k EXCEPT !.tcb[t].tstat = {"SUSPENDED"}, !.ret = FALSE]
  <2>1. PICK s, a : s = {"SUSPENDED"} /\ a = [k EXCEPT !.tcb[t].tstat = s]
    OBVIOUS
  <2>2. Spares(a, k)
    BY <2>1, CountersSpare
  <2>3. m = [a EXCEPT !.ret = FALSE]
    BY <1>2, <2>1 DEF Whole, Fields
  <2>4. Whole(a) /\ Beside(m, a)
    BY <2>2, <2>3 DEF Spares, Whole, Beside, Same, Fields, Inner
  <2>5. Spares(m, a)
    BY <2>4, BesideSpares
  <2> QED BY <2>2, <2>5, SparesSpares
<1> QED BY <1>1, <1>2 DEF make_non_wait

LEMMA CompleteSpares ==
  ASSUME NEW k, Whole(k), NEW t \in Task, NEW m, m = wait_complete(k, t)
  PROVE  Spares(m, k)
<1>1. PICK a : a = StopWatch(k, t)
  OBVIOUS
<1>0. PICK b, z : z = Zero /\ b = [a EXCEPT !.tcb[t].winfo = z]
  OBVIOUS
<1>2. Spares(a, k)
  BY <1>1, WatchSpares
<1>3. Spares(b, a)
  <2>1. Whole(a) /\ b = [a EXCEPT !.tcb[t].winfo = z]
    BY <1>0, <1>2 DEF Spares
  <2> QED BY <2>1, CountersSpare
<1>4. m = make_non_wait(b, t)
  BY <1>0, <1>1 DEF wait_complete
<1>5. Spares(m, b)
  <2>1. Whole(b)
    BY <1>3 DEF Spares
  <2> QED BY <1>4, <2>1, NonWaitSpares
<1>6. Spares(b, k)
  BY <1>2, <1>3, SparesSpares
<1> QED BY <1>5, <1>6, SparesSpares

LEMMA RequestedSpares ==
  ASSUME NEW k, Whole(k), NEW m, m = Requested(k)
  PROVE  Spares(m, k)
<1>1. Beside(m, k)
  BY DEF Requested, Whole, Beside, Same, Fields, Inner
<1> QED BY <1>1, BesideSpares

\* An intermediate state that only spares, before or after one that thins.
LEMMA ThinsSpares ==
  ASSUME NEW k, NEW m, NEW n, NEW D, Thins(m, k, D), Spares(n, m)
  PROVE  Thins(n, k, D)
<1>1. Thins(n, m, {})
  BY SparesThins
<1>2. Thins(n, k, D \cup {})
  BY <1>1, ThinsThins
<1>3. D \cup {} = D
  OBVIOUS
<1> QED BY <1>2, <1>3

LEMMA SparesThin ==
  ASSUME NEW k, NEW m, NEW n, NEW D, Spares(m, k), Thins(n, m, D)
  PROVE  Thins(n, k, D)
<1>1. Thins(m, k, {})
  BY SparesThins
<1>2. Thins(n, k, {} \cup D)
  BY <1>1, ThinsThins
<1>3. {} \cup D = D
  OBVIOUS
<1> QED BY <1>2, <1>3

LEMMA CancelThins ==
  ASSUME NEW k, Whole(k), NEW t \in Task, NEW m, m = wait_cancel(k, t)
  PROVE  Thins(m, k, {})
<1>1. PICK a : a = StopWatch(k, t)
  OBVIOUS
<1>2. Spares(a, k) /\ Whole(a)
  BY <1>1, WatchSpares DEF Spares
<1>3. m = LeaveQueues(a, t) \/ m = a
  BY <1>1 DEF wait_cancel
<1>4. CASE m = LeaveQueues(a, t)
  <2>1. Thins(m, a, {})
    BY <1>2, <1>4, LeaveThins
  <2> QED BY <1>2, <2>1, SparesThin
<1>5. CASE m = a
  BY <1>2, <1>5, SparesThins
<1> QED BY <1>3, <1>4, <1>5

LEMMA ReleaseThins ==
  ASSUME NEW k, Whole(k), NEW t \in Task, NEW m, m = wait_release(k, t)
  PROVE  Thins(m, k, {})
<1>1. PICK a : a = wait_cancel(k, t)
  OBVIOUS
<1>2. Thins(a, k, {}) /\ Whole(a)
  <2>1. Thins(a, k, {})
    BY <1>1, CancelThins
  <2> QED BY <2>1 DEF Thins
<1>3. PICK b, z : z = "E_RLWAI" /\ b = [a EXCEPT !.tcb[t].winfo = z]
  OBVIOUS
<1>4. b = [a EXCEPT !.tcb[t].winfo = z]
  BY <1>3
<1>5. Spares(b, a) /\ Whole(b)
  BY <1>2, <1>4, CountersSpare DEF Spares
<1>6. m = make_non_wait(b, t)
  BY <1>1, <1>3 DEF wait_release
<1>7. Spares(m, b)
  BY <1>5, <1>6, NonWaitSpares
<1>8. Spares(m, a)
  BY <1>5, <1>7, SparesSpares
<1> QED BY <1>2, <1>8, ThinsSpares

LEMMA TmoutThins ==
  ASSUME NEW k, Whole(k), NEW t \in Task, NEW m, m = wait_tmout(k, t)
  PROVE  Thins(m, k, {})
<1>1. PICK a : a = IF "WAIT_WOBJ" \in k.tcb[t].tstat THEN LeaveQueues(k, t) ELSE k
  OBVIOUS
<1>2. Thins(a, k, {})
  BY <1>1, LeaveThins, SparesSelf, SparesThins
<1>3. PICK b, z : z = "E_TMOUT" /\ b = [a EXCEPT !.tcb[t].winfo = z]
  OBVIOUS
<1>4. b = [a EXCEPT !.tcb[t].winfo = z]
  BY <1>3
<1>5. Spares(b, a) /\ Whole(b)
  <2>1. Whole(a)
    BY <1>2 DEF Thins
  <2>2. Spares(b, a)
    BY <1>4, <2>1, CountersSpare
  <2> QED BY <2>2 DEF Spares
<1>6. PICK c : c = make_non_wait(b, t)
  OBVIOUS
<1>7. Spares(c, b) /\ Whole(c)
  BY <1>5, <1>6, NonWaitSpares DEF Spares
<1>8. m = Requested(c)
  BY <1>1, <1>3, <1>6 DEF wait_tmout
<1>9. Spares(m, c)
  BY <1>7, <1>8, RequestedSpares
<1>10. Spares(m, a)
  BY <1>5, <1>7, <1>9, SparesSpares
<1> QED BY <1>2, <1>10, ThinsSpares

LEMMA TmoutOkSpares ==
  ASSUME NEW k, Whole(k), NEW t \in Task, NEW m, m = wait_tmout_ok(k, t)
  PROVE  Spares(m, k)
<1>3. PICK b, z : z = Zero /\ b = [k EXCEPT !.tcb[t].winfo = z]
  OBVIOUS
<1>4. b = [k EXCEPT !.tcb[t].winfo = z]
  BY <1>3
<1>5. Spares(b, k) /\ Whole(b)
  BY <1>4, CountersSpare DEF Spares
<1>6. PICK c : c = make_non_wait(b, t)
  OBVIOUS
<1>7. Spares(c, b) /\ Whole(c)
  BY <1>5, <1>6, NonWaitSpares DEF Spares
<1>8. m = Requested(c)
  BY <1>3, <1>6 DEF wait_tmout_ok
<1>9. Spares(m, c)
  BY <1>7, <1>8, RequestedSpares
<1> QED BY <1>5, <1>7, <1>9, SparesSpares

\* A queue by priority is put in order again.
Waiting(m, k, q) == m = [k EXCEPT !.obj.wait_queue = q]

LEMMA WaitingThins ==
  ASSUME NEW k, Whole(k), NEW q, NEW m, Waiting(m, k, q), Narrows(q, k.obj.wait_queue, k.cfg.tpri)
  PROVE  Thins(m, k, {})
<1>1. m = [f \in Fields |-> m[f]] /\ Same(m, k, {"obj"})
  BY DEF Waiting, Whole, Fields, Same
<1>2. m.obj = [k.obj EXCEPT !.wait_queue = q]
  BY DEF Waiting, Whole, Fields
<1>3. /\ m.obj = [f \in Queued |-> m.obj[f]] /\ m.obj.store = k.obj.store
      /\ m.obj.wait_queue = q /\ m.obj.rwait_queue = k.obj.rwait_queue
  BY <1>2 DEF Queued, Whole
<1>4. /\ m.sent = k.sent /\ m.delivered = k.delivered /\ m.held = k.held /\ m.cfg = k.cfg
      /\ m.tcb = k.tcb
  BY <1>1 DEF Same, Fields
<1>5. Whole(m)
  BY <1>1, <1>3, <1>4 DEF Whole
<1>6. Narrows(m.obj.rwait_queue, k.obj.rwait_queue, FALSE)
  BY <1>3, NarrowsSelf
<1> QED BY <1>3, <1>4, <1>5, <1>6 DEF Thins

LEMMA ReorderThins ==
  ASSUME NEW k, Whole(k), Prio(k) \in [Task -> Int], NEW t \in Task,
         t \in Elements(k.obj.wait_queue), NEW m, m = wobj_change_priority(k, t)
  PROVE  Thins(m, k, {})
<1>1. CASE m = k
  BY <1>1, SparesSelf, SparesThins
<1>2. CASE k.cfg.tpri /\ m # k
  <2>1. PICK q, d : /\ q = queue_insert_tpri(k, t, d) /\ d = queue_delete(k.obj.wait_queue, t)
    OBVIOUS
  <2>2. Waiting(m, k, q)
    BY <1>2, <2>1 DEF wobj_change_priority, Waiting
  <2>3. Narrows(q, k.obj.wait_queue, k.cfg.tpri)
    <3>1. SUFFICES ASSUME k.obj.wait_queue \in Seq(Task), Distinct(k.obj.wait_queue)
                   PROVE  /\ q \in Seq(Task) /\ Distinct(q)
                          /\ Elements(q) \subseteq Elements(k.obj.wait_queue)
      BY <1>2 DEF Narrows
    <3>2. PICK w, Q : w = k.obj.wait_queue /\ Q = Elements(w)
      OBVIOUS
    <3>3. Queue(w, Q)
      BY <3>1, <3>2 DEF Queue
    <3>4. Queue(queue_delete(w, t), Q \ {t})
      BY <3>3, QueueDeleted
    <3>5. Queue(d, Q \ {t})
      BY <2>1, <3>2, <3>4
    <3>6. Behind(queue_insert_tpri(k, t, d), d, t, Prio(k))
      BY <3>5, TpriIsBehind
    <3>7. Behind(q, d, t, Prio(k)) /\ t \notin Q \ {t}
      BY <2>1, <3>6
    <3>8. Queue(q, (Q \ {t}) \cup {t})
      BY <3>5, <3>7, QueueBehind
    <3> QED BY <3>2, <3>8 DEF Queue
  <2> QED BY <2>2, <2>3, WaitingThins
<1> QED BY <1>1, <1>2 DEF wobj_change_priority

--------------------------------------------------------------------------------
(* What the object has and who waits for it, when no service of the object is called. *)

\* The data of tasks that do not wait for the object may be lost.
Slims(m, k) == \E D : Thins(m, k, D) /\ \A t \in D : t \notin Elements(m.obj.wait_queue)

LEMMA ThinsSlim ==
  ASSUME NEW k, NEW m, Thins(m, k, {})
  PROVE  Slims(m, k)
BY DEF Slims

LEMMA SparesSlim ==
  ASSUME NEW k, NEW m, Spares(m, k)
  PROVE  Slims(m, k)
BY SparesThins, ThinsSlim

LEMMA SlimsWhole ==
  ASSUME NEW k, NEW m, Slims(m, k)
  PROVE  Whole(m)
BY DEF Slims, Thins

LEMMA SoundQueue ==
  ASSUME NEW k, Sound(k)
  PROVE  /\ k.obj.wait_queue \in Seq(Task) /\ Distinct(k.obj.wait_queue)
         /\ k.obj.rwait_queue \in Seq(Task) /\ Distinct(k.obj.rwait_queue)
BY DEF Sound, Fits, Base, Waits, Queue

LEMMA SlimsSlims ==
  ASSUME NEW k, Sound(k), NEW m, Slims(m, k), NEW n, Slims(n, m)
  PROVE  Slims(n, k)
<1>1. PICK D : Thins(m, k, D) /\ \A t \in D : t \notin Elements(m.obj.wait_queue)
  BY DEF Slims
<1>2. PICK E : Thins(n, m, E) /\ \A t \in E : t \notin Elements(n.obj.wait_queue)
  BY DEF Slims
<1>3. Thins(n, k, D \cup E)
  BY <1>1, <1>2, ThinsThins
<1>4. k.obj.wait_queue \in Seq(Task) /\ Distinct(k.obj.wait_queue)
  BY SoundQueue
<1>5. m.obj.wait_queue \in Seq(Task) /\ Distinct(m.obj.wait_queue)
  BY <1>1, <1>4 DEF Thins, Narrows
<1>6. Elements(n.obj.wait_queue) \subseteq Elements(m.obj.wait_queue)
  BY <1>2, <1>5 DEF Thins, Narrows
<1>7. \A t \in D \cup E : t \notin Elements(n.obj.wait_queue)
  BY <1>1, <1>2, <1>6
<1> QED BY <1>3, <1>7 DEF Slims

\* A task's block is written.
LEMMA WriteThins ==
  ASSUME NEW k, Whole(k), NEW t \in Task, NEW B, NEW m, TaskWrite(m, k, t, B, {"ret"})
  PROVE  Thins(m, k, {t}) /\ m.obj = k.obj /\ m.runtsk = k.runtsk
<1>1. /\ m.obj = k.obj /\ m.sent = k.sent /\ m.delivered = k.delivered
      /\ m.held = k.held /\ m.cfg = k.cfg /\ m.runtsk = k.runtsk
  BY DEF TaskWrite, Same, Fields
<1>2. \A u \in Task \ {t} : m.tcb[u] = k.tcb[u]
  BY DEF TaskWrite
<1>3. Whole(m)
  <2>1. ASSUME NEW u \in Task
        PROVE  m.tcb[u] = [f \in Blocks |-> m.tcb[u][f]]
    BY <1>2 DEF TaskWrite, Whole
  <2> QED BY <1>1, <2>1 DEF TaskWrite, Whole
<1>4. /\ Narrows(m.obj.wait_queue, k.obj.wait_queue, k.cfg.tpri)
      /\ Narrows(m.obj.rwait_queue, k.obj.rwait_queue, FALSE)
  BY <1>1, NarrowsSelf
<1> QED BY <1>1, <1>2, <1>3, <1>4 DEF Thins

\* A task that does not wait for the object.
LEMMA WriteSlims ==
  ASSUME NEW k, Whole(k), NEW t \in Task, t \notin Elements(k.obj.wait_queue),
         NEW B, NEW m, TaskWrite(m, k, t, B, {"ret"})
  PROVE  Slims(m, k) /\ m.obj = k.obj
<1>1. Thins(m, k, {t}) /\ m.obj = k.obj
  BY WriteThins
<1>2. \A u \in {t} : u \notin Elements(m.obj.wait_queue)
  BY <1>1
<1> QED BY <1>1, <1>2 DEF Slims

LEMMA RunnableElsewhere ==
  ASSUME NEW k, Sound(k), NEW t \in Task, "WAIT_WOBJCB" \notin k.tcb[t].tstat
  PROVE  t \notin Elements(k.obj.wait_queue)
<1>1. PICK R, C, S : Fits(k, R, C, S)
  BY DEF Sound
<1>2. Elements(k.obj.wait_queue) = C
  BY <1>1 DEF Fits, Base, Waits, Queue
<1>3. t \notin C
  BY <1>1 DEF Fits, TaskFits, Agrees
<1> QED BY <1>2, <1>3

LEMMA RunningElsewhere ==
  ASSUME NEW k, Sound(k), NEW t \in Task, TSTAT_RUNNABLE(k, t)
  PROVE  t \notin Elements(k.obj.wait_queue)
<1>1. k.tcb[t].tstat \in Legal
  BY DEF Sound, Fits, TaskFits, Watched
<1>2. "WAIT_WOBJCB" \notin k.tcb[t].tstat
  BY <1>1, LegalStates DEF TSTAT_RUNNABLE
<1> QED BY <1>2, RunnableElsewhere

--------------------------------------------------------------------------------
(* The dispatcher. *)

LEMMA ReadThins ==
  ASSUME NEW k, Whole(k), NEW t \in Task, NEW m, ResultRead(m, k, t)
  PROVE  TaskWrite(m, k, t, {"winfo", "data"}, {"ret"})
<1>1. /\ m = [f \in Fields |-> m[f]] /\ Same(m, k, {"ret"} \cup {"tcb"})
      /\ m.tcb = [u \in Task |-> m.tcb[u]] /\ \A u \in Task \ {t} : m.tcb[u] = k.tcb[u]
  BY DEF ResultRead, Whole, Fields, Same
<1>2. m.tcb[t] = [k.tcb[t] EXCEPT !.winfo = Zero, !.data = NoData]
  BY DEF ResultRead, Whole, Fields
<1>3. PICK b, c : b = k.tcb[t] /\ c = [b EXCEPT !.winfo = Zero, !.data = NoData]
  OBVIOUS
<1>4. b = [f \in Blocks |-> b[f]]
  BY <1>3 DEF Whole
<1>5. c = [f \in Blocks |-> c[f]] /\ \A f \in Blocks \ {"winfo", "data"} : c[f] = b[f]
  BY <1>3, <1>4 DEF Blocks
<1>6. /\ m.tcb[t] = [f \in Blocks |-> m.tcb[t][f]]
      /\ \A f \in Blocks \ {"winfo", "data"} : m.tcb[t][f] = k.tcb[t][f]
  BY <1>2, <1>3, <1>5
<1> QED BY <1>1, <1>6 DEF TaskWrite

LEMMA ResumedThins ==
  ASSUME NEW k, Whole(k), k.runtsk \in Task \cup {NULL}, NEW m, m = Resumed(k)
  PROVE  Thins(m, k, {k.runtsk}) /\ m.obj = k.obj /\ m.runtsk = k.runtsk
<1>1. CASE m = k
  BY <1>1, SparesSelf, SparesThins
<1>2. CASE k.runtsk \in Task /\ m # k
  <2>1. PICK t \in Task : t = k.runtsk /\ ResultRead(m, k, t)
    BY <1>2 DEF Resumed, ResultRead
  <2>2. TaskWrite(m, k, t, {"winfo", "data"}, {"ret"})
    BY <2>1, ReadThins
  <2> QED BY <2>1, <2>2, WriteThins
<1> QED BY <1>1, <1>2 DEF Resumed

\* The task that runs after the dispatch has read the result of its wait.
LEMMA DispatchThins ==
  ASSUME NEW k, Whole(k), k.schedtsk \in Task \cup {NULL}, NEW m, m = dispatch(k)
  PROVE  Thins(m, k, {k.schedtsk}) /\ m.obj = k.obj
<1>1. PICK a : a = [k EXCEPT !.runtsk = k.schedtsk, !.ret = FALSE]
  OBVIOUS
<1>2. Beside(a, k) /\ a.runtsk = k.schedtsk
  BY <1>1 DEF Whole, Beside, Same, Fields, Inner
<1>3. Spares(a, k)
  BY <1>2, BesideSpares
<1>4. Whole(a) /\ a.obj = k.obj
  BY <1>3 DEF Spares
<1>5. PICK b : b = Resumed(a)
  OBVIOUS
<1>6. Thins(b, a, {a.runtsk}) /\ b.obj = a.obj /\ b.runtsk = a.runtsk
  BY <1>2, <1>4, <1>5, ResumedThins
<1>7. m = calltex(b)
  BY <1>1, <1>5 DEF dispatch
<1>8. Whole(b) /\ b.runtsk \in Task \cup {NULL}
  BY <1>2, <1>6 DEF Thins
<1>9. Spares(m, b)
  BY <1>7, <1>8, CalltexSpares
<1>10. Thins(m, a, {k.schedtsk})
  BY <1>2, <1>6, <1>9, ThinsSpares
<1>11. m.obj = k.obj
  BY <1>4, <1>6, <1>9 DEF Spares
<1> QED BY <1>3, <1>10, <1>11, SparesThin

\* The rest follows from what is known of the task that runs then.
LEMMA RunsThen ==
  ASSUME NEW m, Core(m), m.runtsk # NULL
  PROVE  m.runtsk \notin Elements(m.obj.wait_queue)
BY RunningElsewhere DEF Core, Control

LEMMA DispatchSlims ==
  ASSUME NEW k, Whole(k), NEW m, m = dispatch(k), Core(m), m.runtsk = k.schedtsk
  PROVE  Slims(m, k)
<1>1. k.schedtsk \in Task \cup {NULL}
  BY DEF Core, Control
<1>2. PICK t : t = k.schedtsk
  OBVIOUS
<1>3. Thins(m, k, {t})
  BY <1>1, <1>2, DispatchThins
<1>4. CASE t = NULL
  <2>1. Elements(m.obj.wait_queue) \subseteq Task
    BY SoundQueue DEF Core, Elements
  <2>2. NULL \notin Task
    BY Priorities
  <2>3. \A u \in {t} : u \notin Elements(m.obj.wait_queue)
    BY <1>4, <2>1, <2>2
  <2> QED BY <1>3, <2>3 DEF Slims
<1>5. CASE t # NULL
  <2>1. \A u \in {t} : u \notin Elements(m.obj.wait_queue)
    BY <1>2, <1>5, RunsThen
  <2> QED BY <1>3, <2>1 DEF Slims
<1> QED BY <1>4, <1>5

\* dispatch gives the processor to schedtsk.
LEMMA DispatchRuns ==
  ASSUME NEW k, Whole(k), NEW m, m = dispatch(k)
  PROVE  m.runtsk = k.schedtsk
<1>1. PICK a : a = [k EXCEPT !.runtsk = k.schedtsk, !.ret = FALSE]
  OBVIOUS
<1>2. Whole(a) /\ a.runtsk = k.schedtsk
  <2>1. Beside(a, k) /\ a.runtsk = k.schedtsk
    BY <1>1 DEF Whole, Beside, Same, Fields, Inner
  <2> QED BY <2>1, BesideSpares DEF Spares
<1>3. PICK b : b = Resumed(a)
  OBVIOUS
<1>4. b.runtsk = a.runtsk /\ b = [f \in Fields |-> b[f]]
  <2>1. b = a \/ \E t : ResultRead(b, a, t)
    BY <1>3 DEF Resumed, ResultRead
  <2>2. ASSUME NEW t, ResultRead(b, a, t)
        PROVE  b.runtsk = a.runtsk /\ b = [f \in Fields |-> b[f]]
    <3>1. a = [f \in Fields |-> a[f]]
      BY <1>2 DEF Whole
    <3>2. b = [f \in Fields |-> b[f]] /\ Same(b, a, {"tcb"})
      BY <2>2, <3>1 DEF ResultRead, Fields, Same
    <3> QED BY <3>2 DEF Same, Fields
  <2> QED BY <1>2, <2>1, <2>2 DEF Whole
<1>5. m = calltex(b)
  BY <1>1, <1>3 DEF dispatch
<1>6. m.runtsk = b.runtsk
  <2>1. m = b \/ \E t : TexCalled(m, b, t)
    BY <1>5 DEF calltex, call_texrtn, TexCalled
  <2>2. ASSUME NEW t, TexCalled(m, b, t)
        PROVE  m.runtsk = b.runtsk
    BY <1>4, <2>2 DEF TexCalled, Fields
  <2> QED BY <2>1, <2>2
<1> QED BY <1>2, <1>4, <1>6

LEMMA DispatchedSlims ==
  ASSUME NEW k, Whole(k), NEW m, m = Dispatched(k), Core(m)
  PROVE  Slims(m, k)
<1>1. CASE m = k
  BY <1>1, SparesSelf, SparesSlim
<1>2. CASE m = dispatch(k)
  BY <1>2, DispatchRuns, DispatchSlims
<1> QED BY <1>1, <1>2 DEF Dispatched

LEMMA RequestedSlims ==
  ASSUME NEW k, Whole(k), NEW m, m = Requested(k)
  PROVE  Slims(m, k)
BY RequestedSpares, SparesSlim

\* The end of the outermost interrupt.
LEMMA RetIntSlims ==
  ASSUME NEW k, Core(k), NEW m, m = ret_int([k EXCEPT !.interrupt = FALSE]), Core(m)
  PROVE  Slims(m, k)
<1>1. Sound(k) /\ Whole(k) /\ k.runtsk \in Task \cup {NULL}
  BY SoundWhole DEF Core, Control
<1>2. PICK a : a = [k EXCEPT !.interrupt = FALSE]
  OBVIOUS
<1>3. Beside(a, k) /\ a.runtsk = k.runtsk
  BY <1>1, <1>2 DEF Whole, Beside, Same, Fields, Inner
<1>4. Spares(a, k)
  BY <1>1, <1>3, BesideSpares
<1>5. Whole(a)
  BY <1>4 DEF Spares
<1>6. PICK b : b = [a EXCEPT !.reqflg = FALSE]
  OBVIOUS
<1>7. Beside(b, a) /\ b.runtsk = a.runtsk
  BY <1>5, <1>6 DEF Whole, Beside, Same, Fields, Inner
<1>8. Spares(b, a)
  BY <1>5, <1>7, BesideSpares
<1>9. Whole(b) /\ Slims(a, k) /\ Slims(b, a)
  BY <1>4, <1>8, SparesSlim DEF Spares
<1>10. m = dispatch(a) \/ m = a \/ m = dispatch(b) \/ m = calltex(b)
  BY <1>2, <1>6 DEF ret_int
<1>11. CASE m = dispatch(a)
  <2>1. Slims(m, a)
    BY <1>5, <1>11, DispatchRuns, DispatchSlims
  <2> QED BY <1>1, <1>9, <2>1, SlimsSlims
<1>12. CASE m = dispatch(b)
  <2>1. Slims(m, b)
    BY <1>9, <1>12, DispatchRuns, DispatchSlims
  <2>2. Slims(b, k)
    BY <1>1, <1>9, SlimsSlims
  <2> QED BY <1>1, <2>1, <2>2, SlimsSlims
<1>13. CASE m = calltex(b)
  <2>1. b.runtsk \in Task \cup {NULL}
    BY <1>1, <1>3, <1>7
  <2>2. Slims(m, b)
    BY <1>9, <1>13, <2>1, CalltexSpares, SparesSlim
  <2>3. Slims(b, k)
    BY <1>1, <1>9, SlimsSlims
  <2> QED BY <1>1, <2>2, <2>3, SlimsSlims
<1> QED BY <1>9, <1>10, <1>11, <1>12, <1>13

--------------------------------------------------------------------------------
(* The services on tasks. *)

LEMMA ActTskSpares ==
  ASSUME NEW k, Whole(k), NEW t \in Task, NEW m, m = act_tsk(k, t)
  PROVE  Spares(m, k)
<1>1. CASE m = make_runnable(k, t)
  BY <1>1, RunnableSpares
<1>2. CASE m = [k EXCEPT !.tcb[t].actcnt = TRUE]
  <2>1. PICK v : v = TRUE /\ m = [k EXCEPT !.tcb[t].actcnt = v]
    BY <1>2
  <2> QED BY <2>1, CountersSpare
<1> QED BY <1>1, <1>2 DEF act_tsk, make_active

LEMMA CanCountSpares ==
  ASSUME NEW k, Whole(k), NEW t \in Task, NEW m, m = can_act(k, t) \/ m = can_wup(k, t)
  PROVE  Spares(m, k)
<1>1. PICK v : /\ v = FALSE
               /\ m = [k EXCEPT !.tcb[t].actcnt = v] \/ m = [k EXCEPT !.tcb[t].wupcnt = v]
  BY DEF can_act, can_wup
<1> QED BY <1>1, CountersSpare

LEMMA WupTskSpares ==
  ASSUME NEW k, Whole(k), NEW t \in Task, NEW m, m = wup_tsk(k, t)
  PROVE  Spares(m, k)
<1>1. CASE m = wait_complete(k, t)
  BY <1>1, CompleteSpares
<1>2. CASE m = [k EXCEPT !.tcb[t].wupcnt = TRUE]
  <2>1. PICK v : v = TRUE /\ m = [k EXCEPT !.tcb[t].wupcnt = v]
    BY <1>2
  <2> QED BY <2>1, CountersSpare
<1> QED BY <1>1, <1>2 DEF wup_tsk

LEMMA DormantSlims ==
  ASSUME NEW k, Whole(k), NEW t \in Task, t \notin Elements(k.obj.wait_queue),
         NEW m, m = make_dormant(k, t)
  PROVE  Slims(m, k) /\ m.obj = k.obj
<1>1. /\ m = [f \in Fields |-> m[f]] /\ Same(m, k, {"ret"} \cup {"tcb"})
      /\ m.tcb = [u \in Task |-> m.tcb[u]] /\ \A u \in Task \ {t} : m.tcb[u] = k.tcb[u]
  BY DEF make_dormant, Whole, Fields, Same
<1>2. m.tcb[t] = Dormant(k, t)
  BY DEF make_dormant, Whole, Fields
<1>3. m.tcb[t] = [f \in Blocks |-> m.tcb[t][f]]
  BY <1>2 DEF Dormant, Blocks
<1>4. TaskWrite(m, k, t, Blocks, {"ret"})
  BY <1>1, <1>3 DEF TaskWrite
<1> QED BY <1>4, WriteSlims

\* The task has left the queues, and the data of its wait is lost.
LEMMA EndsSlims ==
  ASSUME NEW k, Sound(k), NEW t \in Task, NEW a, Slims(a, k), t \notin Elements(a.obj.wait_queue),
         NEW m, m = Reactivate(make_dormant(a, t), t)
  PROVE  Slims(m, k)
<1>1. Whole(a)
  BY SlimsWhole
<1>2. PICK b : b = make_dormant(a, t)
  OBVIOUS
<1>3. Slims(b, a)
  BY <1>1, <1>2, DormantSlims
<1>4. Whole(b)
  BY <1>3, SlimsWhole
<1>5. m = Reactivate(b, t)
  BY <1>2
<1>6. Slims(m, b)
  BY <1>4, <1>5, ReactivateSpares, SparesSlim
<1>7. Slims(b, k)
  BY <1>3, SlimsSlims
<1> QED BY <1>6, <1>7, SlimsSlims

LEMMA TerTskSlims ==
  ASSUME NEW k, Sound(k), NEW t \in Task, NEW m, m = ter_tsk(k, t)
  PROVE  Slims(m, k)
<1>0. Whole(k)
  BY SoundWhole
<1>1. PICK a : /\ a = IF TSTAT_RUNNABLE(k, t) THEN make_non_runnable(k, t)
                      ELSE IF TSTAT_WAITING(k, t) THEN wait_cancel(k, t)
                      ELSE k
               /\ m = Reactivate(make_dormant(a, t), t)
  BY DEF ter_tsk
<1>2. Slims(a, k) /\ t \notin Elements(a.obj.wait_queue)
  <2>1. CASE TSTAT_RUNNABLE(k, t)
    <3>1. Spares(a, k)
      BY <1>0, <1>1, <2>1, NonRunnableSpares
    <3>2. a.obj = k.obj
      BY <3>1 DEF Spares
    <3> QED BY <2>1, <3>1, <3>2, RunningElsewhere, SparesSlim
  <2>2. CASE ~TSTAT_RUNNABLE(k, t) /\ TSTAT_WAITING(k, t)
    <3>1. a = wait_cancel(k, t)
      BY <1>1, <2>2
    <3>2. Slims(a, k)
      BY <1>0, <3>1, CancelThins, ThinsSlim
    <3>3. PICK R, C, S : Fits(k, R, C, S)
      BY DEF Sound
    <3>4. Left(a, t, R, C \ {t}, S \ {t})
      BY <2>2, <3>1, <3>3, Cancels
    <3>5. Elements(a.obj.wait_queue) = C \ {t}
      BY <3>4 DEF Left, Mid, Base, Waits, Queue
    <3> QED BY <3>2, <3>5
  <2>3. CASE ~TSTAT_RUNNABLE(k, t) /\ ~TSTAT_WAITING(k, t)
    <3>1. a = k
      BY <1>1, <2>3
    <3>2. k.tcb[t].tstat \in Legal
      BY DEF Sound, Fits, TaskFits, Watched
    <3>3. "WAIT_WOBJCB" \notin k.tcb[t].tstat
      BY <2>3, <3>2, LegalStates DEF TSTAT_WAITING
    <3> QED BY <1>0, <3>1, <3>3, RunnableElsewhere, SparesSelf, SparesSlim
  <2> QED BY <2>1, <2>2, <2>3
<1> QED BY <1>1, <1>2, EndsSlims

LEMMA ExtTskSlims ==
  ASSUME NEW k, Core(k), k.runtsk # NULL, NEW m, m = ext_tsk(k), Core(m)
  PROVE  Slims(m, k)
<1>1. PICK t \in Task : t = k.runtsk /\ TSTAT_RUNNABLE(k, t)
  BY DEF Core, Control
<1>2. Sound(k) /\ Whole(k) /\ t \notin Elements(k.obj.wait_queue)
  BY <1>1, SoundWhole, RunningElsewhere DEF Core
<1>3. PICK a : a = [k EXCEPT !.enadsp = TRUE, !.locked = FALSE]
  OBVIOUS
<1>4. Beside(a, k) /\ a.runtsk = t
  BY <1>1, <1>2, <1>3 DEF Whole, Beside, Same, Fields, Inner
<1>5. Spares(a, k)
  BY <1>2, <1>4, BesideSpares
<1>6. PICK b : b = make_non_runnable(a, t)
  OBVIOUS
<1>7. Spares(b, a)
  <2>1. Whole(a)
    BY <1>5 DEF Spares
  <2> QED BY <1>6, <2>1, NonRunnableSpares
<1>8. Spares(b, k)
  BY <1>5, <1>7, SparesSpares
<1>9. Slims(b, k) /\ t \notin Elements(b.obj.wait_queue)
  BY <1>2, <1>8, SparesSlim DEF Spares
<1>10. PICK c : c = Reactivate(make_dormant(b, t), t)
  OBVIOUS
<1>11. Slims(c, k)
  BY <1>2, <1>9, <1>10, EndsSlims
<1>12. m = dispatch(c)
  BY <1>3, <1>4, <1>6, <1>10 DEF ext_tsk, exit_task
<1>13. Whole(c)
  BY <1>11, SlimsWhole
<1>14. Slims(m, c)
  BY <1>12, <1>13, DispatchRuns, DispatchSlims
<1> QED BY <1>2, <1>11, <1>14, SlimsSlims

LEMMA ChgPriSlims ==
  ASSUME NEW k, Sound(k), NEW t \in Task, NEW newpri \in Priority, NEW m, m = chg_pri(k, t, newpri)
  PROVE  Slims(m, k)
<1>0. Whole(k) /\ Shape(k)
  BY SoundWhole, SoundShape
<1>1. CASE m = change_priority(k, t, newpri)
  BY <1>0, <1>1, ChangePrioritySpares, SparesSlim
<1>2. PICK a : a = [k EXCEPT !.tcb[t].priority = newpri]
  OBVIOUS
<1>3. Spares(a, k)
  BY <1>0, <1>2, CountersSpare
<1>4. Whole(a) /\ a.obj = k.obj
  BY <1>3 DEF Spares
<1>5. CASE m = a
  BY <1>3, <1>5, SparesSlim
<1>6. CASE "WAIT_WOBJCB" \in k.tcb[t].tstat /\ m = wobj_change_priority(a, t)
  <2>1. PICK R, C, S : Fits(k, R, C, S)
    BY DEF Sound
  <2>2. t \in Elements(a.obj.wait_queue)
    <3>1. t \in C
      BY <1>6, <2>1 DEF Fits, TaskFits, Agrees
    <3>2. Elements(k.obj.wait_queue) = C
      BY <2>1 DEF Fits, Base, Waits, Queue
    <3> QED BY <1>4, <3>1, <3>2
  <2>3. Prio(a) \in [Task -> Int]
    <3>1. Prio(k) \in [Task -> Int]
      BY <1>0, PrioFacts
    <3>2. a.tcb = [k.tcb EXCEPT ![t].priority = newpri]
      BY <1>0, <1>2 DEF Whole, Fields
    <3>3. PriorityOnly(a, k, t, newpri)
      BY <1>0, <3>2, PrioritySet
    <3>4. newpri \in Int
      BY DEF Priority
    <3>5. ASSUME NEW u \in Task PROVE a.tcb[u].priority \in Int
      BY <1>0, <3>1, <3>3, <3>4, PrioFacts DEF PriorityOnly
    <3> QED BY <3>5 DEF Prio
  <2>4. Thins(m, a, {})
    BY <1>4, <1>6, <2>2, <2>3, ReorderThins
  <2>5. Thins(m, k, {})
    BY <1>3, <2>4, SparesThin
  <2> QED BY <2>5, ThinsSlim
<1> QED BY <1>1, <1>2, <1>5, <1>6 DEF chg_pri

\* The start of a wait.
LEMMA WaitSetThins ==
  ASSUME NEW k, Whole(k), NEW t \in Task, NEW v, NEW w, NEW m, WaitSet(m, k, t, v, w)
  PROVE  TaskWrite(m, k, t, {"winfo", "data"}, {"ret"}) /\ m.tcb[t].data = w
<1>1. /\ m = [f \in Fields |-> m[f]] /\ Same(m, k, {"ret"} \cup {"tcb"})
      /\ m.tcb = [u \in Task |-> m.tcb[u]] /\ \A u \in Task \ {t} : m.tcb[u] = k.tcb[u]
  BY DEF WaitSet, Whole, Fields, Same
<1>2. m.tcb[t] = [k.tcb[t] EXCEPT !.winfo = v, !.data = w]
  BY DEF WaitSet, Whole, Fields
<1>3. PICK b, c : b = k.tcb[t] /\ c = [b EXCEPT !.winfo = v, !.data = w]
  OBVIOUS
<1>4. b = [f \in Blocks |-> b[f]]
  BY <1>3 DEF Whole
<1>5. c = [f \in Blocks |-> c[f]] /\ c.data = w /\ \A f \in Blocks \ {"winfo", "data"} : c[f] = b[f]
  BY <1>3, <1>4 DEF Blocks
<1>6. /\ m.tcb[t] = [f \in Blocks |-> m.tcb[t][f]] /\ m.tcb[t].data = w
      /\ \A f \in Blocks \ {"winfo", "data"} : m.tcb[t][f] = k.tcb[t][f]
  BY <1>2, <1>3, <1>5
<1> QED BY <1>1, <1>6 DEF TaskWrite

\* The task that runs has the data of its wait, and the object's queues are what they were.
Begins(m, k, t, data) == Thins(m, k, {t}) /\ m.obj = k.obj /\ m.tcb[t].data = data

LEMMA WaitingBegins ==
  ASSUME NEW k, Whole(k), NEW t \in Task, t = k.runtsk, NEW bits, NEW data,
         NEW m, m = MakeWaiting(k, bits, data)
  PROVE  Begins(m, k, t, data)
<1>1. PICK a, v : v = {"WAITING"} \cup bits /\ a = [k EXCEPT !.tcb[t].tstat = v]
  OBVIOUS
<1>2. Spares(a, k) /\ Whole(a)
  BY <1>1, CountersSpare DEF Spares
<1>3. PICK b : b = make_non_runnable(a, t)
  OBVIOUS
<1>4. Spares(b, a) /\ Whole(b)
  BY <1>2, <1>3, NonRunnableSpares DEF Spares
<1>5. PICK z : z = Zero /\ WaitSet(m, b, t, z, data)
  BY <1>1, <1>3 DEF MakeWaiting, WaitSet
<1>6. TaskWrite(m, b, t, {"winfo", "data"}, {"ret"}) /\ m.tcb[t].data = data
  BY <1>4, <1>5, WaitSetThins
<1>7. Thins(m, b, {t}) /\ m.obj = b.obj
  BY <1>4, <1>6, WriteThins
<1>8. Spares(b, k)
  BY <1>2, <1>4, SparesSpares
<1>9. Thins(m, k, {t})
  BY <1>7, <1>8, SparesThin
<1>10. m.obj = k.obj
  BY <1>7, <1>8 DEF Spares
<1> QED BY <1>6, <1>9, <1>10 DEF Begins

LEMMA WatchTimeSpares ==
  ASSUME NEW k, Whole(k), k.runtsk \in Task, NEW callback, NEW tmout,
         NEW m, m = WatchTime(k, callback, tmout)
  PROVE  Spares(m, k)
<1>1. PICK t \in Task : t = k.runtsk
  OBVIOUS
<1>2. PICK a, v : v = TMEVTB /\ a = [k EXCEPT !.tcb[t].winfo = v]
  OBVIOUS
<1>3. Spares(a, k) /\ Whole(a)
  BY <1>2, CountersSpare DEF Spares
<1>4. \E time : m = tmevtb_insert(a, t, callback, time)
  BY <1>1, <1>2 DEF WatchTime, tmevtb_enqueue
<1>5. Spares(m, a)
  BY <1>3, <1>4, InsertSpares
<1> QED BY <1>3, <1>5, SparesSpares

LEMMA WaitingRuns ==
  ASSUME NEW k, Whole(k), NEW t \in Task, t = k.runtsk, NEW bits, NEW data,
         NEW m, m = MakeWaiting(k, bits, data)
  PROVE  m.runtsk = t
<1>1. PICK a, v : v = {"WAITING"} \cup bits /\ a = [k EXCEPT !.tcb[t].tstat = v]
  OBVIOUS
<1>2. Whole(a)
  BY <1>1, CountersSpare DEF Spares
<1>3. a.runtsk = t
  BY <1>1 DEF Whole, Fields
<1>4. PICK b : b = make_non_runnable(a, t)
  OBVIOUS
<1>5. Whole(b)
  BY <1>2, <1>4, NonRunnableSpares DEF Spares
<1>6. b.runtsk = t
  BY <1>2, <1>3, <1>4 DEF make_non_runnable, Whole, Fields
<1>7. PICK z : z = Zero /\ WaitSet(m, b, t, z, data)
  BY <1>1, <1>4 DEF MakeWaiting, WaitSet
<1>8. TaskWrite(m, b, t, {"winfo", "data"}, {"ret"})
  BY <1>5, <1>7, WaitSetThins
<1> QED BY <1>5, <1>6, <1>8, WriteThins

LEMMA SparesBegins ==
  ASSUME NEW k, NEW t \in Task, NEW data, NEW a, Begins(a, k, t, data), NEW m, Spares(m, a)
  PROVE  Begins(m, k, t, data)
<1>1. Thins(m, k, {t})
  BY ThinsSpares DEF Begins
<1> QED BY <1>1 DEF Begins, Spares

LEMMA TmoutBegins ==
  ASSUME NEW k, Whole(k), NEW t \in Task, t = k.runtsk, NEW bits, NEW data, NEW tmout,
         NEW m, m = make_wait_tmout(k, bits, data, tmout)
  PROVE  Begins(m, k, t, data)
<1>1. PICK a : a = MakeWaiting(k, bits, data)
  OBVIOUS
<1>2. Begins(a, k, t, data) /\ Whole(a) /\ a.runtsk \in Task
  <2>1. Begins(a, k, t, data)
    BY <1>1, WaitingBegins
  <2>2. a.runtsk = t
    BY <1>1, WaitingRuns
  <2> QED BY <2>1, <2>2 DEF Begins, Thins
<1>3. m = a \/ m = WatchTime(a, "wait_tmout", tmout)
  BY <1>1 DEF make_wait_tmout
<1>4. Spares(m, a)
  BY <1>2, <1>3, SparesSelf, WatchTimeSpares
<1> QED BY <1>2, <1>4, SparesBegins

LEMMA DlyBegins ==
  ASSUME NEW k, Whole(k), NEW t \in Task, t = k.runtsk, NEW dlytim, NEW m, m = dly_tsk(k, dlytim)
  PROVE  Begins(m, k, t, NoData)
<1>1. PICK a : a = MakeWaiting(k, {}, NoData)
  OBVIOUS
<1>2. Begins(a, k, t, NoData) /\ Whole(a) /\ a.runtsk \in Task
  <2>1. Begins(a, k, t, NoData)
    BY <1>1, WaitingBegins
  <2>2. a.runtsk = t
    BY <1>1, WaitingRuns
  <2> QED BY <2>1, <2>2 DEF Begins, Thins
<1>3. m = WatchTime(a, "wait_tmout_ok", dlytim)
  BY <1>1 DEF dly_tsk
<1>4. Spares(m, a)
  BY <1>2, <1>3, WatchTimeSpares
<1> QED BY <1>2, <1>4, SparesBegins

LEMMA BeginsSlims ==
  ASSUME NEW k, NEW t \in Task, NEW data, NEW m, Begins(m, k, t, data),
         t \notin Elements(k.obj.wait_queue)
  PROVE  Slims(m, k)
<1>1. \A u \in {t} : u \notin Elements(m.obj.wait_queue)
  BY DEF Begins
<1> QED BY <1>1 DEF Begins, Slims

LEMMA TslpTskSlims ==
  ASSUME NEW k, Sound(k), NEW t, Caller(k, t), NEW tmout, NEW m, m = tslp_tsk(k, tmout)
  PROVE  Slims(m, k)
<1>1. Whole(k) /\ t \in Task /\ t = k.runtsk /\ t \notin Elements(k.obj.wait_queue)
  BY SoundWhole, RunningElsewhere DEF Caller
<1>2. CASE m = make_wait_tmout(k, {"WAIT_SLEEP"}, NoData, tmout)
  <2>1. Begins(m, k, t, NoData)
    BY <1>1, <1>2, TmoutBegins
  <2> QED BY <1>1, <2>1, BeginsSlims
<1>3. CASE m = [k EXCEPT !.tcb[k.runtsk].wupcnt = FALSE]
  <2>1. PICK v : v = FALSE /\ m = [k EXCEPT !.tcb[t].wupcnt = v]
    BY <1>1, <1>3
  <2> QED BY <1>1, <2>1, CountersSpare, SparesSlim
<1> QED BY <1>2, <1>3 DEF tslp_tsk

LEMMA DlyTskSlims ==
  ASSUME NEW k, Sound(k), NEW t, Caller(k, t), NEW dlytim, NEW m, m = dly_tsk(k, dlytim)
  PROVE  Slims(m, k)
<1>1. Whole(k) /\ t \in Task /\ t = k.runtsk /\ t \notin Elements(k.obj.wait_queue)
  BY SoundWhole, RunningElsewhere DEF Caller
<1>2. Begins(m, k, t, NoData)
  BY <1>1, DlyBegins
<1> QED BY <1>1, <1>2, BeginsSlims

LEMMA SusTskSpares ==
  ASSUME NEW k, Whole(k), NEW t \in Task, NEW m, m = sus_tsk(k, t)
  PROVE  Spares(m, k)
<1>1. PICK v, a : v = {"SUSPENDED"} /\ a = [k EXCEPT !.tcb[t].tstat = v]
  OBVIOUS
<1>2. Spares(a, k) /\ Whole(a)
  BY <1>1, CountersSpare DEF Spares
<1>3. CASE m = make_non_runnable(a, t)
  <2>1. Spares(m, a)
    BY <1>2, <1>3, NonRunnableSpares
  <2> QED BY <1>2, <2>1, SparesSpares
<1>4. CASE m = [k EXCEPT !.tcb[t].tstat = @ \cup {"SUSPENDED"}]
  <2>1. PICK w : m = [k EXCEPT !.tcb[t].tstat = w]
    BY <1>4
  <2> QED BY <2>1, CountersSpare
<1> QED BY <1>1, <1>3, <1>4 DEF sus_tsk

LEMMA RsmTskSpares ==
  ASSUME NEW k, Whole(k), NEW t \in Task, NEW m, m = rsm_tsk(k, t)
  PROVE  Spares(m, k)
<1>1. CASE m = make_runnable(k, t)
  BY <1>1, RunnableSpares
<1>2. CASE m = [k EXCEPT !.tcb[t].tstat = @ \ {"SUSPENDED"}]
  <2>1. PICK w : m = [k EXCEPT !.tcb[t].tstat = w]
    BY <1>2
  <2> QED BY <2>1, CountersSpare
<1> QED BY <1>1, <1>2 DEF rsm_tsk

\* Exceptions are raised, disabled and enabled.
LEMMA TexServicesSpare ==
  ASSUME NEW k, Whole(k), k.runtsk \in Task \cup {NULL}, NEW t \in Task, NEW m,
         \/ m = ras_tex(k, t)
         \/ m = iras_tex(k, t)
         \/ m = dis_tex(k) /\ t = k.runtsk
         \/ m = ena_tex(k) /\ t = k.runtsk
  PROVE  Spares(m, k)
<1>1. PICK yes, a : yes = TRUE /\ a = [k EXCEPT !.tcb[t].texptn = yes]
  OBVIOUS
<1>2. Spares(a, k) /\ Whole(a)
  BY <1>1, CountersSpare DEF Spares
<1>3. a.runtsk = k.runtsk
  BY <1>1 DEF Whole, Fields
<1>4. CASE m = ras_tex(k, t)
  <2>1. m = calltex(a)
    BY <1>1, <1>4 DEF ras_tex, RaiseException
  <2>2. Spares(m, a)
    BY <1>2, <1>3, <2>1, CalltexSpares
  <2> QED BY <1>2, <2>2, SparesSpares
<1>5. CASE m = iras_tex(k, t)
  <2>1. PICK r : m = [a EXCEPT !.ret = r]
    BY <1>1, <1>5 DEF iras_tex, RaiseException
  <2>2. Beside(m, a)
    BY <1>2, <2>1 DEF Whole, Beside, Same, Fields, Inner
  <2>3. Spares(m, a)
    BY <1>2, <2>2, BesideSpares
  <2> QED BY <1>2, <2>3, SparesSpares
<1>6. CASE m = dis_tex(k) /\ t = k.runtsk
  <2>1. PICK v : m = [k EXCEPT !.tcb[t].enatex = v]
    BY <1>6 DEF dis_tex
  <2> QED BY <2>1, CountersSpare
<1>7. CASE m = ena_tex(k) /\ t = k.runtsk
  <2>1. PICK b, v : b = [k EXCEPT !.tcb[t].enatex = v] /\ m = calltex(b)
    BY <1>7 DEF ena_tex
  <2>2. Spares(b, k) /\ Whole(b)
    BY <2>1, CountersSpare DEF Spares
  <2>3. b.runtsk = k.runtsk
    BY <2>1 DEF Whole, Fields
  <2>4. Spares(m, b)
    BY <2>1, <2>2, <2>3, CalltexSpares
  <2> QED BY <2>2, <2>4, SparesSpares
<1> QED BY <1>4, <1>5, <1>6, <1>7

LEMMA TexReturnSpares ==
  ASSUME NEW k, Whole(k), k.runtsk \in Task, NEW m, m = [TexReturned(k) EXCEPT !.locked = FALSE]
  PROVE  Spares(m, k)
<1>1. PICK a : a = TexReturned(k)
  OBVIOUS
<1>2. Spares(a, k) /\ Whole(a)
  BY <1>1, ReturnSpares DEF Spares
<1>3. Beside(m, a)
  BY <1>1, <1>2 DEF Whole, Beside, Same, Fields, Inner
<1>4. Spares(m, a)
  BY <1>2, <1>3, BesideSpares
<1> QED BY <1>2, <1>4, SparesSpares

\* Flags are written, and the clock goes on.
LEMMA FlagsSpare ==
  ASSUME NEW k, Whole(k), NEW m,
         \/ m = loc_cpu(k)
         \/ m = unl_cpu(k)
         \/ m = dis_dsp(k)
         \/ m = ena_dsp(k)
         \/ m = [k EXCEPT !.interrupt = TRUE]
         \/ m = [k EXCEPT !.interrupt = TRUE, !.ticking = TRUE]
         \/ m = [NextTick(k) EXCEPT !.ticking = FALSE]
  PROVE  Spares(m, k)
<1>0. k = [f \in Fields |-> k[f]]
  BY DEF Whole
<1>1. CASE m = loc_cpu(k) \/ m = unl_cpu(k)
  <2>1. Beside(m, k)
    BY <1>0, <1>1 DEF loc_cpu, unl_cpu, Beside, Same, Fields, Inner
  <2> QED BY <2>1, BesideSpares
<1>2. CASE m = dis_dsp(k) \/ m = ena_dsp(k)
  <2>1. Beside(m, k)
    BY <1>0, <1>2 DEF dis_dsp, ena_dsp, Beside, Same, Fields, Inner
  <2> QED BY <2>1, BesideSpares
<1>3. CASE m = [k EXCEPT !.interrupt = TRUE] \/ m = [k EXCEPT !.interrupt = TRUE, !.ticking = TRUE]
  <2>1. Beside(m, k)
    BY <1>0, <1>3 DEF Beside, Same, Fields, Inner
  <2> QED BY <2>1, BesideSpares
<1>4. CASE m = [NextTick(k) EXCEPT !.ticking = FALSE]
  <2>1. Beside(m, k)
    BY <1>0, <1>4 DEF NextTick, Beside, Same, Fields, Inner
  <2> QED BY <2>1, BesideSpares
<1> QED BY <1>1, <1>2, <1>3, <1>4

--------------------------------------------------------------------------------
(* Cyclic handlers and time events. *)

LEMMA StopCyclicSpares ==
  ASSUME NEW k, Whole(k), NEW c, NEW m, m = StopCyclic(k, c)
  PROVE  Spares(m, k)
<1>1. CASE m = k
  BY <1>1, SparesSelf
<1>2. CASE m = [tmevtb_delete(k, c) EXCEPT !.cycsta[c] = FALSE, !.evttim[c] = 0]
  <2>1. PICK a : a = tmevtb_delete(k, c)
    OBVIOUS
  <2>2. Spares(a, k) /\ Whole(a)
    BY <2>1, DeleteSpares DEF Spares
  <2>3. Beside(m, a)
    BY <1>2, <2>1, <2>2 DEF Whole, Beside, Same, Fields, Inner
  <2>4. Spares(m, a)
    BY <2>2, <2>3, BesideSpares
  <2> QED BY <2>2, <2>4, SparesSpares
<1> QED BY <1>1, <1>2 DEF StopCyclic

LEMMA StaCycSpares ==
  ASSUME NEW k, Whole(k), NEW c, NEW m, m = sta_cyc(k, c)
  PROVE  Spares(m, k)
<1>1. PICK a : a = StopCyclic(k, c)
  OBVIOUS
<1>2. Spares(a, k) /\ Whole(a)
  BY <1>1, StopCyclicSpares DEF Spares
<1>3. PICK b : b = [a EXCEPT !.cycsta[c] = TRUE]
  OBVIOUS
<1>4. Beside(b, a)
  BY <1>2, <1>3 DEF Whole, Beside, Same, Fields, Inner
<1>5. Spares(b, a) /\ Whole(b)
  BY <1>2, <1>4, BesideSpares DEF Spares
<1>6. \E time : m = tmevtb_enqueue_cyc(b, c, time)
  BY <1>1, <1>3 DEF sta_cyc
<1>7. Spares(m, b)
  BY <1>5, <1>6, EnqueueCycSpares
<1>8. Spares(b, k)
  BY <1>2, <1>5, SparesSpares
<1> QED BY <1>7, <1>8, SparesSpares

LEMMA DeliverSlims ==
  ASSUME NEW k, Core(k), EventDue(k), NEW m, m = DeliverEvent(k)
  PROVE  Slims(m, k)
<1>1. PICK R, C, S : Fits(k, R, C, S)
  BY DEF Core, Sound
<1>2. Sound(k) /\ Whole(k) /\ Heaped(k)
  BY <1>1, SoundWhole DEF Core, Fits, Base, Events
<1>3. PICK node, o : node = k.heap[1] /\ o = node.owner
  OBVIOUS
<1>4. node \in Node /\ node \in Nodes(k, node.owner)
  BY <1>2, <1>3, RootEvent
<1>5. PICK rest : rest = tmevtb_delete(k, o)
  OBVIOUS
<1>6. Spares(rest, k) /\ Whole(rest)
  BY <1>2, <1>5, DeleteSpares DEF Spares
<1>7. m = CASE node.callback = "wait_tmout"    -> wait_tmout(rest, o)
            [] node.callback = "wait_tmout_ok" -> wait_tmout_ok(rest, o)
            [] node.callback = "call_cychdr"   -> call_cychdr(rest, o)
  BY <1>3, <1>5 DEF DeliverEvent, tmevtb_delete_top
<1>8. CASE o \in Task
  <2>1. TaskFits(k, o, R, C, S)
    BY <1>1, <1>8 DEF Fits
  <2>2. node.callback \in {"wait_tmout", "wait_tmout_ok"}
    BY <1>3, <1>4, <2>1 DEF TaskFits, Watched
  <2>3. m = wait_tmout(rest, o) \/ m = wait_tmout_ok(rest, o)
    BY <1>7, <2>2
  <2>4. CASE m = wait_tmout(rest, o)
    <3>1. Thins(m, rest, {})
      BY <1>6, <1>8, <2>4, TmoutThins
    <3> QED BY <1>6, <3>1, SparesThin, ThinsSlim
  <2>5. CASE m = wait_tmout_ok(rest, o)
    <3>1. Spares(m, rest)
      BY <1>6, <1>8, <2>5, TmoutOkSpares
    <3> QED BY <1>6, <3>1, SparesSpares, SparesSlim
  <2> QED BY <2>3, <2>4, <2>5
<1>9. CASE o \in Cyclic
  <2>1. CyclicFits(k, o)
    BY <1>1, <1>9 DEF Fits
  <2>2. node.callback = "call_cychdr"
    BY <1>3, <1>4, <2>1 DEF CyclicFits, Handled
  <2>3. m = call_cychdr(rest, o)
    BY <1>7, <2>2
  <2>4. \E time : m = tmevtb_enqueue_cyc(rest, o, time)
    BY <2>3 DEF call_cychdr
  <2>5. Spares(m, rest)
    BY <1>6, <2>4, EnqueueCycSpares
  <2> QED BY <1>6, <2>5, SparesSpares, SparesSlim
<1> QED BY <1>3, <1>4, <1>8, <1>9 DEF Node, EventOwner

--------------------------------------------------------------------------------
(* The steps that are no service of the object. *)

\* A service returns or leaves its interrupt handler.
Finishes(n) == Returns(n) \/ Leaves(n)

LEMMA SlimsEnd ==
  ASSUME Core(kernel), Core(kernel'), NEW n, Slims(n, kernel), Finishes(n)
  PROVE  Slims(kernel', kernel)
<1>1. Sound(kernel) /\ Whole(n)
  BY SlimsWhole DEF Core
<1>2. PICK k, m : k = kernel /\ m = kernel'
  OBVIOUS
<1>3. Sound(k) /\ Slims(n, k) /\ Core(m)
  BY <1>1, <1>2
<1>4. m = Dispatched(n) \/ m = Requested(n)
  BY <1>2 DEF Finishes, Returns, Leaves
<1>5. Slims(m, n)
  BY <1>1, <1>3, <1>4, DispatchedSlims, RequestedSlims
<1>6. Slims(m, k)
  BY <1>3, <1>5, SlimsSlims
<1> QED BY <1>2, <1>6

LEMMA SparesEnd ==
  ASSUME Core(kernel), Core(kernel'), NEW n, Spares(n, kernel), Finishes(n)
  PROVE  Slims(kernel', kernel)
BY SparesSlim, SlimsEnd

LEMMA CoreWhole ==
  ASSUME Core(kernel)
  PROVE  Whole(kernel) /\ Sound(kernel) /\ kernel.runtsk \in Task \cup {NULL}
BY SoundWhole DEF Core, Control

LEMMA ActsSlim ==
  ASSUME Core(kernel), Core(kernel'),
         \/ ActTsk \/ IactTsk \/ CanAct \/ TerTsk \/ CanWup \/ WupTsk \/ IwupTsk \/ RelWai
         \/ IrelWai \/ SusTsk \/ RsmTsk \/ RotRdq \/ IrotRdq \/ LocCpu \/ UnlCpu \/ DisDsp \/ EnaDsp
         \/ RasTex \/ IrasTex \/ StaCyc \/ StpCyc
  PROVE  Slims(kernel', kernel)
<1>0. Whole(kernel) /\ Sound(kernel) /\ kernel.runtsk \in Task \cup {NULL}
  BY CoreWhole
<1>1. CASE ActTsk
  <2>0. PICK t \in Task : Finishes(act_tsk(kernel, t))
    BY <1>1 DEF ActTsk, Finishes
  <2>1. PICK n : n = act_tsk(kernel, t) /\ Finishes(n)
    BY <2>0
  <2>2. Spares(n, kernel)
    BY <1>0, <2>1, ActTskSpares
  <2> QED BY <2>1, <2>2, SparesEnd
<1>2. CASE IactTsk
  <2>0. PICK t \in Task : Finishes(act_tsk(kernel, t))
    BY <1>2 DEF IactTsk, Finishes
  <2>1. PICK n : n = act_tsk(kernel, t) /\ Finishes(n)
    BY <2>0
  <2>2. Spares(n, kernel)
    BY <1>0, <2>1, ActTskSpares
  <2> QED BY <2>1, <2>2, SparesEnd
<1>3. CASE CanAct
  <2>0. PICK t \in Task : Finishes(can_act(kernel, t))
    BY <1>3 DEF CanAct, Finishes
  <2>1. PICK n : n = can_act(kernel, t) /\ Finishes(n)
    BY <2>0
  <2>2. Spares(n, kernel)
    BY <1>0, <2>1, CanCountSpares
  <2> QED BY <2>1, <2>2, SparesEnd
<1>4. CASE TerTsk
  <2>0. PICK t \in Task : Finishes(ter_tsk(kernel, t))
    BY <1>4 DEF TerTsk, Finishes, Others
  <2>1. PICK n : n = ter_tsk(kernel, t) /\ Finishes(n)
    BY <2>0
  <2>2. Slims(n, kernel)
    BY <1>0, <2>1, TerTskSlims
  <2> QED BY <2>1, <2>2, SlimsEnd
<1>5. CASE CanWup
  <2>0. PICK t \in Task : Finishes(can_wup(kernel, t))
    BY <1>5 DEF CanWup, Finishes
  <2>1. PICK n : n = can_wup(kernel, t) /\ Finishes(n)
    BY <2>0
  <2>2. Spares(n, kernel)
    BY <1>0, <2>1, CanCountSpares
  <2> QED BY <2>1, <2>2, SparesEnd
<1>6. CASE WupTsk
  <2>0. PICK t \in Task : Finishes(wup_tsk(kernel, t))
    BY <1>6 DEF WupTsk, Finishes
  <2>1. PICK n : n = wup_tsk(kernel, t) /\ Finishes(n)
    BY <2>0
  <2>2. Spares(n, kernel)
    BY <1>0, <2>1, WupTskSpares
  <2> QED BY <2>1, <2>2, SparesEnd
<1>7. CASE IwupTsk
  <2>0. PICK t \in Task : Finishes(wup_tsk(kernel, t))
    BY <1>7 DEF IwupTsk, Finishes
  <2>1. PICK n : n = wup_tsk(kernel, t) /\ Finishes(n)
    BY <2>0
  <2>2. Spares(n, kernel)
    BY <1>0, <2>1, WupTskSpares
  <2> QED BY <2>1, <2>2, SparesEnd
<1>8. CASE RelWai
  <2>0. PICK t \in Task : Finishes(wait_release(kernel, t))
    BY <1>8 DEF RelWai, Finishes
  <2>1. PICK n : n = wait_release(kernel, t) /\ Finishes(n)
    BY <2>0
  <2>2. Slims(n, kernel)
    BY <1>0, <2>1, ReleaseThins, ThinsSlim
  <2> QED BY <2>1, <2>2, SlimsEnd
<1>9. CASE IrelWai
  <2>0. PICK t \in Task : Finishes(wait_release(kernel, t))
    BY <1>9 DEF IrelWai, Finishes
  <2>1. PICK n : n = wait_release(kernel, t) /\ Finishes(n)
    BY <2>0
  <2>2. Slims(n, kernel)
    BY <1>0, <2>1, ReleaseThins, ThinsSlim
  <2> QED BY <2>1, <2>2, SlimsEnd
<1>10. CASE SusTsk
  <2>0. PICK t \in Task : Finishes(sus_tsk(kernel, t))
    BY <1>10 DEF SusTsk, Finishes
  <2>1. PICK n : n = sus_tsk(kernel, t) /\ Finishes(n)
    BY <2>0
  <2>2. Spares(n, kernel)
    BY <1>0, <2>1, SusTskSpares
  <2> QED BY <2>1, <2>2, SparesEnd
<1>11. CASE RsmTsk
  <2>0. PICK t \in Task : Finishes(rsm_tsk(kernel, t))
    BY <1>11 DEF RsmTsk, Finishes, Others
  <2>1. PICK n : n = rsm_tsk(kernel, t) /\ Finishes(n)
    BY <2>0
  <2>2. Spares(n, kernel)
    BY <1>0, <2>1, RsmTskSpares
  <2> QED BY <2>1, <2>2, SparesEnd
<1>12. CASE RotRdq
  <2>1. PICK pri, n : n = rotate_ready_queue(kernel, pri) /\ Finishes(n)
    BY <1>12 DEF RotRdq, Finishes, rot_rdq
  <2>2. Spares(n, kernel)
    BY <1>0, <2>1, RotateSpares
  <2> QED BY <2>1, <2>2, SparesEnd
<1>13. CASE IrotRdq
  <2>1. PICK pri, n : n = rotate_ready_queue(kernel, pri) /\ Finishes(n)
    BY <1>13 DEF IrotRdq, Finishes, rot_rdq
  <2>2. Spares(n, kernel)
    BY <1>0, <2>1, RotateSpares
  <2> QED BY <2>1, <2>2, SparesEnd
<1>14. CASE LocCpu
  <2>1. PICK n : n = loc_cpu(kernel) /\ Finishes(n)
    BY <1>14 DEF LocCpu, Finishes
  <2>2. Spares(n, kernel)
    BY <1>0, <2>1, FlagsSpare
  <2> QED BY <2>1, <2>2, SparesEnd
<1>15. CASE UnlCpu
  <2>1. PICK n : n = unl_cpu(kernel) /\ Finishes(n)
    BY <1>15 DEF UnlCpu, Finishes
  <2>2. Spares(n, kernel)
    BY <1>0, <2>1, FlagsSpare
  <2> QED BY <2>1, <2>2, SparesEnd
<1>16. CASE DisDsp
  <2>1. PICK n : n = dis_dsp(kernel) /\ Finishes(n)
    BY <1>16 DEF DisDsp, Finishes
  <2>2. Spares(n, kernel)
    BY <1>0, <2>1, FlagsSpare
  <2> QED BY <2>1, <2>2, SparesEnd
<1>17. CASE EnaDsp
  <2>1. PICK n : n = ena_dsp(kernel) /\ Finishes(n)
    BY <1>17 DEF EnaDsp, Finishes
  <2>2. Spares(n, kernel)
    BY <1>0, <2>1, FlagsSpare
  <2> QED BY <2>1, <2>2, SparesEnd
<1>18. CASE RasTex
  <2>0. PICK t \in Task : Finishes(ras_tex(kernel, t))
    BY <1>18 DEF RasTex, Finishes
  <2>1. PICK n : n = ras_tex(kernel, t) /\ Finishes(n)
    BY <2>0
  <2>2. Spares(n, kernel)
    BY <1>0, <2>1, TexServicesSpare
  <2> QED BY <2>1, <2>2, SparesEnd
<1>19. CASE IrasTex
  <2>0. PICK t \in Task : Finishes(iras_tex(kernel, t))
    BY <1>19 DEF IrasTex, Finishes
  <2>1. PICK n : n = iras_tex(kernel, t) /\ Finishes(n)
    BY <2>0
  <2>2. Spares(n, kernel)
    BY <1>0, <2>1, TexServicesSpare
  <2> QED BY <2>1, <2>2, SparesEnd
<1>20. CASE StaCyc
  <2>1. PICK c, n : n = sta_cyc(kernel, c) /\ Finishes(n)
    BY <1>20 DEF StaCyc, Finishes
  <2>2. Spares(n, kernel)
    BY <1>0, <2>1, StaCycSpares
  <2> QED BY <2>1, <2>2, SparesEnd
<1>21. CASE StpCyc
  <2>1. PICK c, n : n = StopCyclic(kernel, c) /\ Finishes(n)
    BY <1>21 DEF StpCyc, Finishes
  <2>2. Spares(n, kernel)
    BY <1>0, <2>1, StopCyclicSpares
  <2> QED BY <2>1, <2>2, SparesEnd
<1> QED BY <1>1, <1>2, <1>3, <1>4, <1>5, <1>6, <1>7, <1>8, <1>9, <1>10, <1>11, <1>12, <1>13,
           <1>14, <1>15, <1>16, <1>17, <1>18, <1>19, <1>20, <1>21

\* Those that the task that runs calls for itself.
LEMMA RunningSlims ==
  ASSUME Core(kernel), Core(kernel'),
         ExtTsk \/ ChgPri \/ TslpTsk \/ DlyTsk \/ DisTex \/ EnaTex \/ TexReturn
  PROVE  Slims(kernel', kernel)
<1>0. Whole(kernel) /\ Sound(kernel) /\ kernel.runtsk \in Task \cup {NULL}
  BY CoreWhole
<1>1. CASE ExtTsk
  <2>1. PICK m : m = kernel' /\ m = ext_tsk(kernel) /\ Core(m) /\ kernel.runtsk # NULL
    BY <1>1 DEF ExtTsk, TaskContext
  <2>2. Slims(m, kernel)
    BY <2>1, ExtTskSlims
  <2> QED BY <2>1, <2>2
<1>2. CASE ChgPri
  <2>0. PICK t \in Task, pri \in kernel.cfg.pris : Finishes(chg_pri(kernel, t, pri))
    BY <1>2 DEF ChgPri, Finishes
  <2>1. PICK n : n = chg_pri(kernel, t, pri) /\ Finishes(n)
    BY <2>0
  <2>2. pri \in Priority
    BY Timeouts
  <2>3. Slims(n, kernel)
    BY <1>0, <2>1, <2>2, ChgPriSlims
  <2> QED BY <2>1, <2>3, SlimsEnd
<1>3. CASE TslpTsk
  <2>1. PICK tmout, n : n = tslp_tsk(kernel, tmout) /\ Finishes(n)
    BY <1>3 DEF TslpTsk, Finishes
  <2>2. PICK t : Caller(kernel, t)
    BY <1>3, MayCall DEF TslpTsk, MayWait
  <2>3. Slims(n, kernel)
    BY <1>0, <2>1, <2>2, TslpTskSlims
  <2> QED BY <2>1, <2>3, SlimsEnd
<1>4. CASE DlyTsk
  <2>1. PICK time, n : n = dly_tsk(kernel, time) /\ Finishes(n)
    BY <1>4 DEF DlyTsk, Finishes
  <2>2. PICK t : Caller(kernel, t)
    BY <1>4, MayCall DEF DlyTsk, MayWait
  <2>3. Slims(n, kernel)
    BY <1>0, <2>1, <2>2, DlyTskSlims
  <2> QED BY <2>1, <2>3, SlimsEnd
<1>5. CASE DisTex \/ EnaTex
  <2>1. PICK n : (n = dis_tex(kernel) \/ n = ena_tex(kernel)) /\ Finishes(n)
    BY <1>5 DEF DisTex, EnaTex, Finishes
  <2>2. PICK t \in Task : t = kernel.runtsk
    BY <1>0, <1>5 DEF DisTex, EnaTex, InTask, TaskContext
  <2>3. Spares(n, kernel)
    BY <1>0, <2>1, <2>2, TexServicesSpare
  <2> QED BY <2>1, <2>3, SparesEnd
<1>6. CASE TexReturn
  <2>1. PICK m : m = kernel' /\ m = [TexReturned(kernel) EXCEPT !.locked = FALSE]
    BY <1>6 DEF TexReturn
  <2>2. kernel.runtsk \in Task
    BY <1>0, <1>6 DEF TexReturn, TaskContext
  <2>3. Slims(m, kernel)
    BY <1>0, <2>1, <2>2, TexReturnSpares, SparesSlim
  <2> QED BY <2>1, <2>3
<1> QED BY <1>1, <1>2, <1>3, <1>4, <1>5, <1>6

LEMMA InterruptsSlim ==
  ASSUME Core(kernel), Core(kernel'),
         Interrupt \/ TimerInterrupt \/ TickDelivers \/ TickEnds \/ InterruptReturns
  PROVE  Slims(kernel', kernel)
<1>0. Whole(kernel) /\ Sound(kernel)
  BY CoreWhole
<1>1. PICK m : m = kernel' /\ Core(m)
  OBVIOUS
<1>2. CASE Interrupt \/ TimerInterrupt \/ TickEnds
  <2>1. \/ m = [kernel EXCEPT !.interrupt = TRUE]
        \/ m = [kernel EXCEPT !.interrupt = TRUE, !.ticking = TRUE]
        \/ m = [NextTick(kernel) EXCEPT !.ticking = FALSE]
    BY <1>1, <1>2 DEF Interrupt, TimerInterrupt, TickEnds
  <2>2. Slims(m, kernel)
    BY <1>0, <2>1, FlagsSpare, SparesSlim
  <2> QED BY <1>1, <2>2
<1>3. CASE TickDelivers
  <2>1. EventDue(kernel) /\ m = DeliverEvent(kernel)
    BY <1>1, <1>3 DEF TickDelivers
  <2>2. Slims(m, kernel)
    BY <2>1, DeliverSlims
  <2> QED BY <1>1, <2>2
<1>4. CASE InterruptReturns
  <2>1. m = ret_int([kernel EXCEPT !.interrupt = FALSE])
    BY <1>1, <1>4 DEF InterruptReturns
  <2>2. Slims(m, kernel)
    BY <1>1, <2>1, RetIntSlims
  <2> QED BY <1>1, <2>2
<1> QED BY <1>2, <1>3, <1>4

LEMMA OtherStepsSlim ==
  ASSUME Core(kernel), Core(kernel'), TaskNext \/ TimeNext
  PROVE  Slims(kernel', kernel)
BY ActsSlim, RunningSlims, InterruptsSlim DEF TaskNext, TimeNext

--------------------------------------------------------------------------------
(* What is sent is numbered: from what arrived to what still waits with its sender, the numbers   *)
(* rise.                                                                                          *)

Rising(q)      == \A i, j \in 1 .. Len(q) : i < j => q[i] < q[j]
AllBelow(q, n) == \A i \in 1 .. Len(q) : q[i] < n
Precedes(p, q)   == \A i \in 1 .. Len(q) : AllBelow(p, q[i])

\* d arrived, s is stored, e waits with its senders, n is the last number.
Line(d, s, e, n) ==
  /\ n \in Nat /\ d \in Seq(Nat) /\ s \in Seq(Nat) /\ e \in Seq(Nat)
  /\ Rising(d) /\ Rising(s) /\ Rising(e)
  /\ Precedes(d, s) /\ Precedes(d, e) /\ Precedes(s, e)
  /\ AllBelow(d, n + 1) /\ AllBelow(s, n + 1) /\ AllBelow(e, n + 1)

LEMMA NothingInLine == Line(<< >>, << >>, << >>, 0)
BY DEF Line, Rising, AllBelow, Precedes

LEMMA RisingAppended ==
  ASSUME NEW q \in Seq(Nat), Rising(q), NEW n \in Nat, AllBelow(q, n)
  PROVE  Append(q, n) \in Seq(Nat) /\ Rising(Append(q, n)) /\ Len(Append(q, n)) = Len(q) + 1
         /\ \A i \in 1 .. Len(q) + 1 : Append(q, n)[i] = IF i = Len(q) + 1 THEN n ELSE q[i]
<1>1. PICK p : p = Append(q, n)
  OBVIOUS
<1>2. /\ p \in Seq(Nat) /\ Len(p) = Len(q) + 1 /\ Len(q) \in Nat
      /\ \A i \in 1 .. Len(q) + 1 : p[i] = IF i = Len(q) + 1 THEN n ELSE q[i]
  BY <1>1
<1>3. ASSUME NEW i \in 1 .. Len(p), NEW j \in 1 .. Len(p), i < j
      PROVE  p[i] < p[j]
  <2>1. i \in 1 .. Len(q) /\ p[i] = q[i]
    BY <1>2, <1>3
  <2>2. CASE j = Len(q) + 1
    BY <1>2, <2>1, <2>2 DEF AllBelow
  <2>3. CASE j # Len(q) + 1
    <3>1. j \in 1 .. Len(q) /\ p[j] = q[j]
      BY <1>2, <2>3
    <3> QED BY <1>3, <2>1, <3>1 DEF Rising
  <2> QED BY <2>2, <2>3
<1> QED BY <1>1, <1>2, <1>3 DEF Rising

\* One more at the end of q, and n as before.
LEMMA BelowAppended ==
  ASSUME NEW q \in Seq(Nat), NEW v \in Nat, NEW n \in Nat, AllBelow(q, n), v < n
  PROVE  AllBelow(Append(q, v), n)
<1>1. PICK p : p = Append(q, v)
  OBVIOUS
<1>2. /\ Len(p) = Len(q) + 1 /\ Len(q) \in Nat
      /\ \A i \in 1 .. Len(q) + 1 : p[i] = IF i = Len(q) + 1 THEN v ELSE q[i]
  BY <1>1
<1>3. ASSUME NEW i \in 1 .. Len(p) PROVE p[i] < n
  BY <1>2 DEF AllBelow
<1> QED BY <1>1, <1>3 DEF AllBelow

LEMMA BelowMore ==
  ASSUME NEW q \in Seq(Nat), NEW m \in Nat, NEW n \in Nat, AllBelow(q, m), m <= n
  PROVE  AllBelow(q, n)
<1>1. \A i \in 1 .. Len(q) : q[i] \in Nat
  OBVIOUS
<1> QED BY <1>1 DEF AllBelow

\* A number that is more than all in p goes behind q.
LEMMA AheadAppended ==
  ASSUME NEW p, NEW q \in Seq(Nat), Precedes(p, q), NEW n \in Nat, AllBelow(p, n)
  PROVE  Precedes(p, Append(q, n))
<1>1. PICK r : r = Append(q, n)
  OBVIOUS
<1>2. /\ Len(r) = Len(q) + 1 /\ Len(q) \in Nat
      /\ \A i \in 1 .. Len(q) + 1 : r[i] = IF i = Len(q) + 1 THEN n ELSE q[i]
  BY <1>1
<1>3. ASSUME NEW i \in 1 .. Len(r) PROVE AllBelow(p, r[i])
  BY <1>2 DEF Precedes
<1> QED BY <1>1, <1>3 DEF Precedes

\* A number less than all in q goes behind p.
LEMMA AheadExtended ==
  ASSUME NEW p \in Seq(Nat), NEW q \in Seq(Nat), Precedes(p, q), NEW n \in Nat,
         \A i \in 1 .. Len(q) : n < q[i]
  PROVE  Precedes(Append(p, n), q)
<1>1. ASSUME NEW i \in 1 .. Len(q) PROVE AllBelow(Append(p, n), q[i])
  <2>1. PICK v \in Nat : v = q[i]
    OBVIOUS
  <2>2. AllBelow(p, v) /\ n < v
    BY <2>1 DEF Precedes
  <2>3. AllBelow(Append(p, n), v)
    BY <2>2, BelowAppended
  <2> QED BY <2>1, <2>3
<1> QED BY <1>1 DEF Precedes

LEMMA TailFacts ==
  ASSUME NEW q \in Seq(Nat), q # << >>
  PROVE  /\ Head(q) = q[1] /\ Head(q) \in Nat /\ 1 \in 1 .. Len(q) /\ Len(q) \in Nat
         /\ Tail(q) \in Seq(Nat) /\ Len(Tail(q)) = Len(q) - 1
         /\ \A i \in 1 .. Len(q) - 1 : Tail(q)[i] = q[i + 1] /\ i + 1 \in 1 .. Len(q)
OBVIOUS

LEMMA RisingTail ==
  ASSUME NEW q \in Seq(Nat), q # << >>, Rising(q)
  PROVE  Rising(Tail(q)) /\ \A i \in 1 .. Len(Tail(q)) : Head(q) < Tail(q)[i]
<1>1. PICK p : p = Tail(q)
  OBVIOUS
<1>2. /\ Head(q) = q[1] /\ 1 \in 1 .. Len(q) /\ Len(q) \in Nat /\ Len(p) = Len(q) - 1
      /\ \A i \in 1 .. Len(q) - 1 : p[i] = q[i + 1] /\ i + 1 \in 1 .. Len(q)
  BY <1>1, TailFacts
<1>3. ASSUME NEW i \in 1 .. Len(p), NEW j \in 1 .. Len(p), i < j PROVE p[i] < p[j]
  <2>1. PICK a, b : a = i + 1 /\ b = j + 1
    OBVIOUS
  <2>2. p[i] = q[a] /\ a \in 1 .. Len(q) /\ p[j] = q[b] /\ b \in 1 .. Len(q) /\ a < b
    BY <1>2, <1>3, <2>1
  <2>3. q[a] < q[b]
    BY <2>2 DEF Rising
  <2> QED BY <2>2, <2>3
<1>4. ASSUME NEW i \in 1 .. Len(p) PROVE Head(q) < p[i]
  <2>1. p[i] = q[i + 1] /\ i + 1 \in 1 .. Len(q) /\ 1 < i + 1
    BY <1>2
  <2> QED BY <1>2, <2>1 DEF Rising
<1> QED BY <1>1, <1>3, <1>4 DEF Rising

LEMMA BelowTail ==
  ASSUME NEW q \in Seq(Nat), q # << >>, NEW n, AllBelow(q, n)
  PROVE  AllBelow(Tail(q), n) /\ Head(q) < n
<1>1. PICK p : p = Tail(q)
  OBVIOUS
<1>2. /\ Head(q) = q[1] /\ 1 \in 1 .. Len(q) /\ Len(q) \in Nat /\ Len(p) = Len(q) - 1
      /\ \A i \in 1 .. Len(q) - 1 : p[i] = q[i + 1] /\ i + 1 \in 1 .. Len(q)
  BY <1>1, TailFacts
<1> QED BY <1>1, <1>2 DEF AllBelow

LEMMA AheadTail ==
  ASSUME NEW p, NEW q \in Seq(Nat), q # << >>, Precedes(p, q)
  PROVE  Precedes(p, Tail(q)) /\ AllBelow(p, Head(q))
<1>1. PICK r : r = Tail(q)
  OBVIOUS
<1>2. /\ Head(q) = q[1] /\ 1 \in 1 .. Len(q) /\ Len(q) \in Nat /\ Len(r) = Len(q) - 1
      /\ \A i \in 1 .. Len(q) - 1 : r[i] = q[i + 1] /\ i + 1 \in 1 .. Len(q)
  BY <1>1, TailFacts
<1>3. ASSUME NEW i \in 1 .. Len(r) PROVE AllBelow(p, r[i])
  BY <1>2 DEF Precedes
<1>4. AllBelow(p, Head(q))
  BY <1>2 DEF Precedes
<1> QED BY <1>1, <1>3, <1>4 DEF Precedes

LEMMA TailAhead ==
  ASSUME NEW p \in Seq(Nat), p # << >>, NEW q \in Seq(Nat), Precedes(p, q)
  PROVE  Precedes(Tail(p), q) /\ \A i \in 1 .. Len(q) : Head(p) < q[i]
<1>1. ASSUME NEW i \in 1 .. Len(q) PROVE AllBelow(Tail(p), q[i]) /\ Head(p) < q[i]
  <2>1. PICK v : v = q[i]
    OBVIOUS
  <2>2. AllBelow(p, v)
    BY <2>1 DEF Precedes
  <2>3. AllBelow(Tail(p), v) /\ Head(p) < v
    BY <2>2, BelowTail
  <2> QED BY <2>1, <2>3
<1> QED BY <1>1 DEF Precedes

\* The next one is stored, arrives at once, or waits with its sender.
LEMMA LineStored ==
  ASSUME NEW d, NEW s, NEW n, Line(d, s, << >>, n)
  PROVE  Line(d, Append(s, n + 1), << >>, n + 1)
<1>1. PICK e, v : e = << >> /\ v = n + 1
  OBVIOUS
<1>2. /\ n \in Nat /\ d \in Seq(Nat) /\ s \in Seq(Nat) /\ e \in Seq(Nat) /\ Rising(d) /\ Rising(s)
      /\ Precedes(d, s) /\ AllBelow(d, v) /\ AllBelow(s, v) /\ Rising(e)
  BY <1>1 DEF Line
<1>3. v \in Nat /\ v + 1 \in Nat /\ v < v + 1 /\ v <= v + 1
  BY <1>1, <1>2
<1>4. PICK r : r = Append(s, v)
  OBVIOUS
<1>5. r \in Seq(Nat) /\ Rising(r)
  BY <1>2, <1>3, <1>4, RisingAppended
<1>6. Precedes(d, r)
  BY <1>2, <1>3, <1>4, AheadAppended
<1>7. AllBelow(r, v + 1)
  <2>1. AllBelow(s, v + 1)
    BY <1>2, <1>3, BelowMore
  <2> QED BY <1>2, <1>3, <1>4, <2>1, BelowAppended
<1>8. AllBelow(d, v + 1)
  BY <1>2, <1>3, BelowMore
<1>9. Precedes(d, e) /\ Precedes(r, e) /\ AllBelow(e, v + 1)
  BY <1>1 DEF Precedes, AllBelow
<1>10. Line(d, r, e, v)
  BY <1>2, <1>3, <1>5, <1>6, <1>7, <1>8, <1>9 DEF Line
<1> QED BY <1>1, <1>4, <1>10

LEMMA LineArrived ==
  ASSUME NEW d, NEW n, Line(d, << >>, << >>, n)
  PROVE  Line(Append(d, n + 1), << >>, << >>, n + 1)
<1>1. PICK e, v : e = << >> /\ v = n + 1
  OBVIOUS
<1>2. n \in Nat /\ d \in Seq(Nat) /\ e \in Seq(Nat) /\ Rising(d) /\ AllBelow(d, v) /\ Rising(e)
  BY <1>1 DEF Line
<1>3. v \in Nat /\ v + 1 \in Nat /\ v < v + 1 /\ v <= v + 1
  BY <1>1, <1>2
<1>4. PICK r : r = Append(d, v)
  OBVIOUS
<1>5. r \in Seq(Nat) /\ Rising(r)
  BY <1>2, <1>3, <1>4, RisingAppended
<1>6. AllBelow(r, v + 1)
  <2>1. AllBelow(d, v + 1)
    BY <1>2, <1>3, BelowMore
  <2> QED BY <1>2, <1>3, <1>4, <2>1, BelowAppended
<1>7. Precedes(e, e) /\ Precedes(r, e) /\ AllBelow(e, v + 1)
  BY <1>1 DEF Precedes, AllBelow
<1>8. Line(r, e, e, v)
  BY <1>2, <1>3, <1>5, <1>6, <1>7 DEF Line
<1> QED BY <1>1, <1>4, <1>8

LEMMA LineWaits ==
  ASSUME NEW d, NEW s, NEW e, NEW n, Line(d, s, e, n)
  PROVE  Line(d, s, Append(e, n + 1), n + 1)
<1>1. PICK v : v = n + 1
  OBVIOUS
<1>2. /\ n \in Nat /\ d \in Seq(Nat) /\ s \in Seq(Nat) /\ e \in Seq(Nat)
      /\ Rising(d) /\ Rising(s) /\ Rising(e) /\ Precedes(d, s) /\ Precedes(d, e) /\ Precedes(s, e)
      /\ AllBelow(d, v) /\ AllBelow(s, v) /\ AllBelow(e, v)
  BY <1>1 DEF Line
<1>3. v \in Nat /\ v + 1 \in Nat /\ v < v + 1 /\ v <= v + 1
  BY <1>1, <1>2
<1>4. PICK r : r = Append(e, v)
  OBVIOUS
<1>5. r \in Seq(Nat) /\ Rising(r)
  BY <1>2, <1>3, <1>4, RisingAppended
<1>6. Precedes(d, r)
  BY <1>2, <1>3, <1>4, AheadAppended
<1>7. Precedes(s, r)
  BY <1>2, <1>3, <1>4, AheadAppended
<1>8. AllBelow(e, v + 1)
  BY <1>2, <1>3, BelowMore
<1>9. AllBelow(r, v + 1)
  BY <1>2, <1>3, <1>4, <1>8, BelowAppended
<1>10. AllBelow(d, v + 1)
  BY <1>2, <1>3, BelowMore
<1>11. AllBelow(s, v + 1)
  BY <1>2, <1>3, BelowMore
<1>12. Line(d, s, r, v)
  BY <1>2, <1>3, <1>5, <1>6, <1>7, <1>9, <1>10, <1>11 DEF Line
<1> QED BY <1>1, <1>4, <1>12

\* The first of those stored arrives, or the first that waits with its sender is stored.
LEMMA LineTaken ==
  ASSUME NEW d, NEW s, s # << >>, NEW e, NEW n, Line(d, s, e, n)
  PROVE  Line(Append(d, Head(s)), Tail(s), e, n)
<1>1. PICK h, r, p, v : h = Head(s) /\ r = Tail(s) /\ p = Append(d, h) /\ v = n + 1
  OBVIOUS
<1>2. /\ n \in Nat /\ d \in Seq(Nat) /\ s \in Seq(Nat) /\ e \in Seq(Nat)
      /\ Rising(d) /\ Rising(s) /\ Rising(e) /\ Precedes(d, s) /\ Precedes(d, e) /\ Precedes(s, e)
      /\ AllBelow(d, v) /\ AllBelow(s, v) /\ AllBelow(e, v)
  BY <1>1 DEF Line
<1>3. h \in Nat /\ r \in Seq(Nat) /\ v \in Nat
  BY <1>1, <1>2, TailFacts
<1>4. Rising(r) /\ \A i \in 1 .. Len(r) : h < r[i]
  BY <1>1, <1>2, RisingTail
<1>5. AllBelow(r, v) /\ h < v
  BY <1>1, <1>2, BelowTail
<1>6. Precedes(d, r) /\ AllBelow(d, h)
  BY <1>1, <1>2, AheadTail
<1>7. Precedes(r, e) /\ \A i \in 1 .. Len(e) : h < e[i]
  BY <1>1, <1>2, TailAhead
<1>8. p \in Seq(Nat) /\ Rising(p)
  BY <1>1, <1>2, <1>3, <1>6, RisingAppended
<1>9. AllBelow(p, v)
  BY <1>1, <1>2, <1>3, <1>5, BelowAppended
<1>10. Precedes(p, r)
  BY <1>1, <1>2, <1>3, <1>4, <1>6, AheadExtended
<1>11. Precedes(p, e)
  BY <1>1, <1>2, <1>3, <1>7, AheadExtended
<1>12. AllBelow(p, n + 1) /\ AllBelow(r, n + 1) /\ AllBelow(e, n + 1)
  BY <1>1, <1>2, <1>5, <1>9
<1>13. Line(p, r, e, n)
  BY <1>2, <1>3, <1>4, <1>6, <1>7, <1>8, <1>10, <1>11, <1>12 DEF Line
<1> QED BY <1>1, <1>13

LEMMA LineMoves ==
  ASSUME NEW d, NEW s, NEW e, e # << >>, NEW n, Line(d, s, e, n)
  PROVE  Line(d, Append(s, Head(e)), Tail(e), n)
<1>1. PICK h, r, p, v : h = Head(e) /\ r = Tail(e) /\ p = Append(s, h) /\ v = n + 1
  OBVIOUS
<1>2. /\ n \in Nat /\ d \in Seq(Nat) /\ s \in Seq(Nat) /\ e \in Seq(Nat)
      /\ Rising(d) /\ Rising(s) /\ Rising(e) /\ Precedes(d, s) /\ Precedes(d, e) /\ Precedes(s, e)
      /\ AllBelow(d, v) /\ AllBelow(s, v) /\ AllBelow(e, v)
  BY <1>1 DEF Line
<1>3. h \in Nat /\ r \in Seq(Nat) /\ v \in Nat
  BY <1>1, <1>2, TailFacts
<1>4. Rising(r) /\ \A i \in 1 .. Len(r) : h < r[i]
  BY <1>1, <1>2, RisingTail
<1>5. AllBelow(r, v) /\ h < v
  BY <1>1, <1>2, BelowTail
<1>6. Precedes(d, r) /\ AllBelow(d, h)
  BY <1>1, <1>2, AheadTail
<1>7. Precedes(s, r) /\ AllBelow(s, h)
  BY <1>1, <1>2, AheadTail
<1>8. p \in Seq(Nat) /\ Rising(p)
  BY <1>1, <1>2, <1>3, <1>7, RisingAppended
<1>9. AllBelow(p, v)
  BY <1>1, <1>2, <1>3, <1>5, BelowAppended
<1>10. Precedes(d, p)
  BY <1>1, <1>2, <1>3, <1>6, AheadAppended
<1>11. Precedes(p, r)
  BY <1>1, <1>2, <1>3, <1>4, <1>7, AheadExtended
<1>12. AllBelow(d, n + 1) /\ AllBelow(p, n + 1) /\ AllBelow(r, n + 1)
  BY <1>1, <1>2, <1>5, <1>9
<1>13. Line(d, p, r, n)
  BY <1>2, <1>3, <1>4, <1>6, <1>8, <1>10, <1>11, <1>12 DEF Line
<1> QED BY <1>1, <1>13

LEMMA LinePasses ==
  ASSUME NEW d, NEW e, e # << >>, NEW n, Line(d, << >>, e, n)
  PROVE  Line(Append(d, Head(e)), << >>, Tail(e), n)
<1>1. PICK h, r, p, v, o : /\ h = Head(e) /\ r = Tail(e) /\ p = Append(d, h) /\ v = n + 1
                           /\ o = << >>
  OBVIOUS
<1>2. /\ n \in Nat /\ d \in Seq(Nat) /\ e \in Seq(Nat) /\ o \in Seq(Nat) /\ Rising(o)
      /\ Rising(d) /\ Rising(e) /\ Precedes(d, e) /\ AllBelow(d, v) /\ AllBelow(e, v)
  BY <1>1 DEF Line
<1>3. h \in Nat /\ r \in Seq(Nat) /\ v \in Nat
  BY <1>1, <1>2, TailFacts
<1>4. Rising(r) /\ \A i \in 1 .. Len(r) : h < r[i]
  BY <1>1, <1>2, RisingTail
<1>5. AllBelow(r, v) /\ h < v
  BY <1>1, <1>2, BelowTail
<1>6. Precedes(d, r) /\ AllBelow(d, h)
  BY <1>1, <1>2, AheadTail
<1>7. p \in Seq(Nat) /\ Rising(p)
  BY <1>1, <1>2, <1>3, <1>6, RisingAppended
<1>8. AllBelow(p, v)
  BY <1>1, <1>2, <1>3, <1>5, BelowAppended
<1>9. Precedes(p, r)
  BY <1>1, <1>2, <1>3, <1>4, <1>6, AheadExtended
<1>10. Precedes(p, o) /\ Precedes(o, r) /\ AllBelow(o, v)
  BY <1>1 DEF Precedes, AllBelow
<1>11. AllBelow(p, n + 1) /\ AllBelow(r, n + 1) /\ AllBelow(o, n + 1)
  BY <1>1, <1>5, <1>8, <1>10
<1>12. Line(p, o, r, n)
  BY <1>2, <1>3, <1>4, <1>7, <1>9, <1>10, <1>11 DEF Line
<1> QED BY <1>1, <1>12

--------------------------------------------------------------------------------
(* The data of the tasks that wait. *)

Items(w, x) == [i \in 1 .. Len(w) |-> x[w[i]].data[1]]

LEMMA ItemsFacts ==
  ASSUME NEW w \in Seq(Task), NEW x
  PROVE  /\ DOMAIN Items(w, x) = 1 .. Len(w) /\ Len(Items(w, x)) = Len(w)
         /\ \A i \in 1 .. Len(w) : Items(w, x)[i] = x[w[i]].data[1]
         /\ (\A i \in 1 .. Len(w) : x[w[i]].data[1] \in Nat) => Items(w, x) \in Seq(Nat)
<1>1. PICK e, l : e = Items(w, x) /\ l = Len(w)
  OBVIOUS
<1>0. l \in Nat
  BY <1>1
<1>2. e = [i \in 1 .. l |-> x[w[i]].data[1]]
  BY <1>1 DEF Items
<1>3. DOMAIN e = 1 .. l /\ \A i \in 1 .. l : e[i] = x[w[i]].data[1]
  BY <1>2
<1>4. Len(e) = l
  BY <1>0, <1>2
<1>5. ASSUME \A i \in 1 .. l : x[w[i]].data[1] \in Nat PROVE e \in Seq(Nat)
  <2>1. e \in [1 .. l -> Nat]
    BY <1>2, <1>5
  <2> QED BY <1>0, <2>1
<1> QED BY <1>1, <1>3, <1>4, <1>5

\* Two queues of numbers that are the same at every place.
LEMMA SameRow ==
  ASSUME NEW a, NEW b, NEW l \in Nat, a = [i \in 1 .. l |-> a[i]], b = [i \in 1 .. l |-> b[i]],
         \A i \in 1 .. l : a[i] = b[i]
  PROVE  a = b
OBVIOUS

Row(q) == q = [i \in 1 .. Len(q) |-> q[i]] /\ Len(q) \in Nat

LEMMA ItemsKept ==
  ASSUME NEW w \in Seq(Task), NEW x, NEW y, \A t \in Elements(w) : y[t].data = x[t].data
  PROVE  Items(w, y) = Items(w, x)
<1>1. \A i \in 1 .. Len(w) : y[w[i]].data[1] = x[w[i]].data[1]
  BY DEF Elements
<1> QED BY <1>1 DEF Items

LEMMA TailIs ==
  ASSUME NEW S, NEW e \in Seq(S), e # << >>
  PROVE  Tail(e) = [i \in 1 .. Len(e) - 1 |-> e[i + 1]]
<1>1. PICK p, n : p = Tail(e) /\ n = Len(e) - 1
  OBVIOUS
<1>2. p \in Seq(S) /\ Len(p) = n /\ \A i \in 1 .. n : p[i] = e[i + 1]
  BY <1>1
<1>3. p = [i \in 1 .. n |-> p[i]]
  BY <1>2
<1>4. p = [i \in 1 .. n |-> e[i + 1]]
  BY <1>2, <1>3
<1> QED BY <1>1, <1>4

LEMMA ItemsTail ==
  ASSUME NEW w \in Seq(Task), w # << >>, NEW x
  PROVE  /\ Items(Tail(w), x) = Tail(Items(w, x)) /\ Items(w, x) # << >>
         /\ Head(Items(w, x)) = x[Head(w)].data[1]
<1>1. PICK e, r, l : e = Items(w, x) /\ r = Tail(w) /\ l = Len(w) - 1
  OBVIOUS
<1>0. l \in Nat
  BY <1>1
<1>2. /\ r \in Seq(Task) /\ Len(r) = l /\ \A i \in 1 .. l : r[i] = w[i + 1] /\ i + 1 \in 1 .. l + 1
      /\ Len(w) = l + 1 /\ Head(w) = w[1]
  BY <1>1
<1>3. e = [i \in 1 .. l + 1 |-> x[w[i]].data[1]]
  BY <1>1, <1>2 DEF Items
<1>4. PICK f : f = Items(r, x)
  OBVIOUS
<1>5. f = [i \in 1 .. l |-> x[r[i]].data[1]]
  BY <1>2, <1>4 DEF Items
<1>6. \A i \in 1 .. l : f[i] = e[i + 1]
  BY <1>2, <1>3, <1>5
<1>7. Len(e) = l + 1 /\ e # << >> /\ Head(e) = e[1] /\ e[1] = x[w[1]].data[1]
  <2>1. PICK n \in Nat : n = l + 1
    BY <1>0
  <2>2. e = [i \in 1 .. n |-> x[w[i]].data[1]]
    BY <1>3, <2>1
  <2>3. DOMAIN e = 1 .. n /\ Len(e) = n
    BY <2>2
  <2>4. 1 \in 1 .. n
    BY <1>0, <2>1
  <2>5. e[1] = x[w[1]].data[1]
    BY <2>2, <2>4
  <2>6. e # << >>
    BY <2>3, <2>4
  <2>7. Head(e) = e[1]
    OBVIOUS
  <2> QED BY <2>1, <2>3, <2>5, <2>6, <2>7
<1>8. Tail(e) = [i \in 1 .. l |-> e[i + 1]]
  <2>1. Len(e) - 1 = l
    BY <1>0, <1>7
  <2>2. e \in Seq({e[i] : i \in 1 .. l + 1})
    BY <1>0, <1>3
  <2>3. Tail(e) = [i \in 1 .. Len(e) - 1 |-> e[i + 1]]
    BY <1>7, <2>2, TailIs
  <2> QED BY <2>1, <2>3
<1>9. f = Tail(e)
  BY <1>5, <1>6, <1>8
<1> QED BY <1>1, <1>2, <1>4, <1>7, <1>9

\* t has the item v in y, and the tasks of w have theirs.
Bears(y, x, w, t, v) == y[t].data = <<v>> /\ \A u \in Elements(w) : y[u].data = x[u].data

LEMMA ItemsAppended ==
  ASSUME NEW w \in Seq(Task), NEW t \in Task, t \notin Elements(w), NEW x, NEW y, NEW v,
         Bears(y, x, w, t, v)
  PROVE  Items(Append(w, t), y) = Append(Items(w, x), v)
<1>1. PICK e, r, l : e = Items(w, x) /\ r = Append(w, t) /\ l = Len(w)
  OBVIOUS
<1>0. l \in Nat
  BY <1>1
<1>2. /\ Len(r) = l + 1 /\ \A i \in 1 .. l + 1 : r[i] = IF i = l + 1 THEN t ELSE w[i]
  BY <1>1
<1>3. e = [i \in 1 .. l |-> x[w[i]].data[1]] /\ Len(e) = l
  BY <1>1 DEF Items
<1>4. PICK f : f = Items(r, y)
  OBVIOUS
<1>5. f = [i \in 1 .. l + 1 |-> y[r[i]].data[1]]
  BY <1>2, <1>4 DEF Items
<1>6. ASSUME NEW i \in 1 .. l + 1 PROVE f[i] = IF i = l + 1 THEN v ELSE e[i]
  <2>1. CASE i = l + 1
    BY <1>2, <1>5, <2>1 DEF Bears
  <2>2. CASE i # l + 1
    <3>1. i \in 1 .. l /\ w[i] \in Elements(w)
      BY <1>1, <2>2 DEF Elements
    <3>2. y[w[i]].data = x[w[i]].data
      BY <3>1 DEF Bears
    <3> QED BY <1>2, <1>3, <1>5, <2>2, <3>1, <3>2
  <2> QED BY <2>1, <2>2
<1>7. PICK g : g = Append(e, v)
  OBVIOUS
<1>8. g = [i \in 1 .. l + 1 |-> IF i = l + 1 THEN v ELSE e[i]]
  <2>1. PICK S : S = {e[i] : i \in 1 .. l} \cup {v}
    OBVIOUS
  <2>2. e \in Seq(S) /\ v \in S
    BY <1>0, <1>3, <2>1
  <2> QED BY <1>0, <1>3, <1>7, <2>2
<1>9. f = g
  BY <1>5, <1>6, <1>8
<1> QED BY <1>1, <1>4, <1>7, <1>9

\* Senders that end to wait take their numbers out of the line.
LEMMA LineThins ==
  ASSUME NEW d, NEW s, NEW w \in Seq(Task), Distinct(w), NEW x, NEW n, Line(d, s, Items(w, x), n),
         NEW r, Narrows(r, w, FALSE), NEW y, \A t \in Elements(r) : y[t].data = x[t].data
  PROVE  Line(d, s, Items(r, y), n)
<1>1. /\ r \in Seq(Task) /\ Distinct(r) /\ Elements(r) \subseteq Elements(w)
      /\ \A key \in [Task -> Int] : InOrder(w, key) => InOrder(r, key)
  BY DEF Narrows
<1>2. PICK e, f, a, b : /\ a \in Nat /\ b \in Nat /\ a = Len(w) /\ b = Len(r)
                        /\ e = Items(w, x) /\ f = Items(r, y)
  BY <1>1
<1>3. DOMAIN e = 1 .. a /\ Len(e) = a /\ \A i \in 1 .. a : e[i] = x[w[i]].data[1]
  BY <1>2, ItemsFacts
<1>4. Line(d, s, e, n)
  BY <1>2
<1>5. e \in Seq(Nat) /\ \A i \in 1 .. a : e[i] \in Nat
  BY <1>3, <1>4 DEF Line
<1>6. \A i \in 1 .. b : y[r[i]].data = x[r[i]].data
  BY <1>2 DEF Elements
<1>7. ASSUME NEW i \in 1 .. b
      PROVE  \E p \in 1 .. a : r[i] = w[p] /\ y[r[i]].data[1] = e[p]
  <2>1. r[i] \in Elements(w)
    BY <1>1, <1>2 DEF Elements
  <2>2. PICK p \in 1 .. a : r[i] = w[p]
    BY <1>2, <2>1 DEF Elements
  <2>3. y[r[i]].data[1] = x[w[p]].data[1]
    BY <1>6, <2>2
  <2> QED BY <1>3, <2>2, <2>3
<1>8. f \in Seq(Nat) /\ Len(f) = b /\ \A i \in 1 .. b : f[i] = y[r[i]].data[1]
  <2>1. \A i \in 1 .. b : y[r[i]].data[1] \in Nat
    BY <1>5, <1>7
  <2>2. /\ Len(f) = Len(r) /\ \A i \in 1 .. Len(r) : f[i] = y[r[i]].data[1]
        /\ (\A i \in 1 .. Len(r) : y[r[i]].data[1] \in Nat) => f \in Seq(Nat)
    BY <1>1, <1>2, ItemsFacts
  <2> QED BY <1>2, <2>1, <2>2
<1>9. ASSUME NEW i \in 1 .. b PROVE \E p \in 1 .. a : r[i] = w[p] /\ f[i] = e[p]
  BY <1>7, <1>8
<1>10. Rising(e) /\ Precedes(d, e) /\ Precedes(s, e) /\ AllBelow(e, n + 1)
  BY <1>4 DEF Line
<1>11. PICK key \in [Task -> Int] : \A i \in 1 .. a : key[w[i]] = e[i]
  <2>1. PICK key : key = [t \in Task |-> IF t \in Elements(w) THEN x[t].data[1] ELSE 0]
    OBVIOUS
  <2>2. \A i \in 1 .. a : w[i] \in Task /\ w[i] \in Elements(w)
    BY <1>2 DEF Elements
  <2>3. \A t \in Elements(w) : \E i \in 1 .. a : t = w[i]
    BY <1>2 DEF Elements
  <2>4. ASSUME NEW t \in Task PROVE key[t] \in Int
    <3>1. CASE t \in Elements(w)
      <4>1. PICK i \in 1 .. a : t = w[i]
        BY <2>3, <3>1
      <4>2. x[t].data[1] = e[i] /\ e[i] \in Nat
        BY <1>3, <1>5, <4>1
      <4> QED BY <2>1, <3>1, <4>2
    <3>2. CASE t \notin Elements(w)
      BY <2>1, <3>2
    <3> QED BY <3>1, <3>2
  <2>5. key \in [Task -> Int]
    BY <2>1, <2>4
  <2>6. \A i \in 1 .. a : key[w[i]] = e[i]
    BY <1>3, <2>1, <2>2
  <2> QED BY <2>5, <2>6
<1>12. InOrder(w, key)
  <2>1. ASSUME NEW i \in 1 .. a, NEW j \in 1 .. a, i < j PROVE key[w[i]] <= key[w[j]]
    <3>1. e[i] < e[j]
      BY <1>3, <1>10, <2>1 DEF Rising
    <3>2. key[w[i]] = e[i] /\ key[w[j]] = e[j]
      BY <1>11
    <3>3. e[i] \in Nat /\ e[j] \in Nat
      BY <1>5
    <3> QED BY <3>1, <3>2, <3>3
  <2> QED BY <1>2, <2>1 DEF InOrder
<1>13. InOrder(r, key)
  BY <1>1, <1>12
<1>14. ASSUME NEW i \in 1 .. b, NEW j \in 1 .. b, i < j PROVE f[i] < f[j]
  <2>1. PICK p \in 1 .. a : r[i] = w[p] /\ f[i] = e[p]
    BY <1>9
  <2>2. PICK q \in 1 .. a : r[j] = w[q] /\ f[j] = e[q]
    BY <1>9
  <2>3. p # q
    <3>1. r[i] # r[j]
      BY <1>1, <1>2, <1>14 DEF Distinct
    <3> QED BY <2>1, <2>2, <3>1
  <2>4. e[p] <= e[q]
    <3>1. key[r[i]] <= key[r[j]]
      BY <1>2, <1>13, <1>14 DEF InOrder
    <3> QED BY <1>11, <2>1, <2>2, <3>1
  <2>5. ~ (q < p)
    <3>1. q < p => e[q] < e[p]
      BY <1>3, <1>10 DEF Rising
    <3> QED BY <1>5, <2>4, <3>1
  <2>6. p < q
    BY <2>3, <2>5
  <2>7. e[p] < e[q]
    BY <1>3, <1>10, <2>6 DEF Rising
  <2> QED BY <2>1, <2>2, <2>7
<1>15. Rising(f)
  BY <1>8, <1>14 DEF Rising
<1>16. AllBelow(f, n + 1)
  <2>1. \A p \in 1 .. a : e[p] < n + 1
    BY <1>3, <1>10 DEF AllBelow
  <2> QED BY <1>8, <1>9, <2>1 DEF AllBelow
<1>17. Precedes(d, f)
  <2>1. \A p \in 1 .. a : AllBelow(d, e[p])
    BY <1>3, <1>10 DEF Precedes
  <2>2. \A i \in 1 .. b : AllBelow(d, f[i])
    BY <1>9, <2>1
  <2> QED BY <1>8, <2>2 DEF Precedes
<1>18. Precedes(s, f)
  <2>1. \A p \in 1 .. a : AllBelow(s, e[p])
    BY <1>3, <1>10 DEF Precedes
  <2>2. \A i \in 1 .. b : AllBelow(s, f[i])
    BY <1>9, <2>1
  <2> QED BY <1>8, <2>2 DEF Precedes
<1>19. Line(d, s, f, n)
  BY <1>4, <1>8, <1>15, <1>16, <1>17, <1>18 DEF Line
<1> QED BY <1>2, <1>19

--------------------------------------------------------------------------------
(* What is right of the object, of whichever kind it is. *)

Spent(w, s) == s \in Nat /\ (w # << >> => s = 0)

Met(s, want) ==
  IF want[2] = "TWF_ORW" THEN s \cap want[1] # {} ELSE want[1] \subseteq s

Unmet(w, s, x) ==
  /\ \A t \in Elements(w) : ~Met(s, x[t].data)
  /\ \A t, u \in Elements(w) : t = u

Buffered(limit, w, v, s) ==
  /\ Row(s) /\ Len(s) <= limit
  /\ w # << >> => Len(s) = limit
  /\ v # << >> => s = << >> /\ w = << >>

Idle(w, s) == w # << >> => s = << >>

Owned(limit, s, h) ==
  /\ s \in Seq(1 .. limit) /\ Distinct(s) /\ h = [t \in Task |-> h[t]]
  /\ \A t \in Task : h[t] \subseteq 1 .. limit /\ h[t] \cap Elements(s) = {}
  /\ \A t, u \in Task : t # u => h[t] \cap h[u] = {}

NoReceivers(k) == k.obj.rwait_queue = << >>

OfNone(k) == k.cfg.object = "none" /\ NoReceivers(k) /\ NoWaiters(k)

OfSem(k) == k.cfg.object = "sem" /\ NoReceivers(k) /\ Spent(k.obj.wait_queue, k.obj.store)

OfFlg(k) ==
  k.cfg.object = "flg" /\ NoReceivers(k) /\ Unmet(k.obj.wait_queue, k.obj.store, k.tcb)

OfDtq(k) ==
  /\ k.cfg.object = "dtq"
  /\ Buffered(k.cfg.limit, k.obj.wait_queue, k.obj.rwait_queue, k.obj.store)
  /\ k.cfg.fifo => Line(k.delivered, k.obj.store, Items(k.obj.wait_queue, k.tcb), k.sent)

OfMbx(k) ==
  /\ k.cfg.object = "mbx" /\ NoReceivers(k) /\ Idle(k.obj.wait_queue, k.obj.store)
  /\ k.cfg.fifo => Line(k.delivered, k.obj.store, << >>, k.sent)

OfMpf(k) ==
  /\ k.cfg.object = "mpf" /\ NoReceivers(k) /\ Idle(k.obj.wait_queue, k.obj.store)
  /\ Owned(k.cfg.limit, k.obj.store, k.held)

Fine(k) == OfNone(k) \/ OfSem(k) \/ OfFlg(k) \/ OfDtq(k) \/ OfMbx(k) \/ OfMpf(k)

\* What steps that are no service of the object leave of it.
LeftAs(m, k) ==
  /\ m.cfg = k.cfg /\ m.obj.store = k.obj.store /\ m.sent = k.sent /\ m.delivered = k.delivered
  /\ m.held = k.held
  /\ Narrows(m.obj.wait_queue, k.obj.wait_queue, k.cfg.tpri)
  /\ NoWaiters(k) => NoWaiters(m)
  /\ NoReceivers(k) => NoReceivers(m)
  /\ \A t \in Elements(m.obj.wait_queue) : m.tcb[t].data = k.tcb[t].data
  /\ Elements(m.obj.wait_queue) \subseteq Elements(k.obj.wait_queue)

LEMMA SlimsLeaves ==
  ASSUME NEW k, Sound(k), NEW m, Slims(m, k)
  PROVE  LeftAs(m, k)
<1>1. PICK D : Thins(m, k, D) /\ \A t \in D : t \notin Elements(m.obj.wait_queue)
  BY DEF Slims
<1>2. /\ k.obj.wait_queue \in Seq(Task) /\ Distinct(k.obj.wait_queue)
      /\ k.obj.rwait_queue \in Seq(Task) /\ Distinct(k.obj.rwait_queue)
  BY SoundQueue
<1>3. /\ m.cfg = k.cfg /\ m.obj.store = k.obj.store /\ m.sent = k.sent
      /\ m.delivered = k.delivered /\ m.held = k.held
      /\ Narrows(m.obj.wait_queue, k.obj.wait_queue, k.cfg.tpri)
      /\ Narrows(m.obj.rwait_queue, k.obj.rwait_queue, FALSE)
      /\ \A t \in Task \ D : m.tcb[t].data = k.tcb[t].data
  BY <1>1 DEF Thins
<1>4. PICK w, v, p, q : /\ w = k.obj.wait_queue /\ v = k.obj.rwait_queue
                        /\ p = m.obj.wait_queue /\ q = m.obj.rwait_queue
  OBVIOUS
<1>5. /\ p \in Seq(Task) /\ Elements(p) \subseteq Elements(w)
      /\ q \in Seq(Task) /\ Elements(q) \subseteq Elements(v)
  BY <1>2, <1>3, <1>4 DEF Narrows
<1>6. /\ Elements(p) = {} <=> p = << >>
      /\ Elements(q) = {} <=> q = << >>
      /\ Elements(p) \subseteq Task
  BY <1>5, QueueFacts
<1>7. (w = << >> => p = << >>) /\ (v = << >> => q = << >>)
  BY <1>5, <1>6, EmptyQueue
<1>8. \A t \in Elements(p) : t \in Task /\ t \notin D
  BY <1>1, <1>4, <1>6
<1>9. \A t \in Elements(p) : m.tcb[t].data = k.tcb[t].data
  BY <1>3, <1>8
<1> QED BY <1>3, <1>4, <1>5, <1>7, <1>9 DEF LeftAs, NoWaiters, NoReceivers

LEMMA FineLeft ==
  ASSUME NEW k, Sound(k), Fine(k), NEW m, LeftAs(m, k)
  PROVE  Fine(m)
<1>1. /\ m.cfg = k.cfg /\ m.obj.store = k.obj.store /\ m.sent = k.sent /\ m.delivered = k.delivered
      /\ m.held = k.held
      /\ (NoWaiters(k) => NoWaiters(m)) /\ (NoReceivers(k) => NoReceivers(m))
      /\ \A t \in Elements(m.obj.wait_queue) : m.tcb[t].data = k.tcb[t].data
      /\ Elements(m.obj.wait_queue) \subseteq Elements(k.obj.wait_queue)
      /\ Narrows(m.obj.wait_queue, k.obj.wait_queue, k.cfg.tpri)
  BY DEF LeftAs
<1>2. CASE OfNone(k)
  BY <1>1, <1>2 DEF OfNone, Fine
<1>3. CASE OfSem(k)
  <2>1. OfSem(m)
    BY <1>1, <1>3 DEF OfSem, Spent, NoWaiters
  <2> QED BY <2>1 DEF Fine
<1>4. CASE OfFlg(k)
  <2>1. OfFlg(m)
    BY <1>1, <1>4 DEF OfFlg, Unmet
  <2> QED BY <2>1 DEF Fine
<1>5. CASE OfDtq(k)
  <2>1. Buffered(m.cfg.limit, m.obj.wait_queue, m.obj.rwait_queue, m.obj.store)
    BY <1>1, <1>5 DEF OfDtq, Buffered, NoWaiters, NoReceivers
  <2>2. ASSUME m.cfg.fifo
        PROVE  Line(m.delivered, m.obj.store, Items(m.obj.wait_queue, m.tcb), m.sent)
    <3>1. PICK no : no = FALSE
      OBVIOUS
    <3>2. Narrows(m.obj.wait_queue, k.obj.wait_queue, FALSE)
      <4>1. k.cfg \in Configurations
        BY SoundShape DEF Shape
      <4>2. k.cfg.tpri \in BOOLEAN /\ ~k.cfg.tpri
        BY <1>1, <1>5, <2>2, <4>1, ConfigurationTable DEF OfDtq, Configured, HoldsAtFirst
      <4> QED BY <1>1, <4>2 DEF Narrows
    <3>3. PICK w, r, x, y, d, s, n : /\ w = k.obj.wait_queue /\ r = m.obj.wait_queue
                                     /\ x = k.tcb /\ y = m.tcb /\ d = k.delivered
                                     /\ s = k.obj.store /\ n = k.sent
      OBVIOUS
    <3>4. /\ w \in Seq(Task) /\ Distinct(w) /\ Narrows(r, w, FALSE)
          /\ \A t \in Elements(r) : y[t].data = x[t].data
      BY <1>1, <3>2, <3>3, SoundQueue
    <3>5. Line(d, s, Items(w, x), n)
      BY <1>1, <1>5, <2>2, <3>3 DEF OfDtq
    <3>6. Line(d, s, Items(r, y), n)
      BY <3>4, <3>5, LineThins
    <3> QED BY <1>1, <3>3, <3>6
  <2>3. OfDtq(m)
    BY <1>1, <1>5, <2>1, <2>2 DEF OfDtq
  <2> QED BY <2>3 DEF Fine
<1>6. CASE OfMbx(k)
  <2>1. OfMbx(m)
    BY <1>1, <1>6 DEF OfMbx, Idle, NoWaiters
  <2> QED BY <2>1 DEF Fine
<1>7. CASE OfMpf(k)
  <2>1. OfMpf(m)
    BY <1>1, <1>7 DEF OfMpf, Idle, NoWaiters
  <2> QED BY <2>1 DEF Fine
<1> QED BY <1>2, <1>3, <1>4, <1>5, <1>6, <1>7 DEF Fine

LEMMA FineSlims ==
  ASSUME NEW k, Sound(k), Fine(k), NEW m, Slims(m, k)
  PROVE  Fine(m)
BY SlimsLeaves, FineLeft

--------------------------------------------------------------------------------
(* What the services write. *)

\* Of the object's queues and store F is written, of its counts and histories G.
Sets(m, k, F, G) ==
  /\ Whole(m) /\ m.runtsk = k.runtsk /\ m.tcb = k.tcb /\ m.cfg = k.cfg
  /\ \A f \in Queued \ F : m.obj[f] = k.obj[f]
  /\ \A f \in {"sent", "delivered", "held"} \ G : m[f] = k[f]

\* The same, and data of tasks in D is written: what is left when tasks change their states.
Gives(m, k, F, G, D) ==
  /\ Whole(m) /\ m.cfg = k.cfg
  /\ \A f \in Queued \ F : m.obj[f] = k.obj[f]
  /\ \A f \in {"sent", "delivered", "held"} \ G : m[f] = k[f]
  /\ \A t \in Task \ D : m.tcb[t].data = k.tcb[t].data

LEMMA SetsGive ==
  ASSUME NEW k, NEW m, NEW F, NEW G, Sets(m, k, F, G)
  PROVE  Gives(m, k, F, G, {})
BY DEF Sets, Gives

LEMMA SetsSets ==
  ASSUME NEW k, NEW m, NEW F, NEW G, Sets(m, k, F, G), NEW n, NEW A, NEW B, Sets(n, m, A, B)
  PROVE  Sets(n, k, F \cup A, G \cup B)
BY DEF Sets

LEMMA GivesGives ==
  ASSUME NEW k, NEW m, NEW F, NEW G, NEW D, Gives(m, k, F, G, D),
         NEW n, NEW A, NEW B, NEW E, Gives(n, m, A, B, E)
  PROVE  Gives(n, k, F \cup A, G \cup B, D \cup E)
BY DEF Gives

LEMMA SparesGive ==
  ASSUME NEW k, NEW m, Spares(m, k)
  PROVE  Gives(m, k, {}, {}, {})
BY DEF Spares, Gives

\* One field.
QueuedSet(m, k, f, e) ==
  /\ m = [g \in Fields |-> m[g]] /\ Same(m, k, {"obj"})
  /\ m.obj = [g \in Queued |-> m.obj[g]] /\ m.obj[f] = e
  /\ \A g \in Queued \ {f} : m.obj[g] = k.obj[g]

LEMMA QueuedSets ==
  ASSUME NEW k, Whole(k), NEW f, NEW e, NEW m, QueuedSet(m, k, f, e)
  PROVE  Sets(m, k, {f}, {}) /\ m.obj[f] = e
<1>1. /\ m.runtsk = k.runtsk /\ m.tcb = k.tcb /\ m.cfg = k.cfg /\ m.sent = k.sent
      /\ m.delivered = k.delivered /\ m.held = k.held
  BY DEF QueuedSet, Same, Fields
<1>2. Whole(m)
  BY <1>1 DEF QueuedSet, Whole
<1>3. \A g \in {"sent", "delivered", "held"} \ {} : m[g] = k[g]
  BY <1>1
<1> QED BY <1>1, <1>2, <1>3 DEF QueuedSet, Sets

StoreIs(m, k, e)     == m = [k EXCEPT !.obj.store = e]
WaitsAre(m, k, e)    == m = [k EXCEPT !.obj.wait_queue = e]
ReceivesAre(m, k, e) == m = [k EXCEPT !.obj.rwait_queue = e]

LEMMA StoreSets ==
  ASSUME NEW k, Whole(k), NEW e, NEW m, StoreIs(m, k, e)
  PROVE  Sets(m, k, {"store"}, {}) /\ m.obj.store = e
<1>1. m = [g \in Fields |-> m[g]] /\ Same(m, k, {"obj"})
  BY DEF StoreIs, Whole, Fields, Same
<1>2. m.obj = [k.obj EXCEPT !.store = e]
  BY DEF StoreIs, Whole, Fields
<1>3. /\ m.obj = [g \in Queued |-> m.obj[g]] /\ m.obj["store"] = e
      /\ \A g \in Queued \ {"store"} : m.obj[g] = k.obj[g]
  BY <1>2 DEF Whole, Queued
<1>4. QueuedSet(m, k, "store", e)
  BY <1>1, <1>3 DEF QueuedSet
<1> QED BY <1>4, QueuedSets

LEMMA WaitsSet ==
  ASSUME NEW k, Whole(k), NEW e, NEW m, WaitsAre(m, k, e)
  PROVE  Sets(m, k, {"wait_queue"}, {}) /\ m.obj.wait_queue = e
<1>1. m = [g \in Fields |-> m[g]] /\ Same(m, k, {"obj"})
  BY DEF WaitsAre, Whole, Fields, Same
<1>2. m.obj = [k.obj EXCEPT !.wait_queue = e]
  BY DEF WaitsAre, Whole, Fields
<1>3. /\ m.obj = [g \in Queued |-> m.obj[g]] /\ m.obj["wait_queue"] = e
      /\ \A g \in Queued \ {"wait_queue"} : m.obj[g] = k.obj[g]
  BY <1>2 DEF Whole, Queued
<1>4. QueuedSet(m, k, "wait_queue", e)
  BY <1>1, <1>3 DEF QueuedSet
<1> QED BY <1>4, QueuedSets

LEMMA ReceivesSet ==
  ASSUME NEW k, Whole(k), NEW e, NEW m, ReceivesAre(m, k, e)
  PROVE  Sets(m, k, {"rwait_queue"}, {}) /\ m.obj.rwait_queue = e
<1>1. m = [g \in Fields |-> m[g]] /\ Same(m, k, {"obj"})
  BY DEF ReceivesAre, Whole, Fields, Same
<1>2. m.obj = [k.obj EXCEPT !.rwait_queue = e]
  BY DEF ReceivesAre, Whole, Fields
<1>3. /\ m.obj = [g \in Queued |-> m.obj[g]] /\ m.obj["rwait_queue"] = e
      /\ \A g \in Queued \ {"rwait_queue"} : m.obj[g] = k.obj[g]
  BY <1>2 DEF Whole, Queued
<1>4. QueuedSet(m, k, "rwait_queue", e)
  BY <1>1, <1>3 DEF QueuedSet
<1> QED BY <1>4, QueuedSets

CountSet(m, k, f, e) ==
  m = [g \in Fields |-> m[g]] /\ Same(m, k, {f}) /\ m[f] = e

LEMMA CountSets ==
  ASSUME NEW k, Whole(k), NEW f \in {"sent", "delivered", "held"}, NEW e,
         NEW m, CountSet(m, k, f, e)
  PROVE  Sets(m, k, {}, {f}) /\ m[f] = e
<1>1. m.runtsk = k.runtsk /\ m.tcb = k.tcb /\ m.cfg = k.cfg /\ m.obj = k.obj
  BY DEF CountSet, Same, Fields
<1>2. Whole(m)
  BY <1>1 DEF CountSet, Whole
<1>3. \A g \in {"sent", "delivered", "held"} \ {f} : m[g] = k[g]
  BY DEF CountSet, Same, Fields
<1> QED BY <1>1, <1>2, <1>3 DEF CountSet, Sets

SentIs(m, k, e)      == m = [k EXCEPT !.sent = e]
DeliveredIs(m, k, e) == m = [k EXCEPT !.delivered = e]
HeldIs(m, k, e)      == m = [k EXCEPT !.held = e]

LEMMA SentSets ==
  ASSUME NEW k, Whole(k), NEW e, NEW m, SentIs(m, k, e)
  PROVE  Sets(m, k, {}, {"sent"}) /\ m.sent = e
<1>1. CountSet(m, k, "sent", e)
  BY DEF SentIs, CountSet, Whole, Fields, Same
<1> QED BY <1>1, CountSets

LEMMA DeliveredSets ==
  ASSUME NEW k, Whole(k), NEW e, NEW m, DeliveredIs(m, k, e)
  PROVE  Sets(m, k, {}, {"delivered"}) /\ m.delivered = e
<1>1. CountSet(m, k, "delivered", e)
  BY DEF DeliveredIs, CountSet, Whole, Fields, Same
<1> QED BY <1>1, CountSets

LEMMA HeldSets ==
  ASSUME NEW k, Whole(k), NEW e, NEW m, HeldIs(m, k, e)
  PROVE  Sets(m, k, {}, {"held"}) /\ m.held = e
<1>1. CountSet(m, k, "held", e)
  BY DEF HeldIs, CountSet, Whole, Fields, Same
<1> QED BY <1>1, CountSets

\* The first task of the wait queue leaves it.
Wakens(m, k) == Gives(m, k, {"wait_queue"}, {}, {}) /\ m.obj.wait_queue = Tail(k.obj.wait_queue)

LEMMA WakeGives ==
  ASSUME NEW k, Whole(k), FirstWaiting(k) \in Task, NEW m, m = WakeFirst(k)
  PROVE  Wakens(m, k)
<1>1. PICK t \in Task : t = FirstWaiting(k)
  OBVIOUS
<1>2. PICK q, a : q = Tail(k.obj.wait_queue) /\ a = [k EXCEPT !.obj.wait_queue = q]
  OBVIOUS
<1>3. WaitsAre(a, k, q)
  BY <1>2 DEF WaitsAre
<1>4. Sets(a, k, {"wait_queue"}, {}) /\ a.obj.wait_queue = q
  BY <1>3, WaitsSet
<1>5. m = wait_complete(a, t)
  BY <1>1, <1>2 DEF WakeFirst
<1>6. Whole(a)
  BY <1>4 DEF Sets
<1>7. Spares(m, a)
  BY <1>5, <1>6, CompleteSpares
<1>8. m.obj = a.obj
  BY <1>7 DEF Spares
<1>9. Gives(m, k, {"wait_queue"}, {}, {})
  BY <1>4, <1>7 DEF Sets, Spares, Gives
<1> QED BY <1>2, <1>4, <1>8, <1>9 DEF Wakens

\* The task that runs waits for the object.
Joins(m, k, t, data) ==
  /\ Gives(m, k, {"wait_queue"}, {}, {t}) /\ m.tcb[t].data = data
  /\ t \notin Elements(k.obj.wait_queue)
  /\ NoWaiters(k) => Elements(m.obj.wait_queue) = {t}
  /\ k.cfg.tpri \/ m.obj.wait_queue = Append(k.obj.wait_queue, t)

LEMMA BeginsGive ==
  ASSUME NEW k, NEW t, NEW data, NEW m, Begins(m, k, t, data)
  PROVE  Gives(m, k, {}, {}, {t}) /\ m.obj = k.obj /\ m.tcb[t].data = data
BY DEF Begins, Thins, Gives

Vacant(q) == q = << >>

LEMMA FirstInQueue ==
  ASSUME NEW t \in Task, NEW q, Vacant(q), NEW r,
         \/ r = Append(q, t)
         \/ \E k : r = queue_insert_tpri(k, t, q)
  PROVE  Elements(r) = {t}
<1>1. CASE r = Append(q, t)
  <2>1. Len(r) = 1 /\ r[1] = t
    BY <1>1 DEF Vacant
  <2> QED BY <2>1 DEF Elements
<1>2. CASE \E k : r = queue_insert_tpri(k, t, q)
  <2>1. PICK k : r = queue_insert_tpri(k, t, q)
    BY <1>2
  <2>2. PICK key : key = [u \in Task |-> 0]
    OBVIOUS
  <2>3. key \in [Task -> Int]
    BY <2>2
  <2>4. DOMAIN q = {}
    BY DEF Vacant
  <2>5. Behind(r, q, t, key)
    <3>1. {i \in DOMAIN q : k.tcb[q[i]].priority <= k.tcb[t].priority} =
            {i \in DOMAIN q : key[q[i]] <= key[t]}
      BY <2>4
    <3> QED BY <2>1, <3>1 DEF queue_insert_tpri, Behind
  <2>6. q \in Seq(Task) /\ Distinct(q) /\ t \notin Elements(q)
    BY DEF Vacant, Distinct, Elements
  <2>7. Elements(r) = Elements(q) \cup {t}
    BY <2>3, <2>5, <2>6, InsertedBehind
  <2>8. Elements(q) = {}
    BY DEF Vacant, Elements
  <2> QED BY <2>7, <2>8
<1> QED BY <1>1, <1>2

LEMMA WaitJoins ==
  ASSUME NEW k, Sound(k), NEW t, Caller(k, t), NEW data, NEW tmout,
         NEW m, m = wobj_make_wait_tmout(k, data, tmout)
  PROVE  Joins(m, k, t, data)
<1>1. Whole(k) /\ t \in Task /\ t = k.runtsk /\ t \notin Elements(k.obj.wait_queue)
  BY SoundWhole, RunningElsewhere DEF Caller
<1>2. PICK a : a = make_wait_tmout(k, {"WAIT_WOBJ", "WAIT_WOBJCB"}, data, tmout)
  OBVIOUS
<1>3. Begins(a, k, t, data)
  BY <1>1, <1>2, TmoutBegins
<1>4. Gives(a, k, {}, {}, {t}) /\ a.obj = k.obj /\ a.tcb[t].data = data
  BY <1>3, BeginsGive
<1>5. Whole(a) /\ a.cfg = k.cfg
  BY <1>4 DEF Gives
<1>6. PICK q : q = IF k.cfg.tpri THEN queue_insert_tpri(a, t, k.obj.wait_queue)
                   ELSE Append(k.obj.wait_queue, t)
  OBVIOUS
<1>7. WaitsAre(m, a, q)
  BY <1>1, <1>2, <1>4, <1>5, <1>6 DEF wobj_make_wait_tmout, wobj_queue_insert, WaitsAre
<1>8. Sets(m, a, {"wait_queue"}, {}) /\ m.obj.wait_queue = q
  BY <1>5, <1>7, WaitsSet
<1>9. m.tcb = a.tcb
  BY <1>8 DEF Sets
<1>10. Gives(m, k, {"wait_queue"}, {}, {t})
  BY <1>4, <1>8 DEF Sets, Gives
<1>11. ASSUME NoWaiters(k) PROVE Elements(q) = {t}
  <2>1. PICK w : w = k.obj.wait_queue /\ Vacant(w)
    BY <1>11 DEF NoWaiters, Vacant
  <2>2. q = Append(w, t) \/ q = queue_insert_tpri(a, t, w)
    BY <1>6, <2>1
  <2> QED BY <1>1, <2>1, <2>2, FirstInQueue
<1>12. k.cfg.tpri \/ q = Append(k.obj.wait_queue, t)
  BY <1>6
<1> QED BY <1>1, <1>4, <1>8, <1>9, <1>10, <1>11, <1>12 DEF Joins

\* The first of the tasks that wait.
LEMMA FirstFacts ==
  ASSUME NEW k, Sound(k)
  PROVE  /\ ~NoWaiters(k) => /\ FirstWaiting(k) \in Task
                              /\ FirstWaiting(k) \in Elements(k.obj.wait_queue)
         /\ ~NoReceivers(k) => FirstReceiving(k) \in Task
<1>1. PICK w, v : w = k.obj.wait_queue /\ v = k.obj.rwait_queue
  OBVIOUS
<1>2. w \in Seq(Task) /\ v \in Seq(Task)
  BY <1>1, SoundQueue
<1>3. w # << >> => Head(w) \in Elements(w) /\ Elements(w) \subseteq Task
  BY <1>2, QueueFacts
<1>4. v # << >> => Head(v) \in Elements(v) /\ Elements(v) \subseteq Task
  BY <1>2, QueueFacts
<1> QED BY <1>1, <1>3, <1>4 DEF NoWaiters, NoReceivers, FirstWaiting, FirstReceiving

LEMMA GivesFields ==
  ASSUME NEW k, NEW m, NEW F, NEW G, NEW D, Gives(m, k, F, G, D)
  PROVE  /\ "store" \notin F => m.obj.store = k.obj.store
         /\ "wait_queue" \notin F => m.obj.wait_queue = k.obj.wait_queue
         /\ "rwait_queue" \notin F => m.obj.rwait_queue = k.obj.rwait_queue
         /\ "sent" \notin G => m.sent = k.sent
         /\ "delivered" \notin G => m.delivered = k.delivered
         /\ "held" \notin G => m.held = k.held
         /\ m.cfg = k.cfg /\ Whole(m)
BY DEF Gives, Queued

LEMMA SetsFields ==
  ASSUME NEW k, NEW m, NEW F, NEW G, Sets(m, k, F, G)
  PROVE  /\ "store" \notin F => m.obj.store = k.obj.store
         /\ "wait_queue" \notin F => m.obj.wait_queue = k.obj.wait_queue
         /\ "rwait_queue" \notin F => m.obj.rwait_queue = k.obj.rwait_queue
         /\ "sent" \notin G => m.sent = k.sent
         /\ "delivered" \notin G => m.delivered = k.delivered
         /\ "held" \notin G => m.held = k.held
         /\ m.cfg = k.cfg /\ m.tcb = k.tcb /\ m.runtsk = k.runtsk /\ Whole(m)
BY DEF Sets, Queued

\* What a task that comes to wait, and one that is woken, leave as they are.
LEMMA JoinsFields ==
  ASSUME NEW k, NEW t, NEW data, NEW m, Joins(m, k, t, data)
  PROVE  /\ m.obj.store = k.obj.store /\ m.obj.rwait_queue = k.obj.rwait_queue
         /\ m.sent = k.sent /\ m.delivered = k.delivered /\ m.held = k.held
         /\ m.cfg = k.cfg /\ m.tcb[t].data = data
<1>1. Gives(m, k, {"wait_queue"}, {}, {t}) /\ m.tcb[t].data = data
  BY DEF Joins
<1> QED BY <1>1, GivesFields

LEMMA WakensFields ==
  ASSUME NEW k, NEW m, Wakens(m, k)
  PROVE  /\ m.obj.store = k.obj.store /\ m.obj.rwait_queue = k.obj.rwait_queue
         /\ m.sent = k.sent /\ m.delivered = k.delivered /\ m.held = k.held
         /\ m.cfg = k.cfg /\ m.obj.wait_queue = Tail(k.obj.wait_queue)
         /\ \A t \in Task : m.tcb[t].data = k.tcb[t].data
<1>1. Gives(m, k, {"wait_queue"}, {}, {}) /\ m.obj.wait_queue = Tail(k.obj.wait_queue)
  BY DEF Wakens
<1>2. \A t \in Task : m.tcb[t].data = k.tcb[t].data
  BY <1>1 DEF Gives
<1> QED BY <1>1, <1>2, GivesFields

--------------------------------------------------------------------------------
(* semaphore.c *)

LEMMA SigSemFine ==
  ASSUME NEW k, Sound(k), OfSem(k), NEW m, m = sig_sem(k)
  PROVE  OfSem(m)
<1>1. Whole(k)
  BY SoundWhole
<1>2. /\ k.cfg.object = "sem" /\ NoReceivers(k) /\ k.obj.store \in Nat
      /\ ~NoWaiters(k) => k.obj.store = 0
  BY DEF OfSem, Spent, NoWaiters
<1>3. CASE NoWaiters(k)
  <2>1. PICK s : s = k.obj.store + 1
    OBVIOUS
  <2>2. StoreIs(m, k, s)
    BY <1>3, <2>1 DEF sig_sem, StoreIs
  <2>3. Sets(m, k, {"store"}, {}) /\ m.obj.store = s
    BY <1>1, <2>2, StoreSets
  <2>4. /\ m.obj.wait_queue = k.obj.wait_queue /\ m.obj.rwait_queue = k.obj.rwait_queue
        /\ m.cfg = k.cfg
    BY <2>3, SetsFields
  <2>5. s \in Nat
    BY <1>2, <2>1
  <2> QED BY <1>2, <1>3, <2>3, <2>4, <2>5 DEF OfSem, Spent, NoWaiters, NoReceivers
<1>4. CASE ~NoWaiters(k)
  <2>1. m = WakeFirst(k)
    BY <1>4 DEF sig_sem
  <2>2. FirstWaiting(k) \in Task
    BY <1>4, FirstFacts
  <2>3. Wakens(m, k)
    BY <1>1, <2>1, <2>2, WakeGives
  <2>4. /\ m.obj.store = k.obj.store /\ m.obj.rwait_queue = k.obj.rwait_queue
        /\ m.cfg = k.cfg
    BY <2>3, WakensFields
  <2> QED BY <1>2, <1>4, <2>4 DEF OfSem, Spent, NoReceivers
<1> QED BY <1>3, <1>4

LEMMA TwaiSemFine ==
  ASSUME NEW k, Sound(k), OfSem(k), Caller(k, k.runtsk), NEW tmout, NEW m, m = twai_sem(k, tmout)
  PROVE  OfSem(m)
<1>1. Whole(k)
  BY SoundWhole
<1>2. /\ k.cfg.object = "sem" /\ NoReceivers(k) /\ k.obj.store \in Nat
      /\ ~NoWaiters(k) => k.obj.store = 0
  BY DEF OfSem, Spent, NoWaiters
<1>3. CASE k.obj.store >= 1
  <2>1. PICK s : s = k.obj.store - 1
    OBVIOUS
  <2>2. StoreIs(m, k, s)
    BY <1>3, <2>1 DEF twai_sem, StoreIs
  <2>3. Sets(m, k, {"store"}, {}) /\ m.obj.store = s
    BY <1>1, <2>2, StoreSets
  <2>4. /\ m.obj.wait_queue = k.obj.wait_queue /\ m.obj.rwait_queue = k.obj.rwait_queue
        /\ m.cfg = k.cfg
    BY <2>3, SetsFields
  <2>5. s \in Nat /\ NoWaiters(k)
    BY <1>2, <1>3, <2>1
  <2> QED BY <1>2, <2>3, <2>4, <2>5 DEF OfSem, Spent, NoWaiters, NoReceivers
<1>4. CASE ~(k.obj.store >= 1)
  <2>1. m = wobj_make_wait_tmout(k, NoData, tmout)
    BY <1>4 DEF twai_sem
  <2>2. PICK t, data : t = k.runtsk /\ data = NoData
    OBVIOUS
  <2>3. Caller(k, t) /\ m = wobj_make_wait_tmout(k, data, tmout)
    BY <2>1, <2>2
  <2>4. Joins(m, k, t, data)
    BY <2>3, WaitJoins
  <2>5. /\ m.obj.store = k.obj.store /\ m.obj.rwait_queue = k.obj.rwait_queue
        /\ m.cfg = k.cfg
    BY <2>4, JoinsFields
  <2>6. k.obj.store = 0
    BY <1>2, <1>4
  <2> QED BY <1>2, <2>5, <2>6 DEF OfSem, Spent, NoReceivers
<1> QED BY <1>3, <1>4

--------------------------------------------------------------------------------
(* eventflag.c *)

LEMMA OnlyOne ==
  ASSUME NEW w \in Seq(Task), Distinct(w), \A t, u \in Elements(w) : t = u, w # << >>
  PROVE  Tail(w) = << >> /\ Elements(Tail(w)) = {}
<1>1. Len(w) = 1
  <2>1. Len(w) \in Nat /\ Len(w) # 0
    OBVIOUS
  <2>2. ASSUME Len(w) > 1 PROVE FALSE
    <3>1. 1 \in 1 .. Len(w) /\ 2 \in 1 .. Len(w)
      BY <2>1, <2>2
    <3>2. w[1] \in Elements(w) /\ w[2] \in Elements(w)
      BY <3>1 DEF Elements
    <3>3. w[1] = w[2]
      BY <3>2
    <3> QED BY <3>1, <3>3 DEF Distinct
  <2>3. PICK n : n = Len(w)
    OBVIOUS
  <2>4. n \in Nat /\ n # 0 /\ ~(n > 1)
    BY <2>1, <2>2, <2>3
  <2>5. n = 1
    BY <2>4
  <2> QED BY <2>3, <2>5
<1>2. PICK r : r = Tail(w)
  OBVIOUS
<1>3. r \in Seq(Task) /\ Len(r) = 0
  BY <1>1, <1>2
<1>4. r = << >> /\ Elements(r) = {}
  BY <1>3 DEF Elements
<1> QED BY <1>2, <1>4

LEMMA TakesPattern ==
  ASSUME NEW k, Whole(k), NEW m, m = TakePattern(k)
  PROVE  Sets(m, k, {"store"}, {})
<1>1. CASE k.cfg.clr
  <2>1. PICK s : s = {}
    OBVIOUS
  <2>2. StoreIs(m, k, s)
    BY <1>1, <2>1 DEF TakePattern, StoreIs
  <2> QED BY <1>1, <2>2, StoreSets
<1>2. CASE ~k.cfg.clr
  BY <1>2 DEF TakePattern, Sets
<1> QED BY <1>1, <1>2

LEMMA MetCondition ==
  ASSUME NEW k, NEW want
  PROVE  eventflag_cond(k, want[1], want[2]) <=> Met(k.obj.store, want)
BY DEF eventflag_cond, Met

LEMMA SetFlgFine ==
  ASSUME NEW k, Sound(k), OfFlg(k), NEW ptn, NEW m, m = set_flg(k, ptn)
  PROVE  OfFlg(m)
<1>1. Whole(k)
  BY SoundWhole
<1>2. /\ k.cfg.object = "flg" /\ NoReceivers(k)
      /\ \A t, u \in Elements(k.obj.wait_queue) : t = u
  BY DEF OfFlg, Unmet
<1>3. PICK s, a : s = k.obj.store \cup ptn /\ a = [k EXCEPT !.obj.store = s]
  OBVIOUS
<1>4. StoreIs(a, k, s)
  BY <1>3 DEF StoreIs
<1>5. Sets(a, k, {"store"}, {}) /\ a.obj.store = s
  BY <1>1, <1>4, StoreSets
<1>6. /\ a.obj.wait_queue = k.obj.wait_queue /\ a.obj.rwait_queue = k.obj.rwait_queue
      /\ a.cfg = k.cfg /\ a.tcb = k.tcb /\ Whole(a)
  BY <1>5, SetsFields
<1>7. FirstWaiting(a) = FirstWaiting(k) /\ (NoWaiters(a) <=> NoWaiters(k))
  BY <1>6 DEF FirstWaiting, NoWaiters
<1>8. PICK want : want = a.tcb[FirstWaiting(k)].data
  OBVIOUS
<1>9. m = IF ~NoWaiters(k) /\ eventflag_cond(a, want[1], want[2])
          THEN WakeFirst(TakePattern(a)) ELSE a
  BY <1>3, <1>8 DEF set_flg
<1>10. CASE ~NoWaiters(k) /\ eventflag_cond(a, want[1], want[2])
  <2>1. PICK b : b = TakePattern(a)
    OBVIOUS
  <2>2. Sets(b, a, {"store"}, {})
    BY <1>6, <2>1, TakesPattern
  <2>3. /\ b.obj.wait_queue = a.obj.wait_queue /\ b.obj.rwait_queue = a.obj.rwait_queue
        /\ b.cfg = a.cfg /\ Whole(b)
    BY <2>2, SetsFields
  <2>4. FirstWaiting(b) \in Task
    <3>1. FirstWaiting(k) \in Task
      BY <1>10, FirstFacts
    <3> QED BY <1>6, <2>3, <3>1 DEF FirstWaiting
  <2>5. m = WakeFirst(b)
    BY <1>9, <1>10, <2>1
  <2>6. Wakens(m, b)
    BY <2>3, <2>4, <2>5, WakeGives
  <2>7. /\ m.obj.rwait_queue = b.obj.rwait_queue /\ m.cfg = b.cfg
        /\ m.obj.wait_queue = Tail(b.obj.wait_queue)
    BY <2>6, WakensFields
  <2>8. PICK w : w = k.obj.wait_queue
    OBVIOUS
  <2>9. w \in Seq(Task) /\ Distinct(w) /\ w # << >> /\ \A t, u \in Elements(w) : t = u
    BY <1>2, <1>10, <2>8, SoundQueue DEF NoWaiters
  <2>10. Elements(Tail(w)) = {}
    BY <2>9, OnlyOne
  <2>11. Elements(m.obj.wait_queue) = {}
    BY <1>6, <2>3, <2>7, <2>8, <2>10
  <2>12. Unmet(m.obj.wait_queue, m.obj.store, m.tcb)
    BY <2>11 DEF Unmet
  <2> QED BY <1>2, <1>6, <2>3, <2>7, <2>12 DEF OfFlg, NoReceivers
<1>11. CASE ~(~NoWaiters(k) /\ eventflag_cond(a, want[1], want[2]))
  <2>1. m = a
    BY <1>9, <1>11
  <2>2. ASSUME NEW t \in Elements(a.obj.wait_queue) PROVE ~Met(a.obj.store, a.tcb[t].data)
    <3>1. ~NoWaiters(k)
      BY <1>6, <2>2, EmptyQueue DEF NoWaiters
    <3>2. FirstWaiting(k) \in Elements(k.obj.wait_queue)
      BY <3>1, FirstFacts
    <3>3. t = FirstWaiting(k)
      BY <1>2, <1>6, <3>2
    <3>4. ~eventflag_cond(a, want[1], want[2])
      BY <1>11, <3>1
    <3>5. ~Met(a.obj.store, want)
      BY <3>4, MetCondition
    <3> QED BY <1>8, <3>3, <3>5
  <2>3. Unmet(a.obj.wait_queue, a.obj.store, a.tcb)
    BY <1>2, <1>6, <2>2 DEF Unmet
  <2>4. OfFlg(a)
    BY <1>2, <1>6, <2>3 DEF OfFlg, NoReceivers
  <2> QED BY <2>1, <2>4
<1> QED BY <1>10, <1>11

LEMMA ClrFlgFine ==
  ASSUME NEW k, Sound(k), OfFlg(k), NEW ptn, NEW m, m = clr_flg(k, ptn)
  PROVE  OfFlg(m)
<1>1. Whole(k)
  BY SoundWhole
<1>2. k.cfg.object = "flg" /\ NoReceivers(k) /\ Unmet(k.obj.wait_queue, k.obj.store, k.tcb)
  BY DEF OfFlg
<1>3. PICK s : s = k.obj.store \cap ptn
  OBVIOUS
<1>4. StoreIs(m, k, s)
  BY <1>3 DEF clr_flg, StoreIs
<1>5. Sets(m, k, {"store"}, {}) /\ m.obj.store = s
  BY <1>1, <1>4, StoreSets
<1>6. /\ m.obj.wait_queue = k.obj.wait_queue /\ m.obj.rwait_queue = k.obj.rwait_queue
      /\ m.cfg = k.cfg /\ m.tcb = k.tcb
  BY <1>5, SetsFields
<1>7. \A want : Met(s, want) => Met(k.obj.store, want)
  BY <1>3 DEF Met
<1>8. Unmet(m.obj.wait_queue, m.obj.store, m.tcb)
  BY <1>2, <1>5, <1>6, <1>7 DEF Unmet
<1> QED BY <1>2, <1>6, <1>8 DEF OfFlg, NoReceivers

LEMMA TwaiFlgFine ==
  ASSUME NEW k, Sound(k), OfFlg(k), NoWaiters(k), Caller(k, k.runtsk), NEW ptn, NEW mode, NEW tmout,
         NEW m, m = twai_flg(k, ptn, mode, tmout)
  PROVE  OfFlg(m)
<1>1. Whole(k)
  BY SoundWhole
<1>2. k.cfg.object = "flg" /\ NoReceivers(k)
  BY DEF OfFlg
<1>3. CASE eventflag_cond(k, ptn, mode)
  <2>1. m = TakePattern(k)
    BY <1>3 DEF twai_flg
  <2>2. Sets(m, k, {"store"}, {})
    BY <1>1, <2>1, TakesPattern
  <2>3. /\ m.obj.wait_queue = k.obj.wait_queue /\ m.obj.rwait_queue = k.obj.rwait_queue
        /\ m.cfg = k.cfg
    BY <2>2, SetsFields
  <2>4. Elements(m.obj.wait_queue) = {}
    BY <2>3, EmptyQueue DEF NoWaiters
  <2>5. Unmet(m.obj.wait_queue, m.obj.store, m.tcb)
    BY <2>4 DEF Unmet
  <2> QED BY <1>2, <2>3, <2>5 DEF OfFlg, NoReceivers
<1>4. CASE ~eventflag_cond(k, ptn, mode)
  <2>1. PICK t, data : t = k.runtsk /\ data = <<ptn, mode>>
    OBVIOUS
  <2>2. Caller(k, t) /\ m = wobj_make_wait_tmout(k, data, tmout)
    BY <1>4, <2>1 DEF twai_flg
  <2>3. Joins(m, k, t, data)
    BY <2>2, WaitJoins
  <2>4. /\ m.obj.store = k.obj.store /\ m.obj.rwait_queue = k.obj.rwait_queue
        /\ m.cfg = k.cfg /\ m.tcb[t].data = data
    BY <2>3, JoinsFields
  <2>5. Elements(m.obj.wait_queue) = {t}
    BY <2>3 DEF Joins
  <2>6. ~Met(k.obj.store, data)
    BY <1>4, <2>1 DEF eventflag_cond, Met
  <2>7. Unmet(m.obj.wait_queue, m.obj.store, m.tcb)
    BY <2>4, <2>5, <2>6 DEF Unmet
  <2> QED BY <1>2, <2>4, <2>7 DEF OfFlg, NoReceivers
<1> QED BY <1>3, <1>4

--------------------------------------------------------------------------------
(* mempfix.c *)

\* The first free block becomes the task's.
LEMMA OwnedTaken ==
  ASSUME NEW limit, NEW s, NEW h, Owned(limit, s, h), s # << >>, NEW t \in Task
  PROVE  Owned(limit, Tail(s), [h EXCEPT ![t] = h[t] \cup {Head(s)}])
<1>1. /\ s \in Seq(1 .. limit) /\ Distinct(s) /\ h = [u \in Task |-> h[u]]
      /\ \A u \in Task : h[u] \subseteq 1 .. limit /\ h[u] \cap Elements(s) = {}
      /\ \A u, v \in Task : u # v => h[u] \cap h[v] = {}
  BY DEF Owned
<1>2. PICK b, r, g : b = Head(s) /\ r = Tail(s) /\ g = [h EXCEPT ![t] = h[t] \cup {b}]
  OBVIOUS
<1>3. /\ b \in Elements(s) /\ b \in 1 .. limit /\ r \in Seq(1 .. limit) /\ Distinct(r)
      /\ Elements(r) = Elements(s) \ {b}
  BY <1>1, <1>2, TailSet
<1>4. g = [u \in Task |-> g[u]] /\ g[t] = h[t] \cup {b} /\ \A u \in Task \ {t} : g[u] = h[u]
  BY <1>1, <1>2
<1>5. \A u \in Task : b \notin h[u]
  BY <1>1, <1>3
<1>6. \A u \in Task : g[u] \subseteq 1 .. limit /\ g[u] \cap Elements(r) = {}
  <2>1. ASSUME NEW u \in Task PROVE g[u] \subseteq h[u] \cup {b}
    BY <1>4
  <2> QED BY <1>1, <1>3, <2>1
<1>7. \A u, v \in Task : u # v => g[u] \cap g[v] = {}
  BY <1>1, <1>4, <1>5
<1>8. Owned(limit, r, g)
  BY <1>1, <1>3, <1>4, <1>6, <1>7 DEF Owned
<1> QED BY <1>2, <1>8

\* A block of the task goes to the front of the free list, or to another task.
LEMMA OwnedGiven ==
  ASSUME NEW limit, NEW s, NEW h, Owned(limit, s, h), NEW t \in Task, NEW b \in h[t]
  PROVE  Owned(limit, <<b>> \o s, [h EXCEPT ![t] = h[t] \ {b}])
<1>1. /\ s \in Seq(1 .. limit) /\ Distinct(s) /\ h = [u \in Task |-> h[u]]
      /\ \A u \in Task : h[u] \subseteq 1 .. limit /\ h[u] \cap Elements(s) = {}
      /\ \A u, v \in Task : u # v => h[u] \cap h[v] = {}
  BY DEF Owned
<1>2. PICK r, g : r = <<b>> \o s /\ g = [h EXCEPT ![t] = h[t] \ {b}]
  OBVIOUS
<1>3. b \in 1 .. limit /\ b \notin Elements(s)
  BY <1>1
<1>4. r \in Seq(1 .. limit) /\ Distinct(r) /\ Elements(r) = {b} \cup Elements(s)
  <2>1. /\ r \in Seq(1 .. limit) /\ Len(r) = Len(s) + 1 /\ Len(s) \in Nat
        /\ \A i \in 1 .. Len(s) + 1 : r[i] = IF i = 1 THEN b ELSE s[i - 1]
    BY <1>1, <1>2, <1>3
  <2>2. \A i \in 1 .. Len(s) : s[i] \in Elements(s) /\ i + 1 \in 1 .. Len(s) + 1 /\ r[i + 1] = s[i]
    BY <2>1 DEF Elements
  <2>3. ASSUME NEW i \in 1 .. Len(s) + 1, i # 1
        PROVE  i - 1 \in 1 .. Len(s) /\ r[i] = s[i - 1] /\ r[i] \in Elements(s)
    BY <2>1, <2>2, <2>3
  <2>4. r[1] = b /\ 1 \in 1 .. Len(s) + 1
    BY <2>1
  <2>5. Elements(r) = {b} \cup Elements(s)
    <3>1. ASSUME NEW e \in Elements(r) PROVE e \in {b} \cup Elements(s)
      <4>1. PICK i \in 1 .. Len(s) + 1 : r[i] = e
        BY <2>1, <3>1 DEF Elements
      <4> QED BY <2>3, <2>4, <4>1
    <3>2. ASSUME NEW e \in Elements(s) PROVE e \in Elements(r)
      <4>1. PICK i \in 1 .. Len(s) : s[i] = e
        BY <3>2 DEF Elements
      <4> QED BY <2>1, <2>2, <4>1 DEF Elements
    <3>3. b \in Elements(r)
      BY <2>1, <2>4 DEF Elements
    <3> QED BY <3>1, <3>2, <3>3
  <2>6. ASSUME NEW i \in 1 .. Len(r), NEW j \in 1 .. Len(r), r[i] = r[j] PROVE i = j
    <3>1. i \in 1 .. Len(s) + 1 /\ j \in 1 .. Len(s) + 1
      BY <2>1
    <3>2. CASE i = 1 \/ j = 1
      BY <1>3, <2>3, <2>4, <2>6, <3>1, <3>2
    <3>3. CASE i # 1 /\ j # 1
      <4>1. PICK p, q : p = i - 1 /\ q = j - 1
        OBVIOUS
      <4>2. p \in 1 .. Len(s) /\ q \in 1 .. Len(s) /\ s[p] = s[q]
        BY <2>3, <2>6, <3>1, <3>3, <4>1
      <4>3. p = q
        BY <1>1, <4>2 DEF Distinct
      <4> QED BY <3>1, <4>1, <4>3
    <3> QED BY <3>2, <3>3
  <2> QED BY <2>1, <2>5, <2>6 DEF Distinct
<1>5. g = [u \in Task |-> g[u]] /\ g[t] = h[t] \ {b} /\ \A u \in Task \ {t} : g[u] = h[u]
  BY <1>1, <1>2
<1>6. \A u \in Task : g[u] \subseteq h[u] /\ b \notin g[u]
  BY <1>1, <1>5
<1>7. \A u \in Task : g[u] \subseteq 1 .. limit /\ g[u] \cap Elements(r) = {}
  BY <1>1, <1>4, <1>6
<1>8. \A u, v \in Task : u # v => g[u] \cap g[v] = {}
  BY <1>1, <1>6
<1>9. Owned(limit, r, g)
  BY <1>4, <1>5, <1>7, <1>8 DEF Owned
<1> QED BY <1>2, <1>9

LEMMA OwnedPassed ==
  ASSUME NEW limit, NEW s, NEW h, Owned(limit, s, h), NEW t \in Task, NEW b \in h[t],
         NEW u \in Task,
         NEW g, g = [h EXCEPT ![t] = h[t] \ {b}]
  PROVE  Owned(limit, s, [g EXCEPT ![u] = g[u] \cup {b}])
<1>1. /\ s \in Seq(1 .. limit) /\ Distinct(s) /\ h = [v \in Task |-> h[v]]
      /\ \A v \in Task : h[v] \subseteq 1 .. limit /\ h[v] \cap Elements(s) = {}
      /\ \A v, w \in Task : v # w => h[v] \cap h[w] = {}
  BY DEF Owned
<1>2. g = [v \in Task |-> g[v]] /\ g[t] = h[t] \ {b} /\ \A v \in Task \ {t} : g[v] = h[v]
  BY <1>1
<1>3. \A v \in Task : g[v] \subseteq h[v] /\ b \notin g[v]
  BY <1>1, <1>2
<1>4. PICK f : f = [g EXCEPT ![u] = g[u] \cup {b}]
  OBVIOUS
<1>5. f = [v \in Task |-> f[v]] /\ f[u] = g[u] \cup {b} /\ \A v \in Task \ {u} : f[v] = g[v]
  BY <1>2, <1>4
<1>6. b \in 1 .. limit /\ b \notin Elements(s)
  BY <1>1
<1>7. \A v \in Task : f[v] \subseteq h[v] \cup {b}
  BY <1>3, <1>5
<1>8. \A v \in Task : f[v] \subseteq 1 .. limit /\ f[v] \cap Elements(s) = {}
  BY <1>1, <1>6, <1>7
<1>9. \A v, w \in Task : v # w => g[v] \cap g[w] = {}
  BY <1>1, <1>3
<1>10. \A v, w \in Task : v # w => f[v] \cap f[w] = {}
  BY <1>3, <1>5, <1>9
<1>11. Owned(limit, s, f)
  BY <1>1, <1>5, <1>8, <1>10 DEF Owned
<1> QED BY <1>4, <1>11

LEMMA TgetMpfFine ==
  ASSUME NEW k, Sound(k), OfMpf(k), Caller(k, k.runtsk), NEW tmout, NEW m, m = tget_mpf(k, tmout)
  PROVE  OfMpf(m)
<1>1. Whole(k) /\ k.runtsk \in Task
  BY SoundWhole DEF Caller
<1>2. PICK s, h, l, t : s = k.obj.store /\ h = k.held /\ l = k.cfg.limit /\ t = k.runtsk
  OBVIOUS
<1>3. /\ k.cfg.object = "mpf" /\ NoReceivers(k) /\ Owned(l, s, h) /\ t \in Task
      /\ ~NoWaiters(k) => s = << >>
  BY <1>1, <1>2 DEF OfMpf, Idle, NoWaiters
<1>4. CASE s # << >>
  <2>1. PICK r, a : r = Tail(s) /\ a = [k EXCEPT !.obj.store = r]
    OBVIOUS
  <2>2. StoreIs(a, k, r)
    BY <2>1 DEF StoreIs
  <2>3. Sets(a, k, {"store"}, {}) /\ a.obj.store = r
    BY <1>1, <2>2, StoreSets
  <2>4. /\ a.obj.wait_queue = k.obj.wait_queue /\ a.obj.rwait_queue = k.obj.rwait_queue
        /\ a.held = k.held /\ a.cfg = k.cfg /\ Whole(a)
    BY <2>3, SetsFields
  <2>5. PICK g : g = [h EXCEPT ![t] = h[t] \cup {Head(s)}]
    OBVIOUS
  <2>6. HeldIs(m, a, g)
    <3>1. m = GiveBlock(a, t, Head(s))
      BY <1>2, <1>4, <2>1 DEF tget_mpf
    <3> QED BY <1>2, <2>4, <2>5, <3>1 DEF GiveBlock, HeldIs
  <2>7. Sets(m, a, {}, {"held"}) /\ m.held = g
    BY <2>4, <2>6, HeldSets
  <2>8. /\ m.obj.store = a.obj.store /\ m.obj.wait_queue = a.obj.wait_queue
        /\ m.obj.rwait_queue = a.obj.rwait_queue /\ m.cfg = a.cfg
    BY <2>7, SetsFields
  <2>9. Owned(l, r, g)
    BY <1>3, <1>4, <2>1, <2>5, OwnedTaken
  <2>10. NoWaiters(k)
    BY <1>3, <1>4
  <2> QED BY <1>2, <1>3, <2>3, <2>4, <2>7, <2>8, <2>9, <2>10 DEF OfMpf, Idle, NoWaiters, NoReceivers
<1>5. CASE s = << >>
  <2>1. m = wobj_make_wait_tmout(k, NoData, tmout)
    BY <1>2, <1>5 DEF tget_mpf
  <2>2. PICK data : data = NoData
    OBVIOUS
  <2>3. Joins(m, k, t, data)
    BY <1>2, <2>1, <2>2, WaitJoins
  <2>4. /\ m.obj.store = k.obj.store /\ m.obj.rwait_queue = k.obj.rwait_queue
        /\ m.cfg = k.cfg /\ m.held = k.held
    BY <2>3, JoinsFields
  <2> QED BY <1>2, <1>3, <1>5, <2>4 DEF OfMpf, Idle, NoReceivers
<1> QED BY <1>4, <1>5

LEMMA RelMpfFine ==
  ASSUME NEW k, Sound(k), OfMpf(k), NEW t \in Task, NEW blk \in k.held[t],
         NEW m, m = rel_mpf(k, t, blk)
  PROVE  OfMpf(m)
<1>1. Whole(k)
  BY SoundWhole
<1>2. PICK s, h, l : s = k.obj.store /\ h = k.held /\ l = k.cfg.limit
  OBVIOUS
<1>3. /\ k.cfg.object = "mpf" /\ NoReceivers(k) /\ Owned(l, s, h) /\ blk \in h[t]
      /\ ~NoWaiters(k) => s = << >>
  BY <1>2 DEF OfMpf, Idle, NoWaiters
<1>4. PICK g, a : g = [h EXCEPT ![t] = h[t] \ {blk}] /\ a = [k EXCEPT !.held = g]
  OBVIOUS
<1>5. HeldIs(a, k, g)
  BY <1>4 DEF HeldIs
<1>6. Sets(a, k, {}, {"held"}) /\ a.held = g
  BY <1>1, <1>5, HeldSets
<1>7. /\ a.obj.store = k.obj.store /\ a.obj.wait_queue = k.obj.wait_queue
      /\ a.obj.rwait_queue = k.obj.rwait_queue /\ a.cfg = k.cfg /\ Whole(a)
  BY <1>6, SetsFields
<1>8. a = [k EXCEPT !.held[t] = k.held[t] \ {blk}]
  BY <1>1, <1>2, <1>4
<1>9. m = IF NoWaiters(k) THEN [a EXCEPT !.obj.store = <<blk>> \o a.obj.store]
          ELSE WakeFirst(GiveBlock(a, FirstWaiting(k), blk))
  BY <1>8 DEF rel_mpf
<1>10. CASE NoWaiters(k)
  <2>1. PICK r : r = <<blk>> \o s
    OBVIOUS
  <2>2. StoreIs(m, a, r)
    BY <1>2, <1>7, <1>9, <1>10, <2>1 DEF StoreIs
  <2>3. Sets(m, a, {"store"}, {}) /\ m.obj.store = r
    BY <1>7, <2>2, StoreSets
  <2>4. /\ m.obj.wait_queue = a.obj.wait_queue /\ m.obj.rwait_queue = a.obj.rwait_queue
        /\ m.cfg = a.cfg /\ m.held = a.held
    BY <2>3, SetsFields
  <2>5. Owned(l, r, g)
    BY <1>3, <1>4, <2>1, OwnedGiven
  <2> QED BY <1>2, <1>3, <1>6, <1>7, <1>10, <2>3, <2>4, <2>5 DEF OfMpf, Idle, NoWaiters, NoReceivers
<1>11. CASE ~NoWaiters(k)
  <2>1. PICK u, f, b : /\ u = FirstWaiting(k) /\ f = [g EXCEPT ![u] = g[u] \cup {blk}]
                       /\ b = GiveBlock(a, u, blk)
    OBVIOUS
  <2>2. u \in Task
    BY <1>11, <2>1, FirstFacts
  <2>3. HeldIs(b, a, f)
    BY <1>6, <2>1 DEF HeldIs, GiveBlock
  <2>4. Sets(b, a, {}, {"held"}) /\ b.held = f
    BY <1>7, <2>3, HeldSets
  <2>5. /\ b.obj.store = a.obj.store /\ b.obj.wait_queue = a.obj.wait_queue
        /\ b.obj.rwait_queue = a.obj.rwait_queue /\ b.cfg = a.cfg /\ Whole(b)
    BY <2>4, SetsFields
  <2>6. FirstWaiting(b) \in Task
    BY <1>7, <2>1, <2>2, <2>5 DEF FirstWaiting
  <2>7. m = WakeFirst(b)
    BY <1>9, <1>11, <2>1
  <2>8. Wakens(m, b)
    BY <2>5, <2>6, <2>7, WakeGives
  <2>9. /\ m.obj.store = b.obj.store /\ m.obj.rwait_queue = b.obj.rwait_queue
        /\ m.held = b.held /\ m.cfg = b.cfg
    BY <2>8, WakensFields
  <2>10. Owned(l, s, f)
    BY <1>3, <1>4, <2>1, <2>2, OwnedPassed
  <2> QED BY <1>2, <1>3, <1>7, <1>11, <2>4, <2>5, <2>9, <2>10 DEF OfMpf, Idle, NoReceivers
<1> QED BY <1>10, <1>11

--------------------------------------------------------------------------------
(* mailbox.c *)

\* The next number is given out.
LEMMA Numbers ==
  ASSUME NEW k, Sound(k), NEW a, a = [k EXCEPT !.sent = k.sent + 1]
  PROVE  /\ Sound(a) /\ Whole(a) /\ Sets(a, k, {}, {"sent"}) /\ a.sent = k.sent + 1
         /\ a.obj.store = k.obj.store /\ a.obj.wait_queue = k.obj.wait_queue
         /\ a.obj.rwait_queue = k.obj.rwait_queue /\ a.delivered = k.delivered
         /\ a.cfg = k.cfg /\ a.tcb = k.tcb /\ a.runtsk = k.runtsk
<1>1. Sound(a)
  BY Counted
<1>2. PICK n : n = k.sent + 1
  OBVIOUS
<1>3. SentIs(a, k, n)
  BY <1>2 DEF SentIs
<1>4. Whole(k)
  BY SoundWhole
<1>5. Sets(a, k, {}, {"sent"}) /\ a.sent = n
  BY <1>3, <1>4, SentSets
<1>6. /\ a.obj.store = k.obj.store /\ a.obj.wait_queue = k.obj.wait_queue
      /\ a.obj.rwait_queue = k.obj.rwait_queue /\ a.delivered = k.delivered
      /\ a.cfg = k.cfg /\ a.tcb = k.tcb /\ a.runtsk = k.runtsk
  BY <1>5, SetsFields
<1> QED BY <1>1, <1>2, <1>4, <1>5, <1>6, SoundWhole

\* One arrives.
LEMMA Arrives ==
  ASSUME NEW k, Whole(k), NEW v, NEW a, a = Deliver(k, v)
  PROVE  /\ Whole(a) /\ Sets(a, k, {}, {"delivered"}) /\ a.delivered = Append(k.delivered, v)
         /\ a.obj.store = k.obj.store /\ a.obj.wait_queue = k.obj.wait_queue
         /\ a.obj.rwait_queue = k.obj.rwait_queue /\ a.sent = k.sent
         /\ a.cfg = k.cfg /\ a.tcb = k.tcb /\ a.runtsk = k.runtsk
<1>1. PICK d : d = Append(k.delivered, v)
  OBVIOUS
<1>2. DeliveredIs(a, k, d)
  BY <1>1 DEF Deliver, DeliveredIs
<1>3. Sets(a, k, {}, {"delivered"}) /\ a.delivered = d
  BY <1>2, DeliveredSets
<1>4. /\ a.obj.store = k.obj.store /\ a.obj.wait_queue = k.obj.wait_queue
      /\ a.obj.rwait_queue = k.obj.rwait_queue /\ a.sent = k.sent
      /\ a.cfg = k.cfg /\ a.tcb = k.tcb /\ a.runtsk = k.runtsk /\ Whole(a)
  BY <1>3, SetsFields
<1> QED BY <1>1, <1>3, <1>4

\* The store is written.
LEMMA Stores ==
  ASSUME NEW k, Whole(k), NEW s, NEW a, StoreIs(a, k, s)
  PROVE  /\ Whole(a) /\ a.obj.store = s /\ a.obj.wait_queue = k.obj.wait_queue
         /\ a.obj.rwait_queue = k.obj.rwait_queue /\ a.sent = k.sent /\ a.delivered = k.delivered
         /\ a.cfg = k.cfg /\ a.tcb = k.tcb /\ a.runtsk = k.runtsk
<1>1. Sets(a, k, {"store"}, {}) /\ a.obj.store = s
  BY StoreSets
<1>2. /\ a.obj.wait_queue = k.obj.wait_queue
      /\ a.obj.rwait_queue = k.obj.rwait_queue /\ a.sent = k.sent /\ a.delivered = k.delivered
      /\ a.cfg = k.cfg /\ a.tcb = k.tcb /\ a.runtsk = k.runtsk /\ Whole(a)
  BY <1>1, SetsFields
<1> QED BY <1>1, <1>2

LEMMA SndMbxFine ==
  ASSUME NEW k, Sound(k), OfMbx(k), NEW m, m = snd_mbx(k)
  PROVE  OfMbx(m)
<1>1. PICK s, d, n : s = k.obj.store /\ d = k.delivered /\ n = k.sent
  OBVIOUS
<1>2. /\ k.cfg.object = "mbx" /\ NoReceivers(k) /\ (~NoWaiters(k) => s = << >>)
      /\ k.cfg.fifo => Line(d, s, << >>, n)
  BY <1>1 DEF OfMbx, Idle, NoWaiters
<1>3. k.cfg.fifo => ~k.cfg.mpri
  <2>1. k.cfg \in Configurations
    BY SoundShape DEF Shape
  <2> QED BY <1>2, <2>1, ConfigurationTable DEF HoldsAtFirst
<1>4. PICK a, v : a = [k EXCEPT !.sent = k.sent + 1] /\ v = n + 1
  OBVIOUS
<1>5. /\ Sound(a) /\ Whole(a) /\ a.sent = v /\ a.obj.store = s
      /\ a.obj.wait_queue = k.obj.wait_queue /\ a.obj.rwait_queue = k.obj.rwait_queue
      /\ a.delivered = d /\ a.cfg = k.cfg
  BY <1>1, <1>4, Numbers
<1>6. /\ NoWaiters(a) <=> NoWaiters(k)
      /\ FirstWaiting(a) = FirstWaiting(k)
  BY <1>5 DEF NoWaiters, FirstWaiting
<1>7. CASE ~NoWaiters(k)
  <2>1. PICK b : b = Deliver(a, v)
    OBVIOUS
  <2>2. /\ Whole(b) /\ b.delivered = Append(d, v) /\ b.obj.store = s
        /\ b.obj.wait_queue = a.obj.wait_queue /\ b.obj.rwait_queue = a.obj.rwait_queue
        /\ b.sent = v /\ b.cfg = a.cfg
    BY <1>5, <2>1, Arrives
  <2>3. m = WakeFirst(b)
    BY <1>4, <1>5, <1>6, <1>7, <2>1 DEF snd_mbx
  <2>4. FirstWaiting(b) \in Task
    <3>1. FirstWaiting(k) \in Task
      BY <1>7, FirstFacts
    <3> QED BY <1>6, <2>2, <3>1 DEF FirstWaiting
  <2>5. Wakens(m, b)
    BY <2>2, <2>3, <2>4, WakeGives
  <2>6. /\ m.obj.store = b.obj.store /\ m.obj.rwait_queue = b.obj.rwait_queue
        /\ m.sent = b.sent /\ m.delivered = b.delivered /\ m.cfg = b.cfg
    BY <2>5, WakensFields
  <2>7. s = << >>
    BY <1>2, <1>7
  <2>8. ASSUME k.cfg.fifo PROVE Line(Append(d, v), s, << >>, v)
    <3>1. Line(d, << >>, << >>, n)
      BY <1>2, <2>7, <2>8
    <3>2. Line(Append(d, n + 1), << >>, << >>, n + 1)
      BY <3>1, LineArrived
    <3> QED BY <1>4, <2>7, <3>2
  <2> QED BY <1>2, <1>5, <2>2, <2>6, <2>7, <2>8 DEF OfMbx, Idle, NoReceivers
<1>8. CASE NoWaiters(k)
  <2>1. PICK r : r = IF a.cfg.mpri THEN enqueue_msg_pri(a, v) ELSE Append(s, v)
    OBVIOUS
  <2>2. StoreIs(m, a, r)
    <3>1. m = [a EXCEPT !.obj.store =
                 IF a.cfg.mpri THEN enqueue_msg_pri(a, a.sent) ELSE Append(@, a.sent)]
      BY <1>4, <1>6, <1>8 DEF snd_mbx
    <3>2. m = [a EXCEPT !.obj.store = IF a.cfg.mpri THEN enqueue_msg_pri(a, v) ELSE Append(s, v)]
      BY <1>5, <3>1
    <3> QED BY <2>1, <3>2 DEF StoreIs
  <2>3. /\ m.obj.store = r /\ m.obj.wait_queue = a.obj.wait_queue
        /\ m.obj.rwait_queue = a.obj.rwait_queue /\ m.sent = a.sent
        /\ m.delivered = a.delivered /\ m.cfg = a.cfg
    BY <1>5, <2>2, Stores
  <2>4. ASSUME k.cfg.fifo PROVE Line(d, r, << >>, v)
    <3>1. r = Append(s, v)
      BY <1>3, <1>5, <2>1, <2>4
    <3>2. Line(d, s, << >>, n)
      BY <1>2, <2>4
    <3>3. Line(d, Append(s, n + 1), << >>, n + 1)
      BY <3>2, LineStored
    <3> QED BY <1>4, <3>1, <3>3
  <2> QED BY <1>2, <1>5, <1>8, <2>3, <2>4 DEF OfMbx, Idle, NoReceivers, NoWaiters
<1> QED BY <1>7, <1>8

\* The first of what is stored is taken.
TakenFrom(m, k) == m = [Deliver(k, Head(k.obj.store)) EXCEPT !.obj.store = Tail(@)]

LEMMA Takes ==
  ASSUME NEW k, Whole(k), NEW m, TakenFrom(m, k)
  PROVE  /\ Whole(m) /\ m.obj.store = Tail(k.obj.store)
         /\ m.delivered = Append(k.delivered, Head(k.obj.store))
         /\ m.obj.wait_queue = k.obj.wait_queue /\ m.obj.rwait_queue = k.obj.rwait_queue
         /\ m.sent = k.sent /\ m.cfg = k.cfg /\ m.tcb = k.tcb /\ m.runtsk = k.runtsk
<1>1. PICK v, a, r : /\ v = Head(k.obj.store) /\ a = Deliver(k, v) /\ r = Tail(k.obj.store)
  OBVIOUS
<1>2. /\ Whole(a) /\ a.delivered = Append(k.delivered, v) /\ a.obj.store = k.obj.store
      /\ a.obj.wait_queue = k.obj.wait_queue /\ a.obj.rwait_queue = k.obj.rwait_queue
      /\ a.sent = k.sent /\ a.cfg = k.cfg /\ a.tcb = k.tcb /\ a.runtsk = k.runtsk
  BY <1>1, Arrives
<1>3. StoreIs(m, a, r)
  BY <1>1, <1>2 DEF StoreIs, TakenFrom
<1>4. /\ Whole(m) /\ m.obj.store = r /\ m.obj.wait_queue = a.obj.wait_queue
      /\ m.obj.rwait_queue = a.obj.rwait_queue /\ m.sent = a.sent /\ m.delivered = a.delivered
      /\ m.cfg = a.cfg /\ m.tcb = a.tcb /\ m.runtsk = a.runtsk
  BY <1>2, <1>3, Stores
<1> QED BY <1>1, <1>2, <1>4

LEMMA TrcvMbxFine ==
  ASSUME NEW k, Sound(k), OfMbx(k), Caller(k, k.runtsk), NEW tmout, NEW m, m = trcv_mbx(k, tmout)
  PROVE  OfMbx(m)
<1>1. PICK s, d, n : s = k.obj.store /\ d = k.delivered /\ n = k.sent
  OBVIOUS
<1>2. /\ k.cfg.object = "mbx" /\ NoReceivers(k) /\ (~NoWaiters(k) => s = << >>)
      /\ k.cfg.fifo => Line(d, s, << >>, n)
  BY <1>1 DEF OfMbx, Idle, NoWaiters
<1>3. CASE s # << >>
  <2>1. TakenFrom(m, k)
    BY <1>1, <1>3 DEF trcv_mbx, TakenFrom
  <2>2. Whole(k)
    BY SoundWhole
  <2>3. /\ m.obj.store = Tail(s) /\ m.delivered = Append(d, Head(s))
        /\ m.obj.wait_queue = k.obj.wait_queue /\ m.obj.rwait_queue = k.obj.rwait_queue
        /\ m.sent = n /\ m.cfg = k.cfg
    BY <1>1, <2>1, <2>2, Takes
  <2>4. ASSUME k.cfg.fifo PROVE Line(Append(d, Head(s)), Tail(s), << >>, n)
    <3>1. Line(d, s, << >>, n)
      BY <1>2, <2>4
    <3> QED BY <1>3, <3>1, LineTaken
  <2>5. NoWaiters(k)
    BY <1>2, <1>3
  <2> QED BY <1>2, <2>3, <2>4, <2>5 DEF OfMbx, Idle, NoReceivers, NoWaiters
<1>4. CASE s = << >>
  <2>1. PICK t, data : t = k.runtsk /\ data = NoData
    OBVIOUS
  <2>2. Caller(k, t) /\ m = wobj_make_wait_tmout(k, data, tmout)
    BY <1>1, <1>4, <2>1 DEF trcv_mbx
  <2>3. Joins(m, k, t, data)
    BY <2>2, WaitJoins
  <2>4. /\ m.obj.store = k.obj.store /\ m.obj.rwait_queue = k.obj.rwait_queue
        /\ m.cfg = k.cfg /\ m.sent = k.sent /\ m.delivered = k.delivered
    BY <2>3, JoinsFields
  <2> QED BY <1>1, <1>2, <1>4, <2>4 DEF OfMbx, Idle, NoReceivers
<1> QED BY <1>3, <1>4

--------------------------------------------------------------------------------
(* dataqueue.c *)

LEMMA NoItems ==
  ASSUME NEW w, Vacant(w), NEW x
  PROVE  Items(w, x) = << >>
BY DEF Items, Vacant

DataIs(m, k, t, data) == m = [k EXCEPT !.tcb[t].data = data]

LEMMA DataGives ==
  ASSUME NEW k, Whole(k), NEW t \in Task, NEW data, NEW m, DataIs(m, k, t, data)
  PROVE  Gives(m, k, {}, {}, {t}) /\ m.obj = k.obj
<1>1. PICK b, c : b = k.tcb[t] /\ c = [b EXCEPT !.data = data]
  OBVIOUS
<1>2. b = [f \in Blocks |-> b[f]]
  BY <1>1 DEF Whole
<1>3. c = [f \in Blocks |-> c[f]]
  BY <1>1, <1>2
<1>4. m = [k EXCEPT !.tcb[t] = c]
  BY <1>1 DEF DataIs
<1>5. m = [f \in Fields |-> m[f]] /\ Same(m, k, {"tcb"}) /\ m.tcb = [k.tcb EXCEPT ![t] = c]
  BY <1>4 DEF Whole, Fields, Same
<1>6. m.tcb = [u \in Task |-> m.tcb[u]] /\ m.tcb[t] = c /\ \A u \in Task \ {t} : m.tcb[u] = k.tcb[u]
  BY <1>5 DEF Whole
<1>7. /\ m.obj = k.obj /\ m.sent = k.sent /\ m.delivered = k.delivered
      /\ m.held = k.held /\ m.cfg = k.cfg
  BY <1>5 DEF Same, Fields
<1>8. \A u \in Task : m.tcb[u] = [f \in Blocks |-> m.tcb[u][f]]
  BY <1>3, <1>6 DEF Whole
<1>9. Whole(m)
  BY <1>5, <1>6, <1>7, <1>8 DEF Whole
<1>10. /\ \A f \in Queued \ {} : m.obj[f] = k.obj[f]
       /\ \A f \in {"sent", "delivered", "held"} \ {} : m[f] = k[f]
  BY <1>7
<1> QED BY <1>6, <1>7, <1>9, <1>10 DEF Gives

\* Straight to the first task that waits to receive.
HandedOver(m, k, item) == m = send_data_rwait(k, item)

LEMMA HandsOver ==
  ASSUME NEW k, Whole(k), FirstReceiving(k) \in Task, NEW item, NEW m, HandedOver(m, k, item)
  PROVE  /\ m.obj.store = k.obj.store /\ m.obj.wait_queue = k.obj.wait_queue
         /\ m.obj.rwait_queue = Tail(k.obj.rwait_queue)
         /\ m.delivered = Append(k.delivered, item) /\ m.sent = k.sent /\ m.cfg = k.cfg
<1>1. PICK t \in Task : t = FirstReceiving(k)
  OBVIOUS
<1>2. PICK a, q, b, data, c : /\ a = Deliver(k, item)
                              /\ q = Tail(k.obj.rwait_queue) /\ b = [a EXCEPT !.obj.rwait_queue = q]
                              /\ data = <<item>> /\ c = [b EXCEPT !.tcb[t].data = data]
  OBVIOUS
<1>3. /\ Whole(a) /\ a.delivered = Append(k.delivered, item)
      /\ a.obj.store = k.obj.store /\ a.obj.wait_queue = k.obj.wait_queue
      /\ a.obj.rwait_queue = k.obj.rwait_queue /\ a.sent = k.sent
      /\ a.cfg = k.cfg
  BY <1>2, Arrives
<1>4. ReceivesAre(b, a, q) /\ DataIs(c, b, t, data)
  BY <1>2 DEF ReceivesAre, DataIs
<1>5. Sets(b, a, {"rwait_queue"}, {}) /\ b.obj.rwait_queue = q
  BY <1>3, <1>4, ReceivesSet
<1>6. /\ b.obj.store = a.obj.store /\ b.obj.wait_queue = a.obj.wait_queue
      /\ b.sent = a.sent /\ b.delivered = a.delivered /\ b.cfg = a.cfg /\ Whole(b)
  BY <1>5, SetsFields
<1>7. Gives(c, b, {}, {}, {t}) /\ c.obj = b.obj
  BY <1>4, <1>6, DataGives
<1>8. c.sent = b.sent /\ c.delivered = b.delivered /\ c.cfg = b.cfg /\ Whole(c)
  BY <1>7, GivesFields
<1>9. m = wait_complete(c, t)
  <2>1. c = [a EXCEPT !.obj.rwait_queue = Tail(@), !.tcb[t].data = <<item>>]
    BY <1>2, <1>3
  <2> QED BY <1>1, <1>2, <2>1 DEF send_data_rwait, HandedOver
<1>10. Spares(m, c)
  BY <1>8, <1>9, CompleteSpares
<1>11. m.obj = c.obj /\ m.sent = c.sent /\ m.delivered = c.delivered /\ m.cfg = c.cfg
  BY <1>10 DEF Spares
<1> QED BY <1>2, <1>3, <1>5, <1>6, <1>7, <1>8, <1>11

\* The data queue, its numbers and its tasks.
LEMMA DtqFacts ==
  ASSUME NEW k, Sound(k), OfDtq(k)
  PROVE  /\ Whole(k) /\ k.cfg.object = "dtq" /\ k.cfg.limit \in Nat
         /\ k.obj.wait_queue \in Seq(Task) /\ Distinct(k.obj.wait_queue)
         /\ Row(k.obj.store) /\ Len(k.obj.store) \in Nat /\ Len(k.obj.store) <= k.cfg.limit
         /\ ~NoWaiters(k) => Len(k.obj.store) = k.cfg.limit
         /\ ~NoReceivers(k) => k.obj.store = << >> /\ NoWaiters(k)
         /\ k.cfg.fifo => /\ ~k.cfg.tpri /\ "fsnd_dtq" \notin k.cfg.services
                          /\ Line(k.delivered, k.obj.store, Items(k.obj.wait_queue, k.tcb), k.sent)
<1>1. k.cfg \in Configurations
  BY SoundShape DEF Shape
<1>2. k.cfg.limit \in Nat
  BY <1>1, ConfigurationTable DEF Configured
<1>3. k.cfg.object = "dtq"
  BY DEF OfDtq
<1>4. k.cfg.fifo => ~k.cfg.tpri /\ "fsnd_dtq" \notin k.cfg.services
  BY <1>1, <1>3, ConfigurationTable DEF HoldsAtFirst
<1>5. Whole(k) /\ k.obj.wait_queue \in Seq(Task) /\ Distinct(k.obj.wait_queue)
  BY SoundWhole, SoundQueue
<1> QED BY <1>2, <1>3, <1>4, <1>5 DEF OfDtq, Buffered, Row, NoWaiters, NoReceivers

\* One of the data queue's steps, when no task waits to send afterwards.
LEMMA NowBuffered ==
  ASSUME NEW k, k.cfg.object = "dtq", Row(k.obj.store), Len(k.obj.store) <= k.cfg.limit,
         NoWaiters(k), NoReceivers(k) \/ k.obj.store = << >>,
         k.cfg.fifo => Line(k.delivered, k.obj.store, << >>, k.sent)
  PROVE  OfDtq(k)
<1>1. PICK w : w = k.obj.wait_queue
  OBVIOUS
<1>2. Vacant(w)
  BY <1>1 DEF NoWaiters, Vacant
<1>3. Items(w, k.tcb) = << >>
  BY <1>2, NoItems
<1>4. k.cfg.fifo => Line(k.delivered, k.obj.store, Items(k.obj.wait_queue, k.tcb), k.sent)
  BY <1>1, <1>3
<1>5. Buffered(k.cfg.limit, k.obj.wait_queue, k.obj.rwait_queue, k.obj.store)
  BY DEF Buffered, NoWaiters, NoReceivers
<1> QED BY <1>4, <1>5 DEF OfDtq

LEMMA NoneInLine ==
  ASSUME NEW k, NoWaiters(k)
  PROVE  Items(k.obj.wait_queue, k.tcb) = << >>
<1>1. PICK w : w = k.obj.wait_queue
  OBVIOUS
<1>2. Vacant(w)
  BY <1>1 DEF NoWaiters, Vacant
<1> QED BY <1>1, <1>2, NoItems

IsNumbered(a, k) == a = [k EXCEPT !.sent = k.sent + 1]

\* The item goes to a task that waits to receive it.
LEMMA SendsOver ==
  ASSUME NEW k, Sound(k), OfDtq(k), ~NoReceivers(k), NEW a, IsNumbered(a, k),
         NEW m, HandedOver(m, a, a.sent)
  PROVE  OfDtq(m)
<1>1. PICK s, d, n, v : s = k.obj.store /\ d = k.delivered /\ n = k.sent /\ v = n + 1
  OBVIOUS
<1>2. /\ k.cfg.object = "dtq" /\ Row(s) /\ Len(s) <= k.cfg.limit /\ s = << >> /\ NoWaiters(k)
      /\ k.cfg.fifo => Line(d, s, Items(k.obj.wait_queue, k.tcb), n)
  BY <1>1, DtqFacts
<1>3. /\ Whole(a) /\ a.sent = v
      /\ a.obj.store = k.obj.store /\ a.obj.wait_queue = k.obj.wait_queue
      /\ a.obj.rwait_queue = k.obj.rwait_queue /\ a.delivered = k.delivered
      /\ a.cfg = k.cfg
  BY <1>1, Numbers DEF IsNumbered
<1>4. FirstReceiving(a) \in Task
  <2>1. FirstReceiving(k) \in Task
    BY FirstFacts
  <2> QED BY <1>3, <2>1 DEF FirstReceiving
<1>5. HandedOver(m, a, v)
  BY <1>3 DEF HandedOver
<1>6. /\ m.obj.store = a.obj.store /\ m.obj.wait_queue = a.obj.wait_queue
      /\ m.delivered = Append(a.delivered, v) /\ m.sent = a.sent /\ m.cfg = a.cfg
  BY <1>3, <1>4, <1>5, HandsOver
<1>7. ASSUME k.cfg.fifo PROVE Line(Append(d, v), s, << >>, v)
  <2>1. Line(d, << >>, << >>, n)
    BY <1>2, <1>7, NoneInLine
  <2>2. Line(Append(d, n + 1), << >>, << >>, n + 1)
    BY <2>1, LineArrived
  <2> QED BY <1>1, <1>2, <2>2
<1>8. /\ m.cfg.object = "dtq" /\ Row(m.obj.store) /\ Len(m.obj.store) <= m.cfg.limit
      /\ NoWaiters(m) /\ m.obj.store = << >>
      /\ m.cfg.fifo => Line(m.delivered, m.obj.store, << >>, m.sent)
  BY <1>1, <1>2, <1>3, <1>6, <1>7 DEF NoWaiters
<1> QED BY <1>8, NowBuffered

LEMMA RowAppended ==
  ASSUME NEW q, Row(q), NEW v
  PROVE  Row(Append(q, v)) /\ Len(Append(q, v)) = Len(q) + 1
<1>1. PICK n \in Nat : n = Len(q)
  BY DEF Row
<1>2. q = [i \in 1 .. n |-> q[i]]
  BY <1>1 DEF Row
<1>3. PICK S : S = {q[i] : i \in 1 .. n} \cup {v}
  OBVIOUS
<1>4. q \in [1 .. n -> S] /\ v \in S
  BY <1>2, <1>3
<1>5. q \in Seq(S)
  BY <1>4
<1>6. PICK r : r = Append(q, v)
  OBVIOUS
<1>7. r \in Seq(S) /\ Len(r) = n + 1
  BY <1>1, <1>4, <1>5, <1>6
<1>8. r = [i \in 1 .. Len(r) |-> r[i]] /\ Len(r) \in Nat
  BY <1>7
<1> QED BY <1>1, <1>6, <1>7, <1>8 DEF Row

LEMMA RowTail ==
  ASSUME NEW q, Row(q), q # << >>
  PROVE  Row(Tail(q)) /\ Len(Tail(q)) = Len(q) - 1 /\ Len(q) > 0
<1>1. PICK n \in Nat : n = Len(q)
  BY DEF Row
<1>2. q = [i \in 1 .. n |-> q[i]]
  BY <1>1 DEF Row
<1>3. PICK S : S = {q[i] : i \in 1 .. n}
  OBVIOUS
<1>4. q \in [1 .. n -> S]
  BY <1>2, <1>3
<1>5. q \in Seq(S)
  BY <1>4
<1>6. PICK r : r = Tail(q)
  OBVIOUS
<1>7. r \in Seq(S) /\ Len(r) = n - 1 /\ n > 0
  BY <1>1, <1>5, <1>6
<1>8. r = [i \in 1 .. Len(r) |-> r[i]] /\ Len(r) \in Nat
  BY <1>7
<1> QED BY <1>1, <1>6, <1>7, <1>8 DEF Row

LEMMA TsndDtqFine ==
  ASSUME NEW k, Sound(k), OfDtq(k), NEW tmout, ~NoReceivers(k) \/ HasRoom(k) \/ Caller(k, k.runtsk),
         NEW m, m = tsnd_dtq(k, tmout)
  PROVE  OfDtq(m)
<1>1. PICK a, s, d, n, v, w, l : /\ IsNumbered(a, k) /\ s = k.obj.store /\ d = k.delivered
                                 /\ n = k.sent /\ v = n + 1 /\ w = k.obj.wait_queue
                                 /\ l = k.cfg.limit
  BY DEF IsNumbered
<1>2. /\ k.cfg.object = "dtq" /\ l \in Nat /\ w \in Seq(Task) /\ Distinct(w)
      /\ Row(s) /\ Len(s) \in Nat /\ Len(s) <= l /\ (~NoWaiters(k) => Len(s) = l)
      /\ ~NoReceivers(k) => s = << >> /\ NoWaiters(k)
      /\ k.cfg.fifo => ~k.cfg.tpri /\ Line(d, s, Items(w, k.tcb), n)
  BY <1>1, DtqFacts
<1>3. /\ Sound(a) /\ Whole(a) /\ a.sent = v
      /\ a.obj.store = k.obj.store /\ a.obj.wait_queue = k.obj.wait_queue
      /\ a.obj.rwait_queue = k.obj.rwait_queue /\ a.delivered = k.delivered
      /\ a.cfg = k.cfg /\ a.tcb = k.tcb /\ a.runtsk = k.runtsk
  BY <1>1, Numbers DEF IsNumbered
<1>4. m = IF ~NoReceivers(a) THEN send_data_rwait(a, v)
          ELSE IF HasRoom(a) THEN enqueue_data(a, v)
          ELSE wobj_make_wait_tmout(a, <<v>>, tmout)
  <2>1. m = IF a.obj.rwait_queue # << >> THEN send_data_rwait(a, a.sent)
            ELSE IF HasRoom(a) THEN enqueue_data(a, a.sent)
            ELSE wobj_make_wait_tmout(a, <<a.sent>>, tmout)
    BY <1>1 DEF tsnd_dtq, IsNumbered
  <2> QED BY <1>3, <2>1 DEF NoReceivers
<1>5. (NoReceivers(a) <=> NoReceivers(k)) /\ (HasRoom(a) <=> Len(s) < l)
  BY <1>1, <1>3 DEF NoReceivers, HasRoom
<1>6. CASE ~NoReceivers(k)
  <2>1. HandedOver(m, a, a.sent)
    BY <1>3, <1>4, <1>5, <1>6 DEF HandedOver
  <2> QED BY <1>1, <1>6, <2>1, SendsOver
<1>7. CASE NoReceivers(k) /\ Len(s) < l
  <2>1. PICK r : r = Append(s, v)
    OBVIOUS
  <2>2. StoreIs(m, a, r)
    BY <1>1, <1>3, <1>4, <1>5, <1>7, <2>1 DEF enqueue_data, StoreIs
  <2>3. /\ m.obj.store = r /\ m.obj.wait_queue = a.obj.wait_queue
        /\ m.obj.rwait_queue = a.obj.rwait_queue /\ m.sent = a.sent
        /\ m.delivered = a.delivered /\ m.cfg = a.cfg
    BY <1>3, <2>2, Stores
  <2>4. NoWaiters(k)
    BY <1>2, <1>7
  <2>5. ASSUME k.cfg.fifo PROVE Line(d, r, << >>, v)
    <3>1. Line(d, s, << >>, n)
      BY <1>1, <1>2, <2>4, <2>5, NoneInLine
    <3>2. Line(d, Append(s, n + 1), << >>, n + 1)
      BY <3>1, LineStored
    <3> QED BY <1>1, <2>1, <3>2
  <2>6. Row(r) /\ Len(r) <= l
    <3>1. Row(r) /\ Len(r) = Len(s) + 1
      BY <1>2, <2>1, RowAppended
    <3> QED BY <1>2, <1>7, <3>1
  <2>7. /\ m.cfg.object = "dtq" /\ Row(m.obj.store) /\ Len(m.obj.store) <= m.cfg.limit
        /\ NoWaiters(m) /\ NoReceivers(m)
        /\ m.cfg.fifo => Line(m.delivered, m.obj.store, << >>, m.sent)
    BY <1>1, <1>2, <1>3, <1>7, <2>3, <2>4, <2>5, <2>6 DEF NoWaiters, NoReceivers
  <2> QED BY <2>7, NowBuffered
<1>8. CASE NoReceivers(k) /\ ~(Len(s) < l)
  <2>1. PICK t, data : t = k.runtsk /\ data = <<v>>
    OBVIOUS
  <2>2. Caller(k, t)
    <3>1. ~HasRoom(k)
      BY <1>1, <1>8 DEF HasRoom
    <3> QED BY <1>8, <2>1, <3>1
  <2>3. Caller(a, t) /\ m = wobj_make_wait_tmout(a, data, tmout)
    <3>1. Caller(a, t)
      BY <1>3, <2>2 DEF Caller, TSTAT_RUNNABLE
    <3> QED BY <1>4, <1>5, <1>8, <2>1, <3>1
  <2>4. Joins(m, a, t, data)
    BY <1>3, <2>3, WaitJoins
  <2>5. /\ m.obj.store = a.obj.store /\ m.obj.rwait_queue = a.obj.rwait_queue
        /\ m.sent = a.sent /\ m.delivered = a.delivered
        /\ m.cfg = a.cfg /\ m.tcb[t].data = data
    BY <2>4, JoinsFields
  <2>6. ASSUME k.cfg.fifo PROVE Line(d, s, Items(m.obj.wait_queue, m.tcb), v)
    <3>1. PICK x, y, q : x = k.tcb /\ y = m.tcb /\ q = m.obj.wait_queue
      OBVIOUS
    <3>2. t \in Task /\ t \notin Elements(w) /\ q = Append(w, t)
      <4>1. t \notin Elements(w) /\ (k.cfg.tpri \/ q = Append(w, t))
        BY <1>1, <1>3, <2>4, <3>1 DEF Joins
      <4> QED BY <1>2, <2>2, <2>6, <4>1 DEF Caller
    <3>3. \A u \in Task \ {t} : y[u].data = x[u].data
      BY <1>3, <2>4, <3>1 DEF Joins, Gives
    <3>4. \A u \in Elements(w) : y[u].data = x[u].data
      BY <1>2, <3>2, <3>3, QueueFacts
    <3>5. y[t].data = <<v>>
      BY <2>1, <2>5, <3>1
    <3>6. Items(Append(w, t), y) = Append(Items(w, x), v)
      <4>1. w \in Seq(Task) /\ t \in Task /\ t \notin Elements(w)
        BY <1>2, <3>2
      <4>2. Bears(y, x, w, t, v)
        BY <3>4, <3>5 DEF Bears
      <4> QED BY <4>1, <4>2, ItemsAppended
    <3>7. PICK e : e = Items(w, x)
      OBVIOUS
    <3>8. Line(d, s, e, n)
      BY <1>2, <2>6, <3>1, <3>7
    <3>9. Line(d, s, Append(e, n + 1), n + 1)
      BY <3>8, LineWaits
    <3> QED BY <1>1, <3>1, <3>2, <3>6, <3>7, <3>9
  <2>7. Len(s) = l
    BY <1>2, <1>8
  <2>8. Buffered(m.cfg.limit, m.obj.wait_queue, m.obj.rwait_queue, m.obj.store)
    BY <1>1, <1>2, <1>3, <1>8, <2>5, <2>7 DEF Buffered, NoReceivers
  <2> QED BY <1>1, <1>2, <1>3, <2>5, <2>6, <2>8 DEF OfDtq
<1> QED BY <1>6, <1>7, <1>8

LEMMA FsndDtqFine ==
  ASSUME NEW k, Sound(k), OfDtq(k), ~k.cfg.fifo, k.cfg.limit > 0, NEW m, m = fsnd_dtq(k)
  PROVE  OfDtq(m)
<1>1. PICK a, s, v, l : /\ IsNumbered(a, k) /\ s = k.obj.store /\ v = k.sent + 1 /\ l = k.cfg.limit
  BY DEF IsNumbered
<1>2. /\ k.cfg.object = "dtq" /\ l \in Nat
      /\ Row(s) /\ Len(s) \in Nat /\ Len(s) <= l /\ (~NoWaiters(k) => Len(s) = l)
      /\ ~NoReceivers(k) => s = << >> /\ NoWaiters(k)
  BY <1>1, DtqFacts
<1>3. /\ Whole(a) /\ a.sent = v
      /\ a.obj.store = k.obj.store /\ a.obj.wait_queue = k.obj.wait_queue
      /\ a.obj.rwait_queue = k.obj.rwait_queue /\ a.cfg = k.cfg
  BY <1>1, Numbers DEF IsNumbered
<1>4. m = IF ~NoReceivers(a) THEN send_data_rwait(a, v) ELSE force_enqueue_data(a, v)
  <2>1. m = IF a.obj.rwait_queue # << >> THEN send_data_rwait(a, a.sent)
            ELSE force_enqueue_data(a, a.sent)
    BY <1>1 DEF fsnd_dtq, IsNumbered
  <2> QED BY <1>3, <2>1 DEF NoReceivers
<1>5. (NoReceivers(a) <=> NoReceivers(k)) /\ (HasRoom(a) <=> Len(s) < l)
  BY <1>1, <1>3 DEF NoReceivers, HasRoom
<1>6. CASE ~NoReceivers(k)
  <2>1. HandedOver(m, a, a.sent)
    BY <1>3, <1>4, <1>5, <1>6 DEF HandedOver
  <2> QED BY <1>1, <1>6, <2>1, SendsOver
<1>7. CASE NoReceivers(k)
  <2>1. PICK p, r : p = (IF HasRoom(a) THEN s ELSE Tail(s)) /\ r = Append(p, v)
    OBVIOUS
  <2>2. StoreIs(m, a, r)
    <3>1. m = force_enqueue_data(a, v)
      BY <1>4, <1>5, <1>7
    <3>2. m = [a EXCEPT !.obj.store = Append(IF HasRoom(a) THEN s ELSE Tail(s), v)]
      BY <1>1, <1>3, <3>1 DEF force_enqueue_data
    <3> QED BY <2>1, <3>2 DEF StoreIs
  <2>3. /\ m.obj.store = r /\ m.obj.wait_queue = a.obj.wait_queue
        /\ m.obj.rwait_queue = a.obj.rwait_queue /\ m.cfg = a.cfg
    BY <1>3, <2>2, Stores
  <2>4. Row(p) /\ Len(p) = (IF Len(s) < l THEN Len(s) ELSE Len(s) - 1)
    <3>1. CASE Len(s) < l
      BY <1>2, <1>5, <2>1, <3>1
    <3>2. CASE ~(Len(s) < l)
      <4>1. s # << >>
        <5>1. Len(s) > 0
          BY <1>1, <1>2, <3>2
        <5> QED BY <5>1
      <4>2. Row(Tail(s)) /\ Len(Tail(s)) = Len(s) - 1
        BY <1>2, <4>1, RowTail
      <4> QED BY <1>5, <2>1, <3>2, <4>2
    <3> QED BY <3>1, <3>2
  <2>5. Row(r) /\ Len(r) = Len(p) + 1
    BY <2>1, <2>4, RowAppended
  <2>6. Row(r) /\ Len(r) <= l /\ (~NoWaiters(k) => Len(r) = l)
    BY <1>2, <2>4, <2>5
  <2>7. Buffered(m.cfg.limit, m.obj.wait_queue, m.obj.rwait_queue, m.obj.store)
    BY <1>1, <1>2, <1>3, <1>7, <2>3, <2>6 DEF Buffered, NoReceivers, NoWaiters
  <2> QED BY <1>2, <1>3, <2>3, <2>7 DEF OfDtq
<1> QED BY <1>6, <1>7

LEMMA ReceiveStoredFine ==
  ASSUME NEW k, Sound(k), OfDtq(k), k.obj.store # << >>, NEW m, m = ReceiveStored(k)
  PROVE  OfDtq(m)
<1>1. PICK b, s, d, n, w, l : /\ TakenFrom(b, k) /\ s = k.obj.store /\ d = k.delivered
                              /\ n = k.sent /\ w = k.obj.wait_queue /\ l = k.cfg.limit
  BY DEF TakenFrom
<1>2. /\ k.cfg.object = "dtq" /\ l \in Nat /\ w \in Seq(Task)
      /\ Row(s) /\ Len(s) \in Nat /\ Len(s) <= l /\ (~NoWaiters(k) => Len(s) = l)
      /\ s # << >> /\ NoReceivers(k)
      /\ k.cfg.fifo => Line(d, s, Items(w, k.tcb), n)
  BY <1>1, DtqFacts
<1>3. /\ Whole(b) /\ b.obj.store = Tail(s) /\ b.delivered = Append(d, Head(s))
      /\ b.obj.wait_queue = k.obj.wait_queue /\ b.obj.rwait_queue = k.obj.rwait_queue
      /\ b.sent = n /\ b.cfg = k.cfg /\ b.tcb = k.tcb
  <2>1. Whole(k)
    BY SoundWhole
  <2> QED BY <1>1, <2>1, Takes
<1>4. m = IF NoWaiters(k) THEN b ELSE WakeFirst(enqueue_data(b, k.tcb[FirstWaiting(k)].data[1]))
  BY <1>1 DEF ReceiveStored, TakenFrom
<1>5. Row(Tail(s)) /\ Len(Tail(s)) = Len(s) - 1 /\ Len(s) > 0
  BY <1>2, RowTail
<1>6. CASE NoWaiters(k)
  <2>1. m = b
    BY <1>4, <1>6
  <2>2. ASSUME k.cfg.fifo PROVE Line(Append(d, Head(s)), Tail(s), << >>, n)
    <3>1. Line(d, s, << >>, n)
      BY <1>1, <1>2, <1>6, <2>2, NoneInLine
    <3> QED BY <1>2, <3>1, LineTaken
  <2>3. /\ b.cfg.object = "dtq" /\ Row(b.obj.store) /\ Len(b.obj.store) <= b.cfg.limit
        /\ NoWaiters(b) /\ NoReceivers(b)
        /\ b.cfg.fifo => Line(b.delivered, b.obj.store, << >>, b.sent)
    BY <1>1, <1>2, <1>3, <1>5, <1>6, <2>2 DEF NoWaiters, NoReceivers
  <2>4. OfDtq(b)
    BY <2>3, NowBuffered
  <2> QED BY <2>1, <2>4
<1>7. CASE ~NoWaiters(k)
  <2>1. PICK v, r, c : /\ v = k.tcb[FirstWaiting(k)].data[1] /\ r = Append(Tail(s), v)
                       /\ c = enqueue_data(b, v)
    OBVIOUS
  <2>2. StoreIs(c, b, r)
    BY <1>3, <2>1 DEF enqueue_data, StoreIs
  <2>3. /\ Whole(c) /\ c.obj.store = r /\ c.obj.wait_queue = b.obj.wait_queue
        /\ c.obj.rwait_queue = b.obj.rwait_queue /\ c.sent = b.sent
        /\ c.delivered = b.delivered /\ c.cfg = b.cfg /\ c.tcb = b.tcb
    BY <1>3, <2>2, Stores
  <2>4. m = WakeFirst(c)
    BY <1>4, <1>7, <2>1
  <2>5. FirstWaiting(c) \in Task
    <3>1. FirstWaiting(k) \in Task
      BY <1>7, FirstFacts
    <3> QED BY <1>3, <2>3, <3>1 DEF FirstWaiting
  <2>6. Wakens(m, c)
    BY <2>3, <2>4, <2>5, WakeGives
  <2>7. /\ m.obj.store = c.obj.store /\ m.obj.rwait_queue = c.obj.rwait_queue
        /\ m.sent = c.sent /\ m.delivered = c.delivered
        /\ m.cfg = c.cfg /\ m.obj.wait_queue = Tail(c.obj.wait_queue)
        /\ \A t \in Task : m.tcb[t].data = c.tcb[t].data
    BY <2>6, WakensFields
  <2>8. w # << >>
    BY <1>1, <1>7 DEF NoWaiters
  <2>9. ASSUME k.cfg.fifo
        PROVE  Line(Append(d, Head(s)), r, Items(m.obj.wait_queue, m.tcb), n)
    <3>1. PICK x, y, e : x = k.tcb /\ y = m.tcb /\ e = Items(w, x)
      OBVIOUS
    <3>2. Tail(w) \in Seq(Task) /\ Elements(Tail(w)) \subseteq Task
      <4>1. Tail(w) \in Seq(Task)
        BY <1>2, <2>8
      <4> QED BY <4>1, QueueFacts
    <3>3. \A t \in Elements(Tail(w)) : y[t].data = x[t].data
      BY <1>3, <2>3, <2>7, <3>1, <3>2
    <3>4. Items(Tail(w), y) = Items(Tail(w), x)
      BY <3>2, <3>3, ItemsKept
    <3>5. Items(Tail(w), x) = Tail(e) /\ e # << >> /\ Head(e) = x[Head(w)].data[1]
      BY <1>2, <2>8, <3>1, ItemsTail
    <3>6. Head(e) = v
      BY <1>1, <2>1, <3>1, <3>5 DEF FirstWaiting
    <3>7. PICK p, q : p = Append(d, Head(s)) /\ q = Tail(s)
      OBVIOUS
    <3>8. Line(d, s, e, n)
      BY <1>2, <2>9, <3>1
    <3>9. Line(p, q, e, n)
      BY <1>2, <3>7, <3>8, LineTaken
    <3>10. Line(p, Append(q, Head(e)), Tail(e), n)
      BY <3>5, <3>9, LineMoves
    <3>11. m.obj.wait_queue = Tail(w)
      BY <1>1, <1>3, <2>3, <2>7
    <3> QED BY <2>1, <3>1, <3>4, <3>5, <3>6, <3>7, <3>10, <3>11
  <2>10. Row(r) /\ Len(r) = l
    <3>1. Row(r) /\ Len(r) = Len(Tail(s)) + 1
      BY <1>5, <2>1, RowAppended
    <3> QED BY <1>2, <1>5, <1>7, <3>1
  <2>11. Buffered(m.cfg.limit, m.obj.wait_queue, m.obj.rwait_queue, m.obj.store)
    BY <1>1, <1>2, <1>3, <2>3, <2>7, <2>10 DEF Buffered, NoReceivers
  <2> QED BY <1>2, <1>3, <2>3, <2>7, <2>9, <2>11 DEF OfDtq
<1> QED BY <1>6, <1>7

LEMMA ReceiveFromSenderFine ==
  ASSUME NEW k, Sound(k), OfDtq(k), k.obj.store = << >>, ~NoWaiters(k),
         NEW m, m = ReceiveFromSender(k)
  PROVE  OfDtq(m)
<1>1. PICK s, d, n, w, l, v, b : /\ s = k.obj.store /\ d = k.delivered /\ n = k.sent
                                 /\ w = k.obj.wait_queue /\ l = k.cfg.limit
                                 /\ v = k.tcb[FirstWaiting(k)].data[1] /\ b = Deliver(k, v)
  OBVIOUS
<1>2. /\ Whole(k) /\ k.cfg.object = "dtq" /\ l \in Nat /\ w \in Seq(Task)
      /\ Row(s) /\ Len(s) = l /\ s = << >> /\ NoReceivers(k)
      /\ k.cfg.fifo => Line(d, s, Items(w, k.tcb), n)
  BY <1>1, DtqFacts
<1>3. /\ Whole(b) /\ b.delivered = Append(d, v)
      /\ b.obj.store = s /\ b.obj.wait_queue = k.obj.wait_queue
      /\ b.obj.rwait_queue = k.obj.rwait_queue /\ b.sent = n
      /\ b.cfg = k.cfg /\ b.tcb = k.tcb
  BY <1>1, <1>2, Arrives
<1>4. m = WakeFirst(b)
  BY <1>1 DEF ReceiveFromSender
<1>5. FirstWaiting(b) \in Task
  <2>1. FirstWaiting(k) \in Task
    BY FirstFacts
  <2> QED BY <1>3, <2>1 DEF FirstWaiting
<1>6. Wakens(m, b)
  BY <1>3, <1>4, <1>5, WakeGives
<1>7. /\ m.obj.store = b.obj.store /\ m.obj.rwait_queue = b.obj.rwait_queue
      /\ m.sent = b.sent /\ m.delivered = b.delivered
      /\ m.cfg = b.cfg /\ m.obj.wait_queue = Tail(b.obj.wait_queue)
      /\ \A t \in Task : m.tcb[t].data = b.tcb[t].data
  BY <1>6, WakensFields
<1>8. w # << >>
  BY <1>1 DEF NoWaiters
<1>9. ASSUME k.cfg.fifo
      PROVE  Line(Append(d, v), s, Items(m.obj.wait_queue, m.tcb), n)
  <2>1. PICK x, y, e : x = k.tcb /\ y = m.tcb /\ e = Items(w, x)
    OBVIOUS
  <2>2. Tail(w) \in Seq(Task) /\ Elements(Tail(w)) \subseteq Task
    <3>1. Tail(w) \in Seq(Task)
      BY <1>2, <1>8
    <3> QED BY <3>1, QueueFacts
  <2>3. \A t \in Elements(Tail(w)) : y[t].data = x[t].data
    BY <1>3, <1>7, <2>1, <2>2
  <2>4. Items(Tail(w), y) = Items(Tail(w), x)
    BY <2>2, <2>3, ItemsKept
  <2>5. Items(Tail(w), x) = Tail(e) /\ e # << >> /\ Head(e) = x[Head(w)].data[1]
    BY <1>2, <1>8, <2>1, ItemsTail
  <2>6. Head(e) = v
    BY <1>1, <2>1, <2>5 DEF FirstWaiting
  <2>7. Line(d, << >>, e, n)
    BY <1>2, <1>9, <2>1
  <2>8. Line(Append(d, Head(e)), << >>, Tail(e), n)
    BY <2>5, <2>7, LinePasses
  <2>9. m.obj.wait_queue = Tail(w)
    BY <1>1, <1>3, <1>7
  <2> QED BY <1>2, <2>1, <2>4, <2>5, <2>6, <2>8, <2>9
<1>10. Buffered(m.cfg.limit, m.obj.wait_queue, m.obj.rwait_queue, m.obj.store)
  <2>1. /\ m.obj.store = s /\ m.cfg.limit = l /\ m.obj.rwait_queue = << >>
    BY <1>1, <1>2, <1>3, <1>7 DEF NoReceivers
  <2>2. Len(s) <= l
    BY <1>2
  <2> QED BY <1>2, <2>1, <2>2 DEF Buffered
<1> QED BY <1>2, <1>3, <1>7, <1>9, <1>10 DEF OfDtq

LEMMA WaitToReceiveFine ==
  ASSUME NEW k, Sound(k), OfDtq(k), k.obj.store = << >>, NoWaiters(k), Caller(k, k.runtsk),
         NEW tmout, NEW m, m = WaitToReceive(k, tmout)
  PROVE  OfDtq(m)
<1>1. PICK t, data, bits, a : /\ t = k.runtsk /\ data = NoData /\ bits = {"WAIT_WOBJ"}
                              /\ a = make_wait_tmout(k, bits, data, tmout)
  OBVIOUS
<1>2. /\ Whole(k) /\ k.cfg.object = "dtq" /\ Row(k.obj.store) /\ Len(k.obj.store) <= k.cfg.limit
      /\ k.cfg.fifo => Line(k.delivered, k.obj.store, Items(k.obj.wait_queue, k.tcb), k.sent)
  BY DtqFacts
<1>3. Begins(a, k, t, data)
  <2>1. t \in Task /\ t = k.runtsk
    BY <1>1 DEF Caller
  <2> QED BY <1>1, <1>2, <2>1, TmoutBegins
<1>4. Gives(a, k, {}, {}, {t}) /\ a.obj = k.obj
  BY <1>3, BeginsGive
<1>5. a.sent = k.sent /\ a.delivered = k.delivered /\ a.cfg = k.cfg /\ Whole(a)
  BY <1>4, GivesFields
<1>6. PICK q : q = Append(k.obj.rwait_queue, t)
  OBVIOUS
<1>7. ReceivesAre(m, a, q)
  BY <1>1, <1>4, <1>6 DEF WaitToReceive, ReceivesAre
<1>8. Sets(m, a, {"rwait_queue"}, {})
  BY <1>5, <1>7, ReceivesSet
<1>9. /\ m.obj.store = a.obj.store /\ m.obj.wait_queue = a.obj.wait_queue
      /\ m.sent = a.sent /\ m.delivered = a.delivered /\ m.cfg = a.cfg
  BY <1>8, SetsFields
<1>10. k.cfg.fifo => Line(k.delivered, k.obj.store, << >>, k.sent)
  BY <1>2, NoneInLine
<1>11. /\ m.cfg.object = "dtq" /\ Row(m.obj.store) /\ Len(m.obj.store) <= m.cfg.limit
       /\ NoWaiters(m) /\ m.obj.store = << >>
       /\ m.cfg.fifo => Line(m.delivered, m.obj.store, << >>, m.sent)
  BY <1>2, <1>4, <1>5, <1>9, <1>10 DEF NoWaiters
<1> QED BY <1>11, NowBuffered

LEMMA TrcvDtqFine ==
  ASSUME NEW k, Sound(k), OfDtq(k), Caller(k, k.runtsk), NEW tmout, NEW m, m = trcv_dtq(k, tmout)
  PROVE  OfDtq(m)
<1>1. CASE k.obj.store # << >>
  <2>1. m = ReceiveStored(k)
    BY <1>1 DEF trcv_dtq
  <2> QED BY <1>1, <2>1, ReceiveStoredFine
<1>2. CASE k.obj.store = << >> /\ ~NoWaiters(k)
  <2>1. m = ReceiveFromSender(k)
    BY <1>2 DEF trcv_dtq
  <2> QED BY <1>2, <2>1, ReceiveFromSenderFine
<1>3. CASE k.obj.store = << >> /\ NoWaiters(k)
  <2>1. m = WaitToReceive(k, tmout)
    BY <1>3 DEF trcv_dtq
  <2> QED BY <1>3, <2>1, WaitToReceiveFine
<1> QED BY <1>1, <1>2, <1>3

--------------------------------------------------------------------------------
(* The steps of the object. *)

LEMMA FineEnds ==
  ASSUME Core(kernel'), NEW n, Sound(n), Fine(n), Finishes(n)
  PROVE  Fine(kernel')
<1>1. PICK m : m = kernel' /\ Core(m) /\ (m = Dispatched(n) \/ m = Requested(n))
  BY DEF Finishes, Returns, Leaves
<1>2. Whole(n)
  BY SoundWhole
<1>3. Slims(m, n)
  BY <1>1, <1>2, DispatchedSlims, RequestedSlims
<1>4. Fine(m)
  BY <1>3, FineSlims
<1> QED BY <1>1, <1>4

LEMMA DoesSound ==
  ASSUME NEW n, NEW k, Does(n, k)
  PROVE  Sound(n)
BY DEF Does, Serves, Dozes, Keeps

LEMMA ServesSound ==
  ASSUME NEW n, NEW k, Serves(n, k)
  PROVE  Sound(n)
BY DEF Serves, Keeps

LEMMA OneObject ==
  ASSUME Core(kernel), NEW object \in DOMAIN ServicesOf, NEW service \in ServicesOf[object],
         Has(service)
  PROVE  kernel.cfg.object = object
<1>1. kernel.cfg \in Configurations
  BY SoundShape DEF Core, Shape
<1>2. PICK cfg : cfg = kernel.cfg /\ Configured(cfg)
  BY <1>1, ConfigurationTable
<1>3. \A o \in DOMAIN ServicesOf \ {cfg.object} : cfg.services \cap ServicesOf[o] = {}
  BY <1>2 DEF Configured
<1>4. service \in cfg.services
  BY <1>2 DEF Has
<1> QED BY <1>2, <1>3, <1>4

\* A service is there for the kind of the object.
LEMMA ServiceObject ==
  ASSUME Core(kernel)
  PROVE  /\ Has("sem") \/ Has("isig_sem") => kernel.cfg.object = "sem"
         /\ Has("flg") \/ Has("iset_flg") => kernel.cfg.object = "flg"
         /\ Has("dtq") \/ Has("ipsnd_dtq") \/ Has("fsnd_dtq") => kernel.cfg.object = "dtq"
         /\ Has("mbx") => kernel.cfg.object = "mbx"
         /\ Has("mpf") => kernel.cfg.object = "mpf"
<1>1. /\ {"sem", "flg", "dtq", "mbx", "mpf"} \subseteq DOMAIN ServicesOf
      /\ "sem" \in ServicesOf["sem"] /\ "isig_sem" \in ServicesOf["sem"]
      /\ "flg" \in ServicesOf["flg"] /\ "iset_flg" \in ServicesOf["flg"]
      /\ "dtq" \in ServicesOf["dtq"] /\ "ipsnd_dtq" \in ServicesOf["dtq"]
      /\ "fsnd_dtq" \in ServicesOf["dtq"]
      /\ "mbx" \in ServicesOf["mbx"] /\ "mpf" \in ServicesOf["mpf"]
  BY DEF ServicesOf
<1> QED BY <1>1, OneObject

LEMMA FineObject ==
  ASSUME Core(kernel), Fine(kernel)
  PROVE  /\ Has("sem") \/ Has("isig_sem") => OfSem(kernel)
         /\ Has("flg") \/ Has("iset_flg") => OfFlg(kernel)
         /\ Has("dtq") \/ Has("ipsnd_dtq") \/ Has("fsnd_dtq") => OfDtq(kernel)
         /\ Has("mbx") => OfMbx(kernel)
         /\ Has("mpf") => OfMpf(kernel)
<1>1. PICK object : object = kernel.cfg.object
  OBVIOUS
<1>2. /\ object = "sem" => OfSem(kernel)
      /\ object = "flg" => OfFlg(kernel)
      /\ object = "dtq" => OfDtq(kernel)
      /\ object = "mbx" => OfMbx(kernel)
      /\ object = "mpf" => OfMpf(kernel)
  <2>1. CASE OfNone(kernel)
    BY <1>1, <2>1 DEF OfNone
  <2>2. CASE OfSem(kernel)
    BY <1>1, <2>2 DEF OfSem
  <2>3. CASE OfFlg(kernel)
    BY <1>1, <2>3 DEF OfFlg
  <2>4. CASE OfDtq(kernel)
    BY <1>1, <2>4 DEF OfDtq
  <2>5. CASE OfMbx(kernel)
    BY <1>1, <2>5 DEF OfMbx
  <2>6. CASE OfMpf(kernel)
    BY <1>1, <2>6 DEF OfMpf
  <2> QED BY <2>1, <2>2, <2>3, <2>4, <2>5, <2>6 DEF Fine
<1>3. /\ Has("sem") \/ Has("isig_sem") => object = "sem"
      /\ Has("flg") \/ Has("iset_flg") => object = "flg"
      /\ Has("dtq") \/ Has("ipsnd_dtq") \/ Has("fsnd_dtq") => object = "dtq"
      /\ Has("mbx") => object = "mbx"
      /\ Has("mpf") => object = "mpf"
  BY <1>1, ServiceObject
<1> QED BY <1>2, <1>3

LEMMA FsndUnordered ==
  ASSUME Core(kernel), Fine(kernel), Has("fsnd_dtq")
  PROVE  ~kernel.cfg.fifo
<1>1. kernel.cfg \in Configurations
  BY SoundShape DEF Core, Shape
<1>2. PICK cfg : cfg = kernel.cfg /\ HoldsAtFirst(cfg)
  BY <1>1, ConfigurationTable
<1>3. cfg.object = "dtq"
  BY <1>2, ServiceObject
<1>4. cfg.fifo => "fsnd_dtq" \notin cfg.services
  BY <1>2, <1>3 DEF HoldsAtFirst
<1> QED BY <1>2, <1>4 DEF Has

LEMMA SemFlgFine ==
  ASSUME Core(kernel), Core(kernel'), Fine(kernel),
         SigSem \/ IsigSem \/ WaiSem \/ PolSem \/ SetFlg \/ IsetFlg \/ ClrFlg \/ WaiFlg \/ PolFlg
  PROVE  Fine(kernel')
<1>1. CASE SigSem
  <2>1. InTask("sem") /\ Finishes(sig_sem(kernel))
    BY <1>1 DEF SigSem, Finishes
  <2>2. PICK n : n = sig_sem(kernel) /\ Finishes(n)
    BY <2>1
  <2>3. Sound(kernel) /\ Caller(kernel, kernel.runtsk)
    BY <2>1, MayCall
  <2>4. OfSem(kernel)
    BY <2>1, FineObject DEF InTask
  <2>5. Sound(n)
    BY <2>1, <2>2, <2>3, SigSemServes, ServesSound
  <2>6. OfSem(n)
    BY <2>1, <2>2, <2>3, <2>4, SigSemFine
  <2> QED BY <2>2, <2>5, <2>6, FineEnds DEF Fine
<1>2. CASE IsigSem
  <2>1. InHandler("isig_sem") /\ Finishes(sig_sem(kernel))
    BY <1>2 DEF IsigSem, Finishes
  <2>2. PICK n : n = sig_sem(kernel) /\ Finishes(n)
    BY <2>1
  <2>3. Sound(kernel)
    BY <2>1, Handling
  <2>4. OfSem(kernel)
    BY <2>1, FineObject DEF InHandler
  <2>5. Sound(n)
    BY <2>1, <2>2, <2>3, SigSemServes, ServesSound
  <2>6. OfSem(n)
    BY <2>1, <2>2, <2>3, <2>4, SigSemFine
  <2> QED BY <2>2, <2>5, <2>6, FineEnds DEF Fine
<1>3. CASE WaiSem
  <2>1. PICK tmout \in kernel.cfg.tmouts : InTask("sem") /\ Finishes(twai_sem(kernel, tmout))
    BY <1>3 DEF WaiSem, Finishes, MayWait
  <2>2. PICK n : n = twai_sem(kernel, tmout) /\ Finishes(n)
    BY <2>1
  <2>3. Sound(kernel) /\ Caller(kernel, kernel.runtsk)
    BY <2>1, MayCall
  <2>4. OfSem(kernel)
    BY <2>1, FineObject DEF InTask
  <2>5. tmout \in Int
    BY Timeouts
  <2>6. Sound(n)
    BY <2>1, <2>2, <2>3, <2>5, TwaiSemDoes, DoesSound
  <2>7. OfSem(n)
    BY <2>1, <2>2, <2>3, <2>5, <2>4, TwaiSemFine
  <2> QED BY <2>2, <2>6, <2>7, FineEnds DEF Fine
<1>4. CASE PolSem
  <2>1. InTask("sem") /\ Finishes(twai_sem(kernel, TMO_POL))
    BY <1>4 DEF PolSem, Finishes
  <2>2. PICK n : n = twai_sem(kernel, TMO_POL) /\ Finishes(n)
    BY <2>1
  <2>3. Sound(kernel) /\ Caller(kernel, kernel.runtsk)
    BY <2>1, MayCall
  <2>4. OfSem(kernel)
    BY <2>1, FineObject DEF InTask
  <2>5. TMO_POL \in Int
    BY Timeouts
  <2>6. Sound(n)
    BY <2>1, <2>2, <2>3, <2>5, TwaiSemDoes, DoesSound
  <2>7. OfSem(n)
    BY <2>1, <2>2, <2>3, <2>5, <2>4, TwaiSemFine
  <2> QED BY <2>2, <2>6, <2>7, FineEnds DEF Fine
<1>5. CASE SetFlg
  <2>1. PICK ptn : InTask("flg") /\ Finishes(set_flg(kernel, ptn))
    BY <1>5 DEF SetFlg, Finishes
  <2>2. PICK n : n = set_flg(kernel, ptn) /\ Finishes(n)
    BY <2>1
  <2>3. Sound(kernel) /\ Caller(kernel, kernel.runtsk)
    BY <2>1, MayCall
  <2>4. OfFlg(kernel)
    BY <2>1, FineObject DEF InTask
  <2>5. Sound(n)
    BY <2>1, <2>2, <2>3, SetFlgServes, ServesSound
  <2>6. OfFlg(n)
    BY <2>1, <2>2, <2>3, <2>4, SetFlgFine
  <2> QED BY <2>2, <2>5, <2>6, FineEnds DEF Fine
<1>6. CASE IsetFlg
  <2>1. PICK ptn : InHandler("iset_flg") /\ Finishes(set_flg(kernel, ptn))
    BY <1>6 DEF IsetFlg, Finishes
  <2>2. PICK n : n = set_flg(kernel, ptn) /\ Finishes(n)
    BY <2>1
  <2>3. Sound(kernel)
    BY <2>1, Handling
  <2>4. OfFlg(kernel)
    BY <2>1, FineObject DEF InHandler
  <2>5. Sound(n)
    BY <2>1, <2>2, <2>3, SetFlgServes, ServesSound
  <2>6. OfFlg(n)
    BY <2>1, <2>2, <2>3, <2>4, SetFlgFine
  <2> QED BY <2>2, <2>5, <2>6, FineEnds DEF Fine
<1>7. CASE ClrFlg
  <2>1. PICK ptn : InTask("flg") /\ Finishes(clr_flg(kernel, ptn))
    BY <1>7 DEF ClrFlg, Finishes
  <2>2. PICK n : n = clr_flg(kernel, ptn) /\ Finishes(n)
    BY <2>1
  <2>3. Sound(kernel) /\ Caller(kernel, kernel.runtsk)
    BY <2>1, MayCall
  <2>4. OfFlg(kernel)
    BY <2>1, FineObject DEF InTask
  <2>5. Sound(n)
    BY <2>1, <2>2, <2>3, ClrFlgServes, ServesSound
  <2>6. OfFlg(n)
    BY <2>1, <2>2, <2>3, <2>4, ClrFlgFine
  <2> QED BY <2>2, <2>5, <2>6, FineEnds DEF Fine
<1>8. CASE WaiFlg
  <2>1. PICK ptn \in kernel.cfg.ptns, mode \in {"TWF_ANDW", "TWF_ORW"},
             tmout \in kernel.cfg.tmouts :
          InTask("flg") /\ NoWaiters(kernel) /\ Finishes(twai_flg(kernel, ptn, mode, tmout))
    BY <1>8 DEF WaiFlg, Finishes, MayWait
  <2>2. PICK n : n = twai_flg(kernel, ptn, mode, tmout) /\ Finishes(n)
    BY <2>1
  <2>3. Sound(kernel) /\ Caller(kernel, kernel.runtsk)
    BY <2>1, MayCall
  <2>4. OfFlg(kernel)
    BY <2>1, FineObject DEF InTask
  <2>5. tmout \in Int
    BY Timeouts
  <2>6. Sound(n)
    BY <2>1, <2>2, <2>3, <2>5, TwaiFlgDoes, DoesSound
  <2>7. OfFlg(n)
    BY <2>1, <2>2, <2>3, <2>5, <2>4, TwaiFlgFine
  <2> QED BY <2>2, <2>6, <2>7, FineEnds DEF Fine
<1>9. CASE PolFlg
  <2>1. PICK ptn, mode :
          InTask("flg") /\ NoWaiters(kernel) /\ Finishes(twai_flg(kernel, ptn, mode, TMO_POL))
    BY <1>9 DEF PolFlg, Finishes
  <2>2. PICK n : n = twai_flg(kernel, ptn, mode, TMO_POL) /\ Finishes(n)
    BY <2>1
  <2>3. Sound(kernel) /\ Caller(kernel, kernel.runtsk)
    BY <2>1, MayCall
  <2>4. OfFlg(kernel)
    BY <2>1, FineObject DEF InTask
  <2>5. TMO_POL \in Int
    BY Timeouts
  <2>6. Sound(n)
    BY <2>1, <2>2, <2>3, <2>5, TwaiFlgDoes, DoesSound
  <2>7. OfFlg(n)
    BY <2>1, <2>2, <2>3, <2>5, <2>4, TwaiFlgFine
  <2> QED BY <2>2, <2>6, <2>7, FineEnds DEF Fine
<1> QED BY <1>1, <1>2, <1>3, <1>4, <1>5, <1>6, <1>7, <1>8, <1>9

LEMMA DtqFine ==
  ASSUME Core(kernel), Core(kernel'), Fine(kernel),
         SndDtq \/ PsndDtq \/ IpsndDtq \/ FsndDtq \/ IfsndDtq \/ RcvDtq \/ PrcvDtq
  PROVE  Fine(kernel')
<1>1. CASE SndDtq
  <2>1. PICK tmout \in kernel.cfg.tmouts : InTask("dtq") /\ Finishes(tsnd_dtq(kernel, tmout))
    BY <1>1 DEF SndDtq, Finishes, MayWait
  <2>2. PICK n : n = tsnd_dtq(kernel, tmout) /\ Finishes(n)
    BY <2>1
  <2>3. Sound(kernel) /\ Caller(kernel, kernel.runtsk)
    BY <2>1, MayCall
  <2>4. OfDtq(kernel)
    BY <2>1, FineObject DEF InTask
  <2>5. tmout \in Int
    BY Timeouts
  <2>6. Sound(n)
    BY <2>1, <2>2, <2>3, <2>5, TsndDtqDoes, DoesSound
  <2>7. OfDtq(n)
    BY <2>1, <2>2, <2>3, <2>5, <2>4, TsndDtqFine
  <2> QED BY <2>2, <2>6, <2>7, FineEnds DEF Fine
<1>2. CASE PsndDtq
  <2>1. InTask("dtq") /\ Finishes(tsnd_dtq(kernel, TMO_POL))
    BY <1>2 DEF PsndDtq, Finishes
  <2>2. PICK n : n = tsnd_dtq(kernel, TMO_POL) /\ Finishes(n)
    BY <2>1
  <2>3. Sound(kernel) /\ Caller(kernel, kernel.runtsk)
    BY <2>1, MayCall
  <2>4. OfDtq(kernel)
    BY <2>1, FineObject DEF InTask
  <2>5. TMO_POL \in Int
    BY Timeouts
  <2>6. Sound(n)
    BY <2>1, <2>2, <2>3, <2>5, TsndDtqDoes, DoesSound
  <2>7. OfDtq(n)
    BY <2>1, <2>2, <2>3, <2>5, <2>4, TsndDtqFine
  <2> QED BY <2>2, <2>6, <2>7, FineEnds DEF Fine
<1>3. CASE IpsndDtq
  <2>1. /\ InHandler("ipsnd_dtq") /\ Finishes(tsnd_dtq(kernel, TMO_POL))
        /\ ~NoReceivers(kernel) \/ HasRoom(kernel)
    BY <1>3 DEF IpsndDtq, Finishes, CanSend, NoReceivers
  <2>2. PICK n : n = tsnd_dtq(kernel, TMO_POL) /\ Finishes(n)
    BY <2>1
  <2>3. Sound(kernel)
    BY <2>1, Handling
  <2>4. OfDtq(kernel)
    BY <2>1, FineObject DEF InHandler
  <2>5. Sound(n)
    BY <2>1, <2>2, <2>3, TsndDtqServes, ServesSound DEF NoReceivers
  <2>6. OfDtq(n)
    BY <2>1, <2>2, <2>3, <2>4, TsndDtqFine
  <2> QED BY <2>2, <2>5, <2>6, FineEnds DEF Fine
<1>4. CASE FsndDtq
  <2>1. InTask("fsnd_dtq") /\ kernel.cfg.limit > 0 /\ Finishes(fsnd_dtq(kernel))
    BY <1>4 DEF FsndDtq, Finishes
  <2>2. PICK n : n = fsnd_dtq(kernel) /\ Finishes(n)
    BY <2>1
  <2>3. Sound(kernel) /\ Caller(kernel, kernel.runtsk)
    BY <2>1, MayCall
  <2>4. OfDtq(kernel)
    BY <2>1, FineObject DEF InTask
  <2>5. ~kernel.cfg.fifo
    BY <2>1, FsndUnordered DEF InTask
  <2>6. Sound(n)
    BY <2>1, <2>2, <2>3, <2>5, FsndDtqServes, ServesSound
  <2>7. OfDtq(n)
    BY <2>1, <2>2, <2>3, <2>5, <2>4, FsndDtqFine
  <2> QED BY <2>2, <2>6, <2>7, FineEnds DEF Fine
<1>5. CASE IfsndDtq
  <2>1. InHandler("fsnd_dtq") /\ kernel.cfg.limit > 0 /\ Finishes(fsnd_dtq(kernel))
    BY <1>5 DEF IfsndDtq, Finishes
  <2>2. PICK n : n = fsnd_dtq(kernel) /\ Finishes(n)
    BY <2>1
  <2>3. Sound(kernel)
    BY <2>1, Handling
  <2>4. OfDtq(kernel)
    BY <2>1, FineObject DEF InHandler
  <2>5. ~kernel.cfg.fifo
    BY <2>1, FsndUnordered DEF InHandler
  <2>6. Sound(n)
    BY <2>1, <2>2, <2>3, <2>5, FsndDtqServes, ServesSound
  <2>7. OfDtq(n)
    BY <2>1, <2>2, <2>3, <2>5, <2>4, FsndDtqFine
  <2> QED BY <2>2, <2>6, <2>7, FineEnds DEF Fine
<1>6. CASE RcvDtq
  <2>1. PICK tmout \in kernel.cfg.tmouts : InTask("dtq") /\ Finishes(trcv_dtq(kernel, tmout))
    BY <1>6 DEF RcvDtq, Finishes, MayWait
  <2>2. PICK n : n = trcv_dtq(kernel, tmout) /\ Finishes(n)
    BY <2>1
  <2>3. Sound(kernel) /\ Caller(kernel, kernel.runtsk)
    BY <2>1, MayCall
  <2>4. OfDtq(kernel)
    BY <2>1, FineObject DEF InTask
  <2>5. tmout \in Int
    BY Timeouts
  <2>6. Sound(n)
    BY <2>1, <2>2, <2>3, <2>5, TrcvDtqDoes, DoesSound
  <2>7. OfDtq(n)
    BY <2>1, <2>2, <2>3, <2>5, <2>4, TrcvDtqFine
  <2> QED BY <2>2, <2>6, <2>7, FineEnds DEF Fine
<1>7. CASE PrcvDtq
  <2>1. InTask("dtq") /\ Finishes(trcv_dtq(kernel, TMO_POL))
    BY <1>7 DEF PrcvDtq, Finishes
  <2>2. PICK n : n = trcv_dtq(kernel, TMO_POL) /\ Finishes(n)
    BY <2>1
  <2>3. Sound(kernel) /\ Caller(kernel, kernel.runtsk)
    BY <2>1, MayCall
  <2>4. OfDtq(kernel)
    BY <2>1, FineObject DEF InTask
  <2>5. TMO_POL \in Int
    BY Timeouts
  <2>6. Sound(n)
    BY <2>1, <2>2, <2>3, <2>5, TrcvDtqDoes, DoesSound
  <2>7. OfDtq(n)
    BY <2>1, <2>2, <2>3, <2>5, <2>4, TrcvDtqFine
  <2> QED BY <2>2, <2>6, <2>7, FineEnds DEF Fine
<1> QED BY <1>1, <1>2, <1>3, <1>4, <1>5, <1>6, <1>7

LEMMA MbxMpfFine ==
  ASSUME Core(kernel), Core(kernel'), Fine(kernel),
         SndMbx \/ RcvMbx \/ PrcvMbx \/ GetMpf \/ PgetMpf \/ RelMpf
  PROVE  Fine(kernel')
<1>1. CASE SndMbx
  <2>1. InTask("mbx") /\ Finishes(snd_mbx(kernel))
    BY <1>1 DEF SndMbx, Finishes
  <2>2. PICK n : n = snd_mbx(kernel) /\ Finishes(n)
    BY <2>1
  <2>3. Sound(kernel) /\ Caller(kernel, kernel.runtsk)
    BY <2>1, MayCall
  <2>4. OfMbx(kernel)
    BY <2>1, FineObject DEF InTask
  <2>5. Sound(n)
    BY <2>1, <2>2, <2>3, SndMbxServes, ServesSound
  <2>6. OfMbx(n)
    BY <2>1, <2>2, <2>3, <2>4, SndMbxFine
  <2> QED BY <2>2, <2>5, <2>6, FineEnds DEF Fine
<1>2. CASE RcvMbx
  <2>1. PICK tmout \in kernel.cfg.tmouts : InTask("mbx") /\ Finishes(trcv_mbx(kernel, tmout))
    BY <1>2 DEF RcvMbx, Finishes, MayWait
  <2>2. PICK n : n = trcv_mbx(kernel, tmout) /\ Finishes(n)
    BY <2>1
  <2>3. Sound(kernel) /\ Caller(kernel, kernel.runtsk)
    BY <2>1, MayCall
  <2>4. OfMbx(kernel)
    BY <2>1, FineObject DEF InTask
  <2>5. tmout \in Int
    BY Timeouts
  <2>6. Sound(n)
    BY <2>1, <2>2, <2>3, <2>5, TrcvMbxDoes, DoesSound
  <2>7. OfMbx(n)
    BY <2>1, <2>2, <2>3, <2>5, <2>4, TrcvMbxFine
  <2> QED BY <2>2, <2>6, <2>7, FineEnds DEF Fine
<1>3. CASE PrcvMbx
  <2>1. InTask("mbx") /\ Finishes(trcv_mbx(kernel, TMO_POL))
    BY <1>3 DEF PrcvMbx, Finishes
  <2>2. PICK n : n = trcv_mbx(kernel, TMO_POL) /\ Finishes(n)
    BY <2>1
  <2>3. Sound(kernel) /\ Caller(kernel, kernel.runtsk)
    BY <2>1, MayCall
  <2>4. OfMbx(kernel)
    BY <2>1, FineObject DEF InTask
  <2>5. TMO_POL \in Int
    BY Timeouts
  <2>6. Sound(n)
    BY <2>1, <2>2, <2>3, <2>5, TrcvMbxDoes, DoesSound
  <2>7. OfMbx(n)
    BY <2>1, <2>2, <2>3, <2>5, <2>4, TrcvMbxFine
  <2> QED BY <2>2, <2>6, <2>7, FineEnds DEF Fine
<1>4. CASE GetMpf
  <2>1. PICK tmout \in kernel.cfg.tmouts : InTask("mpf") /\ Finishes(tget_mpf(kernel, tmout))
    BY <1>4 DEF GetMpf, Finishes, MayWait
  <2>2. PICK n : n = tget_mpf(kernel, tmout) /\ Finishes(n)
    BY <2>1
  <2>3. Sound(kernel) /\ Caller(kernel, kernel.runtsk)
    BY <2>1, MayCall
  <2>4. OfMpf(kernel)
    BY <2>1, FineObject DEF InTask
  <2>5. tmout \in Int
    BY Timeouts
  <2>6. Sound(n)
    BY <2>1, <2>2, <2>3, <2>5, TgetMpfDoes, DoesSound
  <2>7. OfMpf(n)
    BY <2>1, <2>2, <2>3, <2>5, <2>4, TgetMpfFine
  <2> QED BY <2>2, <2>6, <2>7, FineEnds DEF Fine
<1>5. CASE PgetMpf
  <2>1. InTask("mpf") /\ Finishes(tget_mpf(kernel, TMO_POL))
    BY <1>5 DEF PgetMpf, Finishes
  <2>2. PICK n : n = tget_mpf(kernel, TMO_POL) /\ Finishes(n)
    BY <2>1
  <2>3. Sound(kernel) /\ Caller(kernel, kernel.runtsk)
    BY <2>1, MayCall
  <2>4. OfMpf(kernel)
    BY <2>1, FineObject DEF InTask
  <2>5. TMO_POL \in Int
    BY Timeouts
  <2>6. Sound(n)
    BY <2>1, <2>2, <2>3, <2>5, TgetMpfDoes, DoesSound
  <2>7. OfMpf(n)
    BY <2>1, <2>2, <2>3, <2>5, <2>4, TgetMpfFine
  <2> QED BY <2>2, <2>6, <2>7, FineEnds DEF Fine
<1>6. CASE RelMpf
  <2>0. PICK t \in Task :
          InTask("mpf") /\ \E blk \in kernel.held[t] : Finishes(rel_mpf(kernel, t, blk))
    BY <1>6 DEF RelMpf, Finishes
  <2>1. PICK blk \in kernel.held[t] : InTask("mpf") /\ Finishes(rel_mpf(kernel, t, blk))
    BY <2>0
  <2>2. PICK n : n = rel_mpf(kernel, t, blk) /\ Finishes(n)
    BY <2>1
  <2>3. Sound(kernel) /\ Caller(kernel, kernel.runtsk)
    BY <2>1, MayCall
  <2>4. OfMpf(kernel)
    BY <2>1, FineObject DEF InTask
  <2>5. Sound(n)
    BY <2>1, <2>2, <2>3, RelMpfServes, ServesSound
  <2>6. OfMpf(n)
    BY <2>1, <2>2, <2>3, <2>4, RelMpfFine
  <2> QED BY <2>2, <2>5, <2>6, FineEnds DEF Fine
<1> QED BY <1>1, <1>2, <1>3, <1>4, <1>5, <1>6

LEMMA FineNext ==
  ASSUME Core(kernel), Fine(kernel), [Next]_kernel
  PROVE  Fine(kernel')
<1>1. Core(kernel')
  BY NextCore
<1>2. CASE TaskNext \/ TimeNext
  <2>1. Slims(kernel', kernel)
    BY <1>1, <1>2, OtherStepsSlim
  <2>2. PICK k, m : k = kernel /\ m = kernel'
    OBVIOUS
  <2>3. Sound(k) /\ Fine(k) /\ Slims(m, k)
    BY <2>1, <2>2 DEF Core
  <2>4. Fine(m)
    BY <2>3, FineSlims
  <2> QED BY <2>2, <2>4
<1>3. CASE ObjectNext
  BY <1>1, <1>3, SemFlgFine, DtqFine, MbxMpfFine DEF ObjectNext
<1>4. CASE UNCHANGED kernel
  BY <1>4
<1> QED BY <1>2, <1>3, <1>4 DEF Next

--------------------------------------------------------------------------------
(* At first the object is empty, and the kernel starts without it. *)

LEMMA EmptyLine == Line(<< >>, << >>, << >>, 0)
<1>1. << >> \in Seq(Nat) /\ Len(<< >>) = 0
  OBVIOUS
<1>2. PICK e \in Seq(Nat) : e = << >> /\ Len(e) = 0
  BY <1>1
<1>3. Line(e, e, e, 0)
  BY <1>2 DEF Line, Rising, Precedes, AllBelow
<1> QED BY <1>2, <1>3

LEMMA BeforeFine ==
  ASSUME NEW cfg \in Configurations, NEW k, k = Before(cfg)
  PROVE  Fine(k)
<1>1. PICK n : n = k
  OBVIOUS
<1>2. /\ \A f \in FieldsOfObject : n[f] = NothingSent(cfg)[f]
      /\ \A f \in FieldsOfHandlers : n[f] = NoHandlers(cfg)[f]
  BY <1>1, BeforeFields
<1>3. PICK a, b : a = NothingSent(cfg) /\ b = NoHandlers(cfg)
  OBVIOUS
<1>4. /\ n.obj = a.obj /\ n.sent = a.sent /\ n.delivered = a.delivered /\ n.held = a.held
      /\ n.cfg = b.cfg
  BY <1>2, <1>3 DEF FieldsOfObject, FieldsOfHandlers
<1>5. /\ n.obj.wait_queue = << >> /\ n.obj.rwait_queue = << >> /\ n.obj.store = cfg.store
      /\ n.sent = 0 /\ n.delivered = << >> /\ n.held = [t \in Task |-> {}] /\ n.cfg = cfg
  BY <1>3, <1>4 DEF NothingSent, NoHandlers
<1>6. NoWaiters(n) /\ NoReceivers(n) /\ Elements(n.obj.wait_queue) = {}
  BY <1>5 DEF NoWaiters, NoReceivers, Elements
<1>7. Configured(cfg) /\ HoldsAtFirst(cfg)
  BY ConfigurationTable
<1>8. cfg.object \in {"none", "sem", "flg", "dtq", "mbx", "mpf"} /\ cfg.limit \in Nat
  BY <1>7 DEF Configured, ServicesOf
<1>9. ASSUME cfg.object = "none" PROVE Fine(n)
  BY <1>5, <1>6, <1>9 DEF OfNone, Fine
<1>10. ASSUME cfg.object = "sem" PROVE Fine(n)
  <2>1. cfg.store \in Nat
    BY <1>7, <1>8, <1>10 DEF HoldsAtFirst
  <2>2. OfSem(n)
    BY <1>5, <1>6, <1>10, <2>1 DEF OfSem, Spent
  <2> QED BY <2>2 DEF Fine
<1>11. ASSUME cfg.object = "flg" PROVE Fine(n)
  <2>1. OfFlg(n)
    BY <1>5, <1>6, <1>11 DEF OfFlg, Unmet
  <2> QED BY <2>1 DEF Fine
<1>12. ASSUME cfg.object = "dtq" PROVE Fine(n)
  <2>1. cfg.store = << >>
    BY <1>7, <1>12 DEF HoldsAtFirst
  <2>2. Row(n.obj.store) /\ Len(n.obj.store) <= n.cfg.limit
    BY <1>5, <1>8, <2>1 DEF Row
  <2>3. n.obj.store = << >> /\ Line(n.delivered, n.obj.store, << >>, n.sent)
    BY <1>5, <2>1, EmptyLine
  <2>4. n.cfg.object = "dtq"
    BY <1>5, <1>12
  <2>5. OfDtq(n)
    BY <1>6, <2>2, <2>3, <2>4, NowBuffered
  <2> QED BY <2>5 DEF Fine
<1>13. ASSUME cfg.object = "mbx" PROVE Fine(n)
  <2>1. cfg.store = << >>
    BY <1>7, <1>13 DEF HoldsAtFirst
  <2>2. Line(n.delivered, n.obj.store, << >>, n.sent)
    BY <1>5, <2>1, EmptyLine
  <2>3. OfMbx(n)
    BY <1>5, <1>6, <1>13, <2>2 DEF OfMbx, Idle
  <2> QED BY <2>3 DEF Fine
<1>14. ASSUME cfg.object = "mpf" PROVE Fine(n)
  <2>1. PICK s, l, h : s = cfg.store /\ l = cfg.limit /\ h = n.held
    OBVIOUS
  <2>2. s \in Seq(1 .. l) /\ IsInjective(s)
    BY <1>7, <1>14, <2>1 DEF HoldsAtFirst
  <2>3. Distinct(s)
    BY <2>2 DEF Distinct, IsInjective
  <2>4. h = [t \in Task |-> h[t]] /\ \A t \in Task : h[t] = {}
    BY <1>5, <2>1
  <2>5. Owned(l, s, h)
    BY <2>2, <2>3, <2>4 DEF Owned
  <2>6. OfMpf(n)
    BY <1>5, <1>6, <1>14, <2>1, <2>5 DEF OfMpf, Idle
  <2> QED BY <2>6 DEF Fine
<1>15. Fine(n)
  BY <1>8, <1>9, <1>10, <1>11, <1>12, <1>13, <1>14
<1> QED BY <1>1, <1>15

LEMMA InitFine ==
  ASSUME NEW cfg \in Configurations, NEW m, m = dispatch(Initialized(cfg))
  PROVE  Fine(m)
<1>1. PICK a, b : a = Before(cfg) /\ b = Initialized(cfg)
  OBVIOUS
<1>2. Core(m) /\ m.runtsk = b.schedtsk /\ m = dispatch(b)
  BY <1>1, InitCore
<1>3. Sound(b) /\ Spares(b, a)
  BY <1>1, InitBoots DEF Booted
<1>4. Sound(a)
  BY <1>1, BeforeSilent, SilentSound
<1>5. Fine(a)
  BY <1>1, BeforeFine
<1>6. Fine(b)
  BY <1>3, <1>4, <1>5, SparesSlim, FineSlims
<1>7. Whole(b)
  BY <1>3, SoundWhole
<1>8. Slims(m, b)
  BY <1>2, <1>7, DispatchSlims
<1> QED BY <1>3, <1>6, <1>8, FineSlims

--------------------------------------------------------------------------------
(* What the invariant says of the object. *)

LEMMA FineNoneWaits ==
  ASSUME Core(kernel), Fine(kernel)
  PROVE  NoneWaitsForWhatIsThere
<1>1. Sound(kernel)
  BY DEF Core
<1>2. PICK s, first, want, object, full :
        /\ s = kernel.obj.store /\ first = FirstWaiting(kernel) /\ want = kernel.tcb[first].data
        /\ object = kernel.cfg.object /\ full = kernel.cfg.limit
  OBVIOUS
<1> DEFINE Lacks == CASE object = "sem" -> s = 0
                      [] object = "flg" -> ~eventflag_cond(kernel, want[1], want[2])
                      [] object = "dtq" -> Len(s) = full
                      [] OTHER          -> s = << >>
<1>3. /\ ~NoWaiters(kernel) => Lacks
      /\ ~NoReceivers(kernel) => s = << >> /\ NoWaiters(kernel)
  <2>1. ASSUME OfNone(kernel) PROVE NoReceivers(kernel) /\ NoWaiters(kernel)
    BY <2>1 DEF OfNone
  <2>2. ASSUME OfSem(kernel), ~NoWaiters(kernel) PROVE object = "sem" /\ s = 0
    BY <1>2, <2>2 DEF OfSem, Spent, NoWaiters
  <2>3. ASSUME OfFlg(kernel), ~NoWaiters(kernel)
        PROVE  object = "flg" /\ ~eventflag_cond(kernel, want[1], want[2])
    <3>1. first \in Elements(kernel.obj.wait_queue)
      BY <1>1, <1>2, <2>3, FirstFacts
    <3>2. object = "flg" /\ ~Met(s, want)
      BY <1>2, <2>3, <3>1 DEF OfFlg, Unmet
    <3>3. eventflag_cond(kernel, want[1], want[2]) <=> Met(s, want)
      BY <1>2, MetCondition
    <3> QED BY <3>2, <3>3
  <2>4. ASSUME OfDtq(kernel), ~NoWaiters(kernel) PROVE object = "dtq" /\ Len(s) = full
    BY <1>2, <2>4 DEF OfDtq, Buffered, NoWaiters
  <2>5. ASSUME OfMbx(kernel), ~NoWaiters(kernel) PROVE object = "mbx" /\ s = << >>
    BY <1>2, <2>5 DEF OfMbx, Idle, NoWaiters
  <2>6. ASSUME OfMpf(kernel), ~NoWaiters(kernel) PROVE object = "mpf" /\ s = << >>
    BY <1>2, <2>6 DEF OfMpf, Idle, NoWaiters
  <2>7. ASSUME ~NoReceivers(kernel) PROVE s = << >> /\ NoWaiters(kernel)
    <3>1. OfDtq(kernel)
      BY <2>7 DEF Fine, OfNone, OfSem, OfFlg, OfMbx, OfMpf
    <3> QED BY <1>2, <2>7, <3>1 DEF OfDtq, Buffered, NoWaiters, NoReceivers
  <2>8. ~NoWaiters(kernel) => Lacks
    BY <2>1, <2>2, <2>3, <2>4, <2>5, <2>6 DEF Fine
  <2> QED BY <2>7, <2>8
<1> QED BY <1>2, <1>3 DEF NoneWaitsForWhatIsThere, NoReceivers

LEMMA FineArrives ==
  ASSUME Core(kernel), Fine(kernel)
  PROVE  ArrivesInOrder
<1>1. PICK cfg : cfg = kernel.cfg /\ Configured(cfg) /\ HoldsAtFirst(cfg)
  BY SoundShape, ConfigurationTable DEF Core, Shape
<1>2. PICK item : item = kernel.delivered
  OBVIOUS
<1>3. ASSUME kernel.cfg.fifo PROVE item \in Seq(Nat) /\ Rising(item)
  <2>1. cfg.object \in {"dtq", "mbx"}
    BY <1>1, <1>3 DEF HoldsAtFirst
  <2>2. OfDtq(kernel) \/ OfMbx(kernel)
    BY <1>1, <2>1 DEF Fine, OfNone, OfSem, OfFlg, OfMpf
  <2>3. PICK s, e, n : Line(item, s, e, n)
    BY <1>2, <1>3, <2>2 DEF OfDtq, OfMbx
  <2> QED BY <2>3 DEF Line
<1>4. kernel.cfg.fifo => \A i, j \in DOMAIN item : i < j => item[i] < item[j]
  <2>1. SUFFICES ASSUME kernel.cfg.fifo, NEW i \in DOMAIN item, NEW j \in DOMAIN item, i < j
                 PROVE  item[i] < item[j]
    OBVIOUS
  <2>2. item \in Seq(Nat) /\ Rising(item)
    BY <1>3, <2>1
  <2>3. DOMAIN item = 1 .. Len(item)
    BY <2>2
  <2> QED BY <2>1, <2>2, <2>3 DEF Rising
<1> QED BY <1>2, <1>4 DEF ArrivesInOrder

LEMMA FineBlocks ==
  ASSUME Core(kernel), Fine(kernel)
  PROVE  BlocksHaveOneOwner
<1>1. PICK free, held, limit :
        free = kernel.obj.store /\ held = kernel.held /\ limit = kernel.cfg.limit
  OBVIOUS
<1>2. ASSUME kernel.cfg.object = "mpf", NEW t \in Task, NEW blk \in held[t]
      PROVE  Places(free, blk) = 0 /\ \A u \in Task \ {t} : blk \notin held[u]
  <2>1. OfMpf(kernel)
    BY <1>2 DEF Fine, OfNone, OfSem, OfFlg, OfDtq, OfMbx
  <2>2. Owned(limit, free, held)
    BY <1>1, <2>1 DEF OfMpf
  <2>3. free \in Seq(1 .. limit) /\ Distinct(free) /\ blk \notin Elements(free)
    BY <1>2, <2>2 DEF Owned
  <2>4. \A u \in Task \ {t} : blk \notin held[u]
    BY <1>2, <2>2 DEF Owned
  <2>5. PICK S : S = 1 .. limit
    OBVIOUS
  <2>6. free \in Seq(S)
    BY <2>3, <2>5
  <2>7. Places(free, blk) = IF blk \in Elements(free) THEN 1 ELSE 0
    BY <2>3, <2>6, PlacesInQueue
  <2> QED BY <2>3, <2>4, <2>7
<1> QED BY <1>1, <1>2 DEF BlocksHaveOneOwner

\* What the object holds fits those that wait for it, in every configuration: the inductive
\* invariant of the objects, with Core, whose agreement of queues and states it rests on.
THEOREM FineKept == Spec => [](Core(kernel) /\ Fine(kernel))
<1>1. Init => Core(kernel) /\ Fine(kernel)
  <2>1. SUFFICES ASSUME NEW cfg \in Configurations, kernel = dispatch(Initialized(cfg))
                 PROVE  Core(kernel) /\ Fine(kernel)
    BY DEF Init
  <2>2. PICK m : m = kernel
    OBVIOUS
  <2>3. Core(m) /\ Fine(m)
    BY <2>1, <2>2, InitCore, InitFine
  <2> QED BY <2>2, <2>3
<1>2. (Core(kernel) /\ Fine(kernel)) /\ [Next]_kernel => (Core(kernel) /\ Fine(kernel))'
  BY NextCore, FineNext
<1> QED BY <1>1, <1>2, PTL DEF Spec

\* No task waits for what is there: a service that puts a count, a pattern, data, a message or
\* a block into the object gives it to the first that waits, and none begins to wait for it; and
\* the ends of waits by timeout, release and termination leave it so (semaphore.c to mempfix.c).
THEOREM NoneWaits == Spec => []NoneWaitsForWhatIsThere
BY FineKept, FineNoneWaits, PTL

\* Data and messages arrive in the order in which they were sent, also those that waited with
\* their sender for room in the queue and those whose sender's wait ended (dataqueue.c,
\* mailbox.c).
THEOREM ArrivesInTurn == Spec => []ArrivesInOrder
BY FineKept, FineArrives, PTL

\* A block of a memory pool is free or one task's: get_mpf, and rel_mpf to a task that waits,
\* hand each to just one (mempfix.c).
THEOREM BlocksOwnedOnce == Spec => []BlocksHaveOneOwner
BY FineKept, FineBlocks, PTL

================================================================================
