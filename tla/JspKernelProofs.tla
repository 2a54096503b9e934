---------------------------- MODULE JspKernelProofs ----------------------------
(***************************************************************************)
(* The invariant of JspKernel and what follows from it, for every number   *)
(* of tasks, priorities and handlers, every width of the event time and    *)
(* every configuration: the first ready task runs, wait queues and time    *)
(* events agree with the states of the tasks, and exceptions are taken.    *)
(*                                                                         *)
(* Core, the invariant, adds to Sound what holds of the task that runs: it *)
(* may differ from schedtsk only while dispatching is disabled, in an      *)
(* interrupt that has asked for a dispatch, or in the idle loop.           *)
(*                                                                         *)
(* The time events implement the timers of JspTimers: every service stops  *)
(* one of them at most, or starts one when its caller waits, and the       *)
(* distances that the heap compares are the times that are left.           *)
(***************************************************************************)
EXTENDS JspQueueProofs

--------------------------------------------------------------------------------
(* Who runs. *)

\* A task that runs is runnable.  Outside of interrupts, and in one that asked for no dispatch, it
\* is the one that should run and has no exception to take.
Control(k) ==
  /\ k.runtsk # NULL => k.runtsk \in Task /\ TSTAT_RUNNABLE(k, k.runtsk)
  /\ Unasked(k)
  /\ k.enadsp /\ (~k.interrupt \/ (k.runtsk # NULL /\ ~k.reqflg)) => k.runtsk = k.schedtsk
  /\ (~k.interrupt \/ ~k.reqflg) /\ k.runtsk # NULL =>
       ~(k.tcb[k.runtsk].enatex /\ k.tcb[k.runtsk].texptn)
  /\ k.ticking => k.interrupt
  /\ k.locked => k.runtsk # NULL /\ ~k.interrupt

Core(k) == Sound(k) /\ Control(k)

\* What the queues and events say of the tasks has not changed.
Switches == {"runtsk", "reqflg", "enadsp", "ret", "interrupt", "ticking", "locked"}

Alike(m, k) ==
  /\ Same(m, k, Switches \cup {"tcb", "obj", "sent", "delivered", "held"})
  /\ m.obj.wait_queue = k.obj.wait_queue /\ m.obj.rwait_queue = k.obj.rwait_queue
  /\ \A t \in Task : /\ m.tcb[t].priority = k.tcb[t].priority
                     /\ m.tcb[t].tstat = k.tcb[t].tstat
                     /\ TSTAT_WAITING(k, t) => m.tcb[t].winfo = k.tcb[t].winfo

LEMMA AlikeAlike ==
  ASSUME NEW k, NEW m, NEW n, Alike(m, k), Alike(n, m)
  PROVE  Alike(n, k)
<1>1. Same(n, k, Switches \cup {"tcb", "obj", "sent", "delivered", "held"})
  BY DEF Alike, Same
<1>2. \A t \in Task : /\ n.tcb[t].priority = k.tcb[t].priority
                      /\ n.tcb[t].tstat = k.tcb[t].tstat
                      /\ TSTAT_WAITING(k, t) => n.tcb[t].winfo = k.tcb[t].winfo
  BY DEF Alike, TSTAT_WAITING
<1> QED BY <1>1, <1>2 DEF Alike

LEMMA AlikeSound ==
  ASSUME NEW k, Sound(k), NEW m, Shape(m), Alike(m, k)
  PROVE  Sound(m) /\ m.schedtsk = k.schedtsk
<1>1. PICK R, C, S : Fits(k, R, C, S)
  BY DEF Sound
<1>2. Shape(k) /\ Sched(k, R) /\ Waits(k, C, S) /\ Events(k)
  BY <1>1 DEF Fits, Base
<1>3. \A f \in Fields \ (Switches \cup {"tcb", "obj", "sent", "delivered", "held"}) : m[f] = k[f]
  BY DEF Alike, Same
<1>4. /\ m.ready_queue = k.ready_queue /\ m.ready_primap = k.ready_primap
      /\ m.schedtsk = k.schedtsk /\ m.cfg = k.cfg /\ m.cycsta = k.cycsta
  BY <1>3 DEF Fields, Switches
<1>5. \A f \in Timing : m[f] = k[f]
  BY <1>3 DEF Fields, Switches, Timing
<1>6. \A t \in Task : m.tcb[t].priority = k.tcb[t].priority
  BY DEF Alike
<1>7. Prio(m) = Prio(k)
  BY <1>6, ThePriorities
<1>8. Sched(m, R)
  BY <1>2, <1>4, <1>7, TheSchedule
<1>9. Waits(m, C, S)
  BY <1>2, <1>4, <1>7, TheWaits DEF Alike
<1>10. Events(m) /\ \A o : Nodes(m, o) = Nodes(k, o)
  BY <1>2, <1>5, TheEvents
<1>11. Base(m, R, C, S)
  BY <1>8, <1>9, <1>10 DEF Base
<1>12. ASSUME NEW t \in Task PROVE TaskFits(m, t, R, C, S)
  <2>1. TaskFits(k, t, R, C, S)
    BY <1>1 DEF Fits
  <2>2. m.tcb[t].tstat = k.tcb[t].tstat /\ Nodes(m, t) = Nodes(k, t)
        /\ ("WAITING" \in k.tcb[t].tstat => m.tcb[t].winfo = k.tcb[t].winfo)
    BY <1>10 DEF Alike, TSTAT_WAITING
  <2>3. Watched(k.tcb[t].tstat, m.tcb[t].winfo, Nodes(k, t))
    BY <2>1, <2>2 DEF TaskFits, Watched
  <2> QED BY <2>1, <2>2, <2>3 DEF TaskFits
<1>13. ASSUME NEW c \in Cyclic PROVE CyclicFits(m, c)
  BY <1>1, <1>4, <1>10 DEF Fits, CyclicFits
<1>14. Fits(m, R, C, S)
  BY <1>11, <1>12, <1>13 DEF Fits
<1> QED BY <1>4, <1>14 DEF Sound

\* Writes of switches.
Switched(m, k) ==
  /\ m = [f \in Fields |-> m[f]] /\ Same(m, k, Switches)
  /\ \A f \in Flags : m[f] \in BOOLEAN

LEMMA SwitchedAlike ==
  ASSUME NEW k, Shape(k), NEW m, Switched(m, k)
  PROVE  /\ Shape(m) /\ Alike(m, k) /\ m.tcb = k.tcb /\ m.schedtsk = k.schedtsk
<1>1. \A f \in Fields \ Switches : m[f] = k[f]
  BY DEF Switched, Same
<1>2. m.tcb = k.tcb /\ m.obj = k.obj /\ m.cfg = k.cfg /\ m.schedtsk = k.schedtsk
  BY <1>1 DEF Fields, Switches
<1>3. Shape(m)
  BY <1>2 DEF Shape, Switched
<1>4. Alike(m, k)
  BY <1>1, <1>2 DEF Alike, Same
<1> QED BY <1>2, <1>3, <1>4

\* Writes of a task's block that are not of its state.
BlockRewritten(m, k, t, B) ==
  /\ m = [f \in Fields |-> m[f]] /\ Same(m, k, {"tcb"})
  /\ m.tcb = [u \in Task |-> m.tcb[u]] /\ \A u \in Task \ {t} : m.tcb[u] = k.tcb[u]
  /\ Block(m.tcb[t]) /\ \A f \in Blocks \ B : m.tcb[t][f] = k.tcb[t][f]

LEMMA RewrittenAlike ==
  ASSUME NEW k, Shape(k), NEW t \in Task, NEW B,
         \/ B \subseteq {"enatex", "texptn", "texnest"}
         \/ B \subseteq {"winfo", "data"} /\ ~TSTAT_WAITING(k, t),
         NEW m, BlockRewritten(m, k, t, B)
  PROVE  Shape(m) /\ Alike(m, k)
<1>1. \A f \in Fields \ {"tcb"} : m[f] = k[f]
  BY DEF BlockRewritten, Same
<1>2. m.obj = k.obj /\ m.cfg = k.cfg
  BY <1>1 DEF Fields
<1>3. \A f \in Flags : m[f] = k[f]
  BY <1>1 DEF Fields, Flags
<1>4. \A u \in Task : Block(m.tcb[u])
  BY DEF BlockRewritten, Shape
<1>5. Shape(m)
  BY <1>2, <1>3, <1>4 DEF Shape, BlockRewritten
<1>6. ASSUME NEW u \in Task
      PROVE  /\ m.tcb[u].priority = k.tcb[u].priority
             /\ m.tcb[u].tstat = k.tcb[u].tstat
             /\ TSTAT_WAITING(k, u) => m.tcb[u].winfo = k.tcb[u].winfo
  <2>1. CASE u # t
    BY <2>1 DEF BlockRewritten
  <2>2. CASE u = t
    <3>1. PICK b, c : b = k.tcb[t] /\ c = m.tcb[t]
      OBVIOUS
    <3>2. \A f \in Blocks \ B : c[f] = b[f]
      BY <3>1 DEF BlockRewritten
    <3>3. c["priority"] = b["priority"] /\ c["tstat"] = b["tstat"]
          /\ (TSTAT_WAITING(k, t) => c["winfo"] = b["winfo"])
      BY <3>2 DEF Blocks
    <3> QED BY <2>2, <3>1, <3>3
  <2> QED BY <2>1, <2>2
<1>7. Alike(m, k)
  BY <1>1, <1>2, <1>6 DEF Alike, Same
<1> QED BY <1>5, <1>7

TexCalled(m, k, t) ==
  m = [k EXCEPT !.tcb[t].enatex = FALSE, !.tcb[t].texptn = FALSE, !.tcb[t].texnest = @ + 1]
ResultRead(m, k, t) == m = [k EXCEPT !.tcb[t].winfo = Zero, !.tcb[t].data = NoData]

LEMMA TexCalledWell ==
  ASSUME NEW k, Shape(k), NEW t \in Task, NEW m, TexCalled(m, k, t)
  PROVE  /\ BlockRewritten(m, k, t, {"enatex", "texptn", "texnest"})
         /\ Same(m, k, {"tcb"}) /\ ~m.tcb[t].enatex /\ ~m.tcb[t].texptn
<1>1. /\ m = [f \in Fields |-> m[f]] /\ Same(m, k, {"tcb"})
      /\ m.tcb = [u \in Task |-> m.tcb[u]] /\ \A u \in Task \ {t} : m.tcb[u] = k.tcb[u]
  BY DEF TexCalled, Shape, Fields, Same
<1>2. m.tcb[t] = [k.tcb[t] EXCEPT !.enatex = FALSE, !.texptn = FALSE, !.texnest = @ + 1]
  BY DEF TexCalled, Shape, Fields
<1>3. PICK b, c : b = k.tcb[t] /\ c = m.tcb[t]
  OBVIOUS
<1>4. Block(b) /\ c = [b EXCEPT !.enatex = FALSE, !.texptn = FALSE, !.texnest = @ + 1]
  BY <1>2, <1>3 DEF Shape
<1>5. /\ c = [f \in Blocks |-> c[f]] /\ c.priority = b.priority
      /\ c.enatex = FALSE /\ c.texptn = FALSE
      /\ \A f \in Blocks \ {"enatex", "texptn", "texnest"} : c[f] = b[f]
  BY <1>4 DEF Block, Blocks
<1>6. Block(c)
  BY <1>4, <1>5 DEF Block
<1> QED BY <1>1, <1>3, <1>5, <1>6 DEF BlockRewritten

LEMMA ResultReadWell ==
  ASSUME NEW k, Shape(k), NEW t \in Task, NEW m, ResultRead(m, k, t)
  PROVE  BlockRewritten(m, k, t, {"winfo", "data"}) /\ Same(m, k, {"tcb"})
<1>1. /\ m = [f \in Fields |-> m[f]] /\ Same(m, k, {"tcb"})
      /\ m.tcb = [u \in Task |-> m.tcb[u]] /\ \A u \in Task \ {t} : m.tcb[u] = k.tcb[u]
  BY DEF ResultRead, Shape, Fields, Same
<1>2. m.tcb[t] = [k.tcb[t] EXCEPT !.winfo = Zero, !.data = NoData]
  BY DEF ResultRead, Shape, Fields
<1>3. PICK b, c : b = k.tcb[t] /\ c = m.tcb[t]
  OBVIOUS
<1>4. Block(b) /\ c = [b EXCEPT !.winfo = Zero, !.data = NoData]
  BY <1>2, <1>3 DEF Shape
<1>5. /\ c = [f \in Blocks |-> c[f]]
      /\ c.priority = b.priority /\ c.enatex = b.enatex /\ c.texptn = b.texptn
      /\ \A f \in Blocks \ {"winfo", "data"} : c[f] = b[f]
  BY <1>4 DEF Block, Blocks
<1>6. Block(c)
  BY <1>4, <1>5 DEF Block
<1> QED BY <1>1, <1>3, <1>5, <1>6 DEF BlockRewritten

LEMMA CalltexIs ==
  ASSUME NEW k, Shape(k), k.runtsk = NULL \/ k.runtsk \in Task, NEW m, m = calltex(k)
  PROVE  /\ Shape(m) /\ Alike(m, k) /\ Same(m, k, {"tcb"})
         /\ k.runtsk # NULL => ~(m.tcb[k.runtsk].enatex /\ m.tcb[k.runtsk].texptn)
<1>1. CASE k.runtsk # NULL /\ k.tcb[k.runtsk].enatex /\ k.tcb[k.runtsk].texptn
  <2>1. k.runtsk \in Task /\ TexCalled(m, k, k.runtsk)
    BY <1>1 DEF calltex, call_texrtn, TexCalled
  <2>2. /\ BlockRewritten(m, k, k.runtsk, {"enatex", "texptn", "texnest"})
        /\ Same(m, k, {"tcb"}) /\ ~m.tcb[k.runtsk].enatex /\ ~m.tcb[k.runtsk].texptn
    BY <2>1, TexCalledWell
  <2>3. Shape(m) /\ Alike(m, k)
    BY <2>1, <2>2, RewrittenAlike
  <2> QED BY <2>2, <2>3
<1>2. CASE ~(k.runtsk # NULL /\ k.tcb[k.runtsk].enatex /\ k.tcb[k.runtsk].texptn)
  <2>1. m = k
    BY <1>2 DEF calltex
  <2>2. Alike(k, k) /\ Same(k, k, {"tcb"})
    BY DEF Alike, Same
  <2> QED BY <1>2, <2>1, <2>2
<1> QED BY <1>1, <1>2

LEMMA ResumedIs ==
  ASSUME NEW k, Shape(k), k.runtsk = NULL \/ (k.runtsk \in Task /\ ~TSTAT_WAITING(k, k.runtsk)),
         NEW m, m = Resumed(k)
  PROVE  Shape(m) /\ Alike(m, k) /\ Same(m, k, {"tcb"})
<1>1. CASE k.runtsk # NULL
  <2>1. k.runtsk \in Task /\ ~TSTAT_WAITING(k, k.runtsk) /\ ResultRead(m, k, k.runtsk)
    BY <1>1 DEF Resumed, ResultRead
  <2>2. BlockRewritten(m, k, k.runtsk, {"winfo", "data"}) /\ Same(m, k, {"tcb"})
    BY <2>1, ResultReadWell
  <2>3. Shape(m) /\ Alike(m, k)
    BY <2>1, <2>2, RewrittenAlike
  <2> QED BY <2>2, <2>3
<1>2. CASE k.runtsk = NULL
  <2>1. m = k
    BY <1>2 DEF Resumed
  <2>2. Alike(k, k) /\ Same(k, k, {"tcb"})
    BY DEF Alike, Same
  <2> QED BY <2>1, <2>2
<1> QED BY <1>1, <1>2

\* What runs after dispatch is what should run.
LEMMA SchedtskRuns ==
  ASSUME NEW k, Sound(k)
  PROVE  \/ k.schedtsk = NULL
         \/ k.schedtsk \in Task /\ TSTAT_RUNNABLE(k, k.schedtsk) /\ ~TSTAT_WAITING(k, k.schedtsk)
<1>1. PICK R, C, S : Fits(k, R, C, S)
  BY DEF Sound
<1>2. Sched(k, R)
  BY <1>1 DEF Fits, Base
<1>3. SUFFICES ASSUME k.schedtsk \in R, k.schedtsk \in Task
               PROVE TSTAT_RUNNABLE(k, k.schedtsk) /\ ~TSTAT_WAITING(k, k.schedtsk)
  BY <1>2, ScheduledTask
<1>4. PICK s : s = k.tcb[k.schedtsk].tstat
  OBVIOUS
<1>5. TaskFits(k, k.schedtsk, R, C, S)
  BY <1>1, <1>3 DEF Fits
<1>6. "RUNNABLE" \in s /\ s \in Legal
  BY <1>3, <1>4, <1>5 DEF TaskFits, Agrees, Watched
<1>7. s = {"RUNNABLE"}
  BY <1>6, LegalStates
<1> QED BY <1>4, <1>7 DEF TSTAT_RUNNABLE, TSTAT_WAITING

LEMMA Dispatches ==
  ASSUME NEW k, Sound(k), ~k.interrupt, ~k.ticking, ~k.locked, NEW m, m = dispatch(k)
  PROVE  Core(m) /\ m.runtsk = k.schedtsk /\ m.cfg = k.cfg
<1>1. PICK a : a = [k EXCEPT !.runtsk = k.schedtsk, !.ret = FALSE]
  OBVIOUS
<1>2. PICK b : b = Resumed(a)
  OBVIOUS
<1>3. m = calltex(b)
  BY <1>1, <1>2 DEF dispatch
<1>4. Shape(k)
  BY SoundShape
<1>5. Switched(a, k) /\ a.runtsk = k.schedtsk /\ Unasked(a)
  BY <1>1, <1>4 DEF Switched, Shape, Fields, Switches, Flags, Same, Unasked
<1>6. Shape(a) /\ Alike(a, k) /\ a.tcb = k.tcb /\ a.schedtsk = k.schedtsk
  BY <1>4, <1>5, SwitchedAlike
<1>7. \/ a.runtsk = NULL
      \/ a.runtsk \in Task /\ TSTAT_RUNNABLE(a, a.runtsk) /\ ~TSTAT_WAITING(a, a.runtsk)
  BY <1>5, <1>6, SchedtskRuns DEF TSTAT_RUNNABLE, TSTAT_WAITING
<1>8. Shape(b) /\ Alike(b, a) /\ Same(b, a, {"tcb"})
  BY <1>2, <1>6, <1>7, ResumedIs
<1>9. b.runtsk = a.runtsk
  BY <1>8 DEF Same, Fields
<1>10. /\ Shape(m) /\ Alike(m, b) /\ Same(m, b, {"tcb"})
       /\ b.runtsk # NULL => ~(m.tcb[b.runtsk].enatex /\ m.tcb[b.runtsk].texptn)
  BY <1>3, <1>7, <1>8, <1>9, CalltexIs
<1>11. Same(m, a, {"tcb"})
  BY <1>8, <1>10 DEF Same
<1>12. /\ m.runtsk = k.schedtsk /\ m.schedtsk = k.schedtsk /\ m.ret = a.ret
       /\ m.interrupt = a.interrupt /\ m.ticking = a.ticking /\ m.locked = a.locked /\ m.cfg = a.cfg
  BY <1>5, <1>6, <1>11 DEF Same, Fields
<1>13. /\ ~m.interrupt /\ ~m.ticking /\ ~m.locked /\ Unasked(m) /\ m.cfg = k.cfg
  <2>1. a.interrupt = k.interrupt /\ a.ticking = k.ticking /\ a.locked = k.locked /\ a.cfg = k.cfg
    BY <1>1, <1>4 DEF Shape, Fields
  <2> QED BY <1>5, <1>12, <2>1 DEF Unasked
<1>14. Alike(b, k)
  BY <1>6, <1>8, AlikeAlike
<1>15. Alike(m, k)
  BY <1>10, <1>14, AlikeAlike
<1>16. Sound(m)
  BY <1>10, <1>15, AlikeSound
<1>17. m.runtsk # NULL => m.runtsk \in Task /\ TSTAT_RUNNABLE(m, m.runtsk)
  BY <1>5, <1>7, <1>12, <1>15, SchedtskRuns DEF Alike, TSTAT_RUNNABLE
<1>18. Control(m)
  BY <1>5, <1>9, <1>10, <1>12, <1>13, <1>17 DEF Control
<1> QED BY <1>12, <1>13, <1>16, <1>18 DEF Core

--------------------------------------------------------------------------------
(* How a service ends. *)

LEMMA DoesEnds ==
  ASSUME NEW k, Caller(k, k.runtsk), NEW m, Does(m, k)
  PROVE  Ends(m, k)
<1>1. CASE Serves(m, k)
  <2>1. PICK t \in Task : Keeps(m, k, t)
    BY <1>1 DEF Serves
  <2>2. Sound(m) /\ Calm(m, k, t) /\ Asks(m, k) /\ (TSTAT_RUNNABLE(k, t) => TSTAT_RUNNABLE(m, t))
    BY <2>1 DEF Keeps
  <2> QED BY <2>2 DEF Ends, Caller
<1>2. CASE Dozes(m, k)
  <2>1. Sound(m) /\ Calm(m, k, k.runtsk) /\ Asked(m)
    BY <1>2 DEF Dozes
  <2>2. Asks(m, k)
    BY <2>1 DEF Asks, Asked
  <2> QED BY <2>1, <2>2 DEF Ends, Caller
<1> QED BY <1>1, <1>2 DEF Does

LEMMA KeepsEnds ==
  ASSUME NEW k, NEW t \in Task, NEW m, Keeps(m, k, t)
  PROVE  Serves(m, k) /\ Does(m, k)
BY DEF Serves, Does

\* The task goes on: it should, and it has no exception to take.
GoesOn(m, k) ==
  /\ m.runtsk = k.runtsk /\ m.interrupt = k.interrupt /\ m.ticking = k.ticking
  /\ m.locked = k.locked /\ m.enadsp = k.enadsp /\ m.reqflg = k.reqflg /\ m.cfg = k.cfg
  /\ k.runtsk \in Task /\ m.tcb[k.runtsk].enatex /\ m.tcb[k.runtsk].texptn =>
       k.tcb[k.runtsk].enatex /\ k.tcb[k.runtsk].texptn

LEMMA CalmGoesOn ==
  ASSUME NEW k, NEW t, NEW m, Calm(m, k, t)
  PROVE  /\ GoesOn(m, k)
         /\ k.runtsk \in Task /\ k.runtsk # t => m.tcb[k.runtsk] = k.tcb[k.runtsk]
<1>1. /\ m.runtsk = k.runtsk /\ m.interrupt = k.interrupt /\ m.ticking = k.ticking
      /\ m.locked = k.locked /\ m.enadsp = k.enadsp /\ m.reqflg = k.reqflg /\ m.cfg = k.cfg
  BY DEF Calm, Same, Fields
<1>2. k.runtsk \in Task /\ k.runtsk # t => m.tcb[k.runtsk] = k.tcb[k.runtsk]
  BY DEF Calm
<1> QED BY <1>1, <1>2 DEF GoesOn, Calm

LEMMA DispatchedCore ==
  ASSUME NEW k, Core(k), ~k.interrupt, ~k.locked, NEW m, Ends(m, k), NEW n, n = Dispatched(m)
  PROVE  Core(n)
<1>1. PICK t \in Task : /\ Sound(m) /\ Calm(m, k, t) /\ Asks(m, k)
                        /\ t = k.runtsk => TSTAT_RUNNABLE(m, t) \/ Asked(m)
  BY DEF Ends
<1>2. GoesOn(m, k) /\ (k.runtsk \in Task /\ k.runtsk # t => m.tcb[k.runtsk] = k.tcb[k.runtsk])
  BY <1>1, CalmGoesOn
<1>3. ~m.interrupt /\ ~m.locked /\ ~m.ticking
  BY <1>2 DEF GoesOn, Core, Control
<1>4. CASE m.ret
  <2>1. n = dispatch(m)
    BY <1>4 DEF Dispatched
  <2> QED BY <1>1, <1>3, <2>1, Dispatches
<1>5. CASE ~m.ret
  <2>1. n = m
    BY <1>5 DEF Dispatched
  <2>2. Unasked(m)
    BY <1>1, <1>5, SoundShape DEF Unasked, Shape, Flags
  <2>3. ~Asked(m)
    BY <1>5 DEF Asked
  <2>4. m.runtsk # NULL => m.runtsk \in Task /\ TSTAT_RUNNABLE(m, m.runtsk)
    BY <1>1, <1>2, <2>3 DEF GoesOn, Core, Control, TSTAT_RUNNABLE
  <2>5. m.enadsp => m.runtsk = m.schedtsk
    BY <1>1, <1>2, <1>5 DEF GoesOn, Core, Control, Asks
  <2>6. m.runtsk # NULL => ~(m.tcb[m.runtsk].enatex /\ m.tcb[m.runtsk].texptn)
    BY <1>2, <2>4 DEF GoesOn, Core, Control
  <2>7. Control(m)
    BY <1>3, <2>2, <2>4, <2>5, <2>6 DEF Control
  <2> QED BY <1>1, <2>1, <2>7 DEF Core
<1> QED BY <1>4, <1>5

LEMMA RequestedIs ==
  ASSUME NEW k, Shape(k), NEW m, m = Requested(k)
  PROVE  /\ Switched(m, k) /\ Unasked(m) /\ m.reqflg = (k.reqflg \/ k.ret)
         /\ m.runtsk = k.runtsk /\ m.interrupt = k.interrupt /\ m.ticking = k.ticking
         /\ m.locked = k.locked /\ m.enadsp = k.enadsp /\ m.cfg = k.cfg
<1>1. k.reqflg \in BOOLEAN /\ k.ret \in BOOLEAN /\ \A f \in Flags : k[f] \in BOOLEAN
  BY DEF Shape, Flags
<1>2. /\ m = [f \in Fields |-> m[f]] /\ Same(m, k, {"reqflg", "ret"}) /\ Unasked(m)
      /\ m.reqflg = (k.reqflg \/ k.ret)
  BY DEF Requested, Shape, Fields, Same, Unasked
<1>3. m.reqflg \in BOOLEAN /\ m.ret \in BOOLEAN
  BY <1>1, <1>2 DEF Unasked
<1>4. \A f \in Fields \ {"reqflg", "ret"} : m[f] = k[f]
  BY <1>2 DEF Same
<1>5. \A f \in Flags : m[f] \in BOOLEAN
  BY <1>1, <1>3, <1>4 DEF Flags, Fields
<1>6. Switched(m, k)
  BY <1>2, <1>4, <1>5 DEF Switched, Same, Switches
<1>7. /\ m.runtsk = k.runtsk /\ m.interrupt = k.interrupt /\ m.ticking = k.ticking
      /\ m.locked = k.locked /\ m.enadsp = k.enadsp /\ m.cfg = k.cfg
  BY <1>4 DEF Fields
<1> QED BY <1>2, <1>6, <1>7

\* A service of an interrupt handler, and a time event.
LEMMA RequestedCore ==
  ASSUME NEW k, Control(k), k.interrupt, NEW t \in Task, NEW m, Keeps(m, k, t),
         NEW n, n = Requested(m)
  PROVE  Core(n)
<1>1. Sound(m) /\ Calm(m, k, t) /\ Asks(m, k) /\ (TSTAT_RUNNABLE(k, t) => TSTAT_RUNNABLE(m, t))
  BY DEF Keeps
<1>2. GoesOn(m, k) /\ (k.runtsk \in Task /\ k.runtsk # t => m.tcb[k.runtsk] = k.tcb[k.runtsk])
  BY <1>1, CalmGoesOn
<1>3. Shape(m)
  BY <1>1, SoundShape
<1>4. /\ Switched(n, m) /\ Unasked(n) /\ n.reqflg = (m.reqflg \/ m.ret)
      /\ n.runtsk = m.runtsk /\ n.interrupt = m.interrupt /\ n.ticking = m.ticking
      /\ n.locked = m.locked /\ n.enadsp = m.enadsp /\ n.cfg = m.cfg
  BY <1>3, RequestedIs
<1>5. Shape(n) /\ Alike(n, m) /\ n.tcb = m.tcb /\ n.schedtsk = m.schedtsk
  BY <1>3, <1>4, SwitchedAlike
<1>6. Sound(n)
  BY <1>1, <1>5, AlikeSound
<1>7. n.runtsk # NULL => n.runtsk \in Task /\ TSTAT_RUNNABLE(n, n.runtsk)
  BY <1>1, <1>2, <1>4, <1>5 DEF GoesOn, Control, TSTAT_RUNNABLE
<1>8. n.enadsp /\ n.runtsk # NULL /\ ~n.reqflg => n.runtsk = n.schedtsk
  BY <1>1, <1>2, <1>4, <1>5 DEF GoesOn, Control, Asks
<1>9. ~n.reqflg /\ n.runtsk # NULL => ~(n.tcb[n.runtsk].enatex /\ n.tcb[n.runtsk].texptn)
  BY <1>2, <1>4, <1>5, <1>7 DEF GoesOn, Control
<1>10. n.interrupt /\ (n.ticking => n.interrupt) /\ ~n.locked
  BY <1>2, <1>4 DEF GoesOn, Control
<1>11. Control(n)
  BY <1>4, <1>7, <1>8, <1>9, <1>10 DEF Control
<1> QED BY <1>6, <1>11 DEF Core

\* The task that exits.
LEMMA SwitchSound ==
  ASSUME NEW k, Sound(k), NEW m, Switched(m, k)
  PROVE  Sound(m) /\ m.schedtsk = k.schedtsk /\ m.tcb = k.tcb
BY SoundShape, SwitchedAlike, AlikeSound

LEMMA ExtTskCore ==
  ASSUME NEW k, Core(k), ~k.interrupt, k.runtsk # NULL, NEW m, m = ext_tsk(k)
  PROVE  Core(m)
<1>1. Sound(k) /\ Shape(k) /\ k.runtsk \in Task /\ TSTAT_RUNNABLE(k, k.runtsk) /\ ~k.ticking
  BY SoundShape DEF Core, Control
<1>2. PICK a : a = [k EXCEPT !.enadsp = TRUE, !.locked = FALSE]
  OBVIOUS
<1>3. /\ a = [f \in Fields |-> a[f]] /\ Same(a, k, {"enadsp", "locked"})
      /\ a.enadsp = TRUE /\ ~a.locked /\ a.locked \in BOOLEAN
  BY <1>1, <1>2 DEF Shape, Fields, Same
<1>4. a.runtsk = k.runtsk /\ ~a.interrupt /\ ~a.ticking
  BY <1>1, <1>3 DEF Same, Fields
<1>5. \A f \in Flags : a[f] \in BOOLEAN
  BY <1>1, <1>3 DEF Same, Fields, Flags, Shape
<1>6. Switched(a, k)
  BY <1>3, <1>5 DEF Switched, Same, Switches
<1>7. Sound(a) /\ a.tcb = k.tcb
  BY <1>1, <1>6, SwitchSound
<1>8. PICK t : t = a.runtsk
  OBVIOUS
<1>9. Caller(a, t)
  BY <1>1, <1>4, <1>7, <1>8 DEF Caller, TSTAT_RUNNABLE
<1>10. PICK b : b = Reactivate(make_dormant(make_non_runnable(a, t), t), t)
  OBVIOUS
<1>11. Sound(b) /\ Calm(b, a, t)
  BY <1>7, <1>9, <1>10, Exits
<1>12. ~b.interrupt /\ ~b.ticking /\ ~b.locked
  BY <1>3, <1>4, <1>11, CalmGoesOn DEF GoesOn
<1>13. m = dispatch(b)
  BY <1>2, <1>8, <1>10 DEF ext_tsk, exit_task
<1> QED BY <1>11, <1>12, <1>13, Dispatches

--------------------------------------------------------------------------------
(* Task exceptions. *)

Tex == {"enatex", "texptn", "texnest"}

BlockPut(m, k, t, b) == m = [k EXCEPT !.tcb[t] = b]
TexKept(b, k, t) == Block(b) /\ \A f \in Blocks \ Tex : b[f] = k.tcb[t][f]

LEMMA PutWell ==
  ASSUME NEW k, Shape(k), NEW t \in Task, NEW b, TexKept(b, k, t), NEW m, BlockPut(m, k, t, b)
  PROVE  Shape(m) /\ Alike(m, k) /\ Same(m, k, {"tcb"}) /\ m.tcb[t] = b
         /\ \A u \in Task \ {t} : m.tcb[u] = k.tcb[u]
<1>1. /\ m = [f \in Fields |-> m[f]] /\ Same(m, k, {"tcb"})
      /\ m.tcb = [u \in Task |-> m.tcb[u]] /\ \A u \in Task \ {t} : m.tcb[u] = k.tcb[u]
      /\ m.tcb[t] = b
  BY DEF BlockPut, Shape, Fields, Same
<1>2. BlockRewritten(m, k, t, Tex)
  BY <1>1 DEF TexKept, BlockRewritten
<1>3. Shape(m) /\ Alike(m, k)
  BY <1>2, RewrittenAlike DEF Tex
<1> QED BY <1>1, <1>3

Settled(b, e, p) == b.enatex = e /\ b.texptn = p

LEMMA TexFields ==
  ASSUME NEW k, Shape(k), NEW t \in Task, NEW b, NEW e \in BOOLEAN, NEW p \in BOOLEAN, NEW n,
         b = [k.tcb[t] EXCEPT !.enatex = e, !.texptn = p, !.texnest = n]
  PROVE  TexKept(b, k, t) /\ Settled(b, e, p)
<1>1. PICK c : c = k.tcb[t]
  OBVIOUS
<1>2. Block(c) /\ b = [c EXCEPT !.enatex = e, !.texptn = p, !.texnest = n]
  BY <1>1 DEF Shape
<1>3. /\ b = [f \in Blocks |-> b[f]] /\ b.priority = c.priority
      /\ b.enatex \in BOOLEAN /\ b.texptn \in BOOLEAN /\ Settled(b, e, p)
      /\ \A f \in Blocks \ Tex : b[f] = c[f]
  BY <1>2 DEF Block, Blocks, Tex, Settled
<1>4. Block(b)
  BY <1>2, <1>3 DEF Block
<1>5. \A f \in Blocks \ Tex : b[f] = k.tcb[t][f]
  BY <1>1, <1>3
<1> QED BY <1>3, <1>4, <1>5 DEF TexKept

\* Each write of these services.
Writes(m, k, t, e, p) ==
  \E n : BlockPut(m, k, t, [k.tcb[t] EXCEPT !.enatex = e, !.texptn = p, !.texnest = n])
Boolean(e, p) == e \in BOOLEAN /\ p \in BOOLEAN
Written(m, k, t, e, p) ==
  /\ Shape(m) /\ Alike(m, k) /\ Same(m, k, {"tcb"})
  /\ \A u \in Task \ {t} : m.tcb[u] = k.tcb[u]
  /\ Settled(m.tcb[t], e, p)

LEMMA TexWrites ==
  ASSUME NEW k, Shape(k), NEW t \in Task, NEW e, NEW p, Boolean(e, p),
         NEW m, Writes(m, k, t, e, p)
  PROVE  Written(m, k, t, e, p)
<1>1. PICK n : BlockPut(m, k, t, [k.tcb[t] EXCEPT !.enatex = e, !.texptn = p, !.texnest = n])
  BY DEF Writes
<1>2. PICK b : b = [k.tcb[t] EXCEPT !.enatex = e, !.texptn = p, !.texnest = n]
  OBVIOUS
<1>3. e \in BOOLEAN /\ p \in BOOLEAN
  BY DEF Boolean
<1>4. TexKept(b, k, t) /\ Settled(b, e, p)
  BY <1>2, <1>3, TexFields
<1>5. BlockPut(m, k, t, b)
  BY <1>1, <1>2
<1>6. /\ Shape(m) /\ Alike(m, k) /\ Same(m, k, {"tcb"}) /\ m.tcb[t] = b
      /\ \A u \in Task \ {t} : m.tcb[u] = k.tcb[u]
  BY <1>4, <1>5, PutWell
<1> QED BY <1>4, <1>6 DEF Written

\* Its exceptions are taken.
Taken(m, k) == /\ Shape(m) /\ Alike(m, k) /\ Same(m, k, {"tcb"})
               /\ k.runtsk # NULL => ~(m.tcb[k.runtsk].enatex /\ m.tcb[k.runtsk].texptn)

LEMMA AlikeSchedtsk ==
  ASSUME NEW k, NEW m, Alike(m, k)
  PROVE  m.schedtsk = k.schedtsk /\ \A t \in Task : m.tcb[t].tstat = k.tcb[t].tstat
BY DEF Alike, Same, Fields, Switches

LEMMA TakenCore ==
  ASSUME NEW k, Core(k), ~k.interrupt, NEW m, Taken(m, k)
  PROVE  Core(m) /\ Dispatched(m) = m
<1>1. Shape(m) /\ Alike(m, k) /\ Same(m, k, {"tcb"}) /\ Sound(k) /\ Control(k)
  BY DEF Taken, Core
<1>2. Sound(m)
  BY <1>1, AlikeSound
<1>3. m.schedtsk = k.schedtsk /\ \A t \in Task : m.tcb[t].tstat = k.tcb[t].tstat
  BY <1>1, AlikeSchedtsk
<1>4. /\ m.runtsk = k.runtsk /\ m.interrupt = k.interrupt /\ m.ticking = k.ticking
      /\ m.locked = k.locked /\ m.enadsp = k.enadsp /\ m.reqflg = k.reqflg /\ m.ret = k.ret
  BY <1>1 DEF Same, Fields
<1>5. Control(m)
  BY <1>1, <1>3, <1>4 DEF Control, Taken, TSTAT_RUNNABLE, Unasked
<1>6. Dispatched(m) = m
  BY <1>5 DEF Control, Dispatched, Unasked
<1> QED BY <1>2, <1>5, <1>6 DEF Core

LEMMA CalltexTakes ==
  ASSUME NEW k, k.runtsk = NULL \/ k.runtsk \in Task,
         NEW a, Shape(a), Alike(a, k), Same(a, k, {"tcb"}), NEW m, m = calltex(a)
  PROVE  Taken(m, k)
<1>1. a.runtsk = k.runtsk
  BY DEF Same, Fields
<1>2. /\ Shape(m) /\ Alike(m, a) /\ Same(m, a, {"tcb"})
      /\ a.runtsk # NULL => ~(m.tcb[a.runtsk].enatex /\ m.tcb[a.runtsk].texptn)
  BY <1>1, CalltexIs
<1>3. Alike(m, k)
  BY <1>2, AlikeAlike
<1>4. Same(m, k, {"tcb"})
  BY <1>2 DEF Same
<1> QED BY <1>1, <1>2, <1>3, <1>4 DEF Taken

LEMMA Raised ==
  ASSUME NEW k, Shape(k), NEW t \in Task, NEW m, m = RaiseException(k, t)
  PROVE  Written(m, k, t, k.tcb[t].enatex, TRUE)
<1>1. PICK b : b = k.tcb[t]
  OBVIOUS
<1>2. Block(b)
  BY <1>1 DEF Shape
<1>3. [b EXCEPT !.texptn = TRUE] =
        [b EXCEPT !.enatex = b.enatex, !.texptn = TRUE, !.texnest = b.texnest]
  BY <1>2 DEF Block, Blocks
<1>4. m = [k EXCEPT !.tcb[t] = [b EXCEPT !.texptn = TRUE]]
  BY <1>1 DEF RaiseException
<1>5. Writes(m, k, t, k.tcb[t].enatex, TRUE)
  BY <1>1, <1>3, <1>4 DEF BlockPut, Writes
<1>6. Boolean(k.tcb[t].enatex, TRUE)
  BY <1>1, <1>2 DEF Block, Boolean
<1> QED BY <1>5, <1>6, TexWrites, Zenon

LEMMA RasTexCore ==
  ASSUME NEW k, Core(k), ~k.interrupt, NEW t \in Task, NEW m, m = Dispatched(ras_tex(k, t))
  PROVE  Core(m)
<1>1. PICK a : a = RaiseException(k, t)
  OBVIOUS
<1>2. Shape(k) /\ (k.runtsk = NULL \/ k.runtsk \in Task)
  BY SoundShape DEF Core, Control
<1>3. Shape(a) /\ Alike(a, k) /\ Same(a, k, {"tcb"})
  BY <1>1, <1>2, Raised DEF Written
<1>4. PICK n : n = calltex(a)
  OBVIOUS
<1>5. Taken(n, k)
  BY <1>2, <1>3, <1>4, CalltexTakes
<1>6. m = Dispatched(n)
  BY <1>1, <1>4 DEF ras_tex
<1> QED BY <1>5, <1>6, TakenCore

EnatexSet(m, k, t, e) == m = [k EXCEPT !.tcb[t].enatex = e]

LEMMA EnatexWritten ==
  ASSUME NEW k, Shape(k), NEW t \in Task, NEW e, e \in BOOLEAN, NEW m, EnatexSet(m, k, t, e)
  PROVE  Written(m, k, t, e, k.tcb[t].texptn)
<1>1. PICK b : b = k.tcb[t]
  OBVIOUS
<1>2. Block(b)
  BY <1>1 DEF Shape
<1>3. [b EXCEPT !.enatex = e] =
        [b EXCEPT !.enatex = e, !.texptn = b.texptn, !.texnest = b.texnest]
  BY <1>2 DEF Block, Blocks
<1>4. m = [k EXCEPT !.tcb[t] = [b EXCEPT !.enatex = e]]
  BY <1>1 DEF EnatexSet
<1>5. Writes(m, k, t, e, k.tcb[t].texptn)
  BY <1>1, <1>3, <1>4 DEF BlockPut, Writes
<1>6. Boolean(e, k.tcb[t].texptn)
  BY <1>1, <1>2 DEF Block, Boolean
<1> QED BY <1>5, <1>6, TexWrites, Zenon

LEMMA DisTexCore ==
  ASSUME NEW k, Core(k), ~k.interrupt, k.runtsk # NULL, NEW m, m = Dispatched(dis_tex(k))
  PROVE  Core(m)
<1>1. PICK a : a = dis_tex(k)
  OBVIOUS
<1>2. Shape(k) /\ k.runtsk \in Task
  BY SoundShape DEF Core, Control
<1>3. EnatexSet(a, k, k.runtsk, FALSE) /\ FALSE \in BOOLEAN
  BY <1>1 DEF dis_tex, EnatexSet
<1>4. Written(a, k, k.runtsk, FALSE, k.tcb[k.runtsk].texptn)
  BY <1>2, <1>3, EnatexWritten, Zenon
<1>5. Taken(a, k)
  BY <1>4 DEF Written, Settled, Taken
<1> QED BY <1>1, <1>5, TakenCore

LEMMA EnaTexCore ==
  ASSUME NEW k, Core(k), ~k.interrupt, k.runtsk # NULL, NEW m, m = Dispatched(ena_tex(k))
  PROVE  Core(m)
<1>1. PICK a : a = [k EXCEPT !.tcb[k.runtsk].enatex = TRUE]
  OBVIOUS
<1>2. Shape(k) /\ k.runtsk \in Task
  BY SoundShape DEF Core, Control
<1>3. EnatexSet(a, k, k.runtsk, TRUE) /\ TRUE \in BOOLEAN
  BY <1>1 DEF EnatexSet
<1>7. Written(a, k, k.runtsk, TRUE, k.tcb[k.runtsk].texptn)
  BY <1>2, <1>3, EnatexWritten, Zenon
<1>4. PICK n : n = calltex(a)
  OBVIOUS
<1>5. Taken(n, k)
  BY <1>2, <1>4, <1>7, CalltexTakes DEF Written
<1>6. m = Dispatched(n)
  BY <1>1, <1>4 DEF ena_tex
<1> QED BY <1>5, <1>6, TakenCore

\* The two ends of an exception routine.
LEMMA ReturnedTakes ==
  ASSUME NEW k, Shape(k), k.runtsk \in Task, NEW m, m = TexReturned(k)
  PROVE  Taken(m, k)
<1>1. PICK t : t = k.runtsk
  OBVIOUS
<1>2. PICK b : b = k.tcb[k.runtsk]
  OBVIOUS
<1>3. Block(b)
  BY <1>2 DEF Shape
<1>4. CASE b.texptn
  <2>1. [b EXCEPT !.enatex = FALSE, !.texptn = FALSE] =
          [b EXCEPT !.enatex = FALSE, !.texptn = FALSE, !.texnest = b.texnest]
    BY <1>3 DEF Block, Blocks
  <2>2. m = [k EXCEPT !.tcb[k.runtsk] = [b EXCEPT !.enatex = FALSE, !.texptn = FALSE]]
    BY <1>2, <1>4 DEF TexReturned
  <2>3. Writes(m, k, k.runtsk, FALSE, FALSE)
    BY <1>2, <2>1, <2>2 DEF BlockPut, Writes
  <2>4. Boolean(FALSE, FALSE)
    BY DEF Boolean
  <2>5. Written(m, k, k.runtsk, FALSE, FALSE)
    BY <2>3, <2>4, TexWrites, Zenon
  <2> QED BY <2>5 DEF Written, Settled, Taken
<1>5. CASE ~b.texptn
  <2>1. [b EXCEPT !.enatex = TRUE, !.texnest = b.texnest - 1] =
          [b EXCEPT !.enatex = TRUE, !.texptn = FALSE, !.texnest = b.texnest - 1]
    BY <1>3, <1>5 DEF Block, Blocks
  <2>2. m = [k EXCEPT !.tcb[k.runtsk] = [b EXCEPT !.enatex = TRUE, !.texnest = b.texnest - 1]]
    BY <1>2, <1>5 DEF TexReturned
  <2>3. Writes(m, k, k.runtsk, TRUE, FALSE)
    BY <1>2, <2>1, <2>2 DEF BlockPut, Writes
  <2>4. Boolean(TRUE, FALSE)
    BY DEF Boolean
  <2>5. Written(m, k, k.runtsk, TRUE, FALSE)
    BY <2>3, <2>4, TexWrites, Zenon
  <2> QED BY <2>5 DEF Written, Settled, Taken
<1> QED BY <1>4, <1>5

--------------------------------------------------------------------------------
(* Switches. *)

\* Only flags are written.
Flagged(m, k) ==
  /\ m = [f \in Fields |-> m[f]] /\ \A f \in Fields \ Flags : m[f] = k[f]
  /\ \A f \in Flags : m[f] \in BOOLEAN

LEMMA FlaggedSound ==
  ASSUME NEW k, Sound(k), NEW m, Flagged(m, k)
  PROVE  Sound(m) /\ m.schedtsk = k.schedtsk /\ m.tcb = k.tcb /\ m.runtsk = k.runtsk
         /\ m.cfg = k.cfg
<1>1. m.runtsk = k.runtsk /\ m.cfg = k.cfg
  BY DEF Flagged, Fields, Flags
<1>2. Flags \subseteq Switches
  BY DEF Flags, Switches
<1>3. Switched(m, k)
  BY <1>2 DEF Flagged, Switched, Same
<1> QED BY <1>1, <1>3, SwitchSound

\* What each of the writes leaves.
Set(m, k, F) == m = [f \in Fields |-> m[f]] /\ Same(m, k, F)

LEMMA SetFlagged ==
  ASSUME NEW k, Shape(k), NEW F, F \subseteq Flags, NEW m, Set(m, k, F), \A f \in F :
         m[f] \in BOOLEAN
  PROVE  Flagged(m, k) /\ \A f \in Flags \ F : m[f] = k[f]
<1>1. Flags \subseteq Fields
  BY DEF Flags, Fields
<1>2. \A f \in Flags \ F : m[f] = k[f]
  BY <1>1 DEF Set, Same
<1>3. \A f \in Flags : m[f] \in BOOLEAN
  BY <1>2 DEF Shape
<1> QED BY <1>2, <1>3 DEF Flagged, Set, Same

LEMMA LocksCore ==
  ASSUME NEW k, Core(k), ~k.interrupt, NEW m, Set(m, k, {"locked"}), m.locked \in BOOLEAN,
         m.locked => k.runtsk # NULL
  PROVE  Core(m) /\ Dispatched(m) = m
<1>1. Sound(k) /\ Shape(k) /\ Control(k)
  BY SoundShape DEF Core
<1>2. {"locked"} \subseteq Flags /\ \A f \in {"locked"} : m[f] \in BOOLEAN
  BY DEF Flags
<1>3. Flagged(m, k) /\ \A f \in Flags \ {"locked"} : m[f] = k[f]
  BY <1>1, <1>2, SetFlagged
<1>4. Sound(m) /\ m.schedtsk = k.schedtsk /\ m.tcb = k.tcb /\ m.runtsk = k.runtsk
  BY <1>1, <1>3, FlaggedSound
<1>5. /\ m.interrupt = k.interrupt /\ m.ticking = k.ticking /\ m.enadsp = k.enadsp
      /\ m.reqflg = k.reqflg /\ m.ret = k.ret
  BY <1>3 DEF Flags
<1>6. Control(m)
  BY <1>1, <1>4, <1>5 DEF Control, TSTAT_RUNNABLE, Unasked
<1> QED BY <1>4, <1>6 DEF Core, Control, Dispatched, Unasked

LEMMA TexReturnCore ==
  ASSUME NEW k, Core(k), ~k.interrupt, k.runtsk # NULL,
         NEW m, m = [TexReturned(k) EXCEPT !.locked = FALSE]
  PROVE  Core(m)
<1>1. PICK a : a = TexReturned(k)
  OBVIOUS
<1>2. Shape(k) /\ k.runtsk \in Task
  BY SoundShape DEF Core, Control
<1>3. Taken(a, k)
  BY <1>1, <1>2, ReturnedTakes
<1>4. Core(a) /\ ~a.interrupt /\ Shape(a)
  <2>1. Core(a)
    BY <1>3, TakenCore
  <2> QED BY <1>3, <2>1 DEF Taken, Same, Fields
<1>5. Set(m, a, {"locked"}) /\ ~m.locked /\ m.locked \in BOOLEAN
  BY <1>1, <1>4 DEF Shape, Fields, Set, Same
<1> QED BY <1>4, <1>5, LocksCore

LEMMA LocCpuCore ==
  ASSUME NEW k, Core(k), ~k.interrupt, k.runtsk # NULL,
         NEW m, m = Dispatched(loc_cpu(k)) \/ m = Dispatched(unl_cpu(k))
  PROVE  Core(m)
<1>1. PICK n : (n = loc_cpu(k) \/ n = unl_cpu(k)) /\ m = Dispatched(n)
  OBVIOUS
<1>2. Shape(k)
  BY SoundShape DEF Core
<1>3. Set(n, k, {"locked"}) /\ n.locked \in BOOLEAN
  BY <1>1, <1>2 DEF loc_cpu, unl_cpu, Shape, Fields, Set, Same
<1> QED BY <1>1, <1>3, LocksCore

LEMMA DisDspCore ==
  ASSUME NEW k, Core(k), ~k.interrupt, NEW m, m = Dispatched(dis_dsp(k))
  PROVE  Core(m)
<1>1. PICK n : n = dis_dsp(k) /\ m = Dispatched(n)
  OBVIOUS
<1>2. Sound(k) /\ Shape(k) /\ Control(k)
  BY SoundShape DEF Core
<1>3. Set(n, k, {"enadsp"}) /\ ~n.enadsp /\ n.enadsp \in BOOLEAN
  BY <1>1, <1>2 DEF dis_dsp, Shape, Fields, Set, Same
<1>4. {"enadsp"} \subseteq Flags /\ \A f \in {"enadsp"} : n[f] \in BOOLEAN
  BY <1>3 DEF Flags
<1>5. Flagged(n, k) /\ \A f \in Flags \ {"enadsp"} : n[f] = k[f]
  BY <1>2, <1>3, <1>4, SetFlagged
<1>6. Sound(n) /\ n.schedtsk = k.schedtsk /\ n.tcb = k.tcb /\ n.runtsk = k.runtsk
  BY <1>2, <1>5, FlaggedSound
<1>7. /\ n.interrupt = k.interrupt /\ n.ticking = k.ticking /\ n.locked = k.locked
      /\ n.reqflg = k.reqflg /\ n.ret = k.ret
  BY <1>5 DEF Flags
<1>8. Control(n)
  BY <1>2, <1>3, <1>6, <1>7 DEF Control, TSTAT_RUNNABLE, Unasked
<1> QED BY <1>1, <1>6, <1>8 DEF Core, Control, Dispatched, Unasked

LEMMA EnaDspCore ==
  ASSUME NEW k, Core(k), ~k.interrupt, ~k.locked, NEW m, m = Dispatched(ena_dsp(k))
  PROVE  Core(m)
<1>1. PICK n : n = ena_dsp(k) /\ m = Dispatched(n)
  OBVIOUS
<1>2. Sound(k) /\ Shape(k) /\ Control(k)
  BY SoundShape DEF Core
<1>3. Set(n, k, {"enadsp", "ret"}) /\ n.enadsp \in BOOLEAN /\ n.ret \in BOOLEAN
      /\ (n.ret <=> k.runtsk # k.schedtsk)
  BY <1>1, <1>2 DEF ena_dsp, Shape, Fields, Set, Same
<1>4. {"enadsp", "ret"} \subseteq Flags /\ \A f \in {"enadsp", "ret"} : n[f] \in BOOLEAN
  BY <1>3 DEF Flags
<1>5. Flagged(n, k) /\ \A f \in Flags \ {"enadsp", "ret"} : n[f] = k[f]
  BY <1>2, <1>3, <1>4, SetFlagged
<1>6. Sound(n) /\ n.schedtsk = k.schedtsk /\ n.tcb = k.tcb /\ n.runtsk = k.runtsk
  BY <1>2, <1>5, FlaggedSound
<1>7. /\ n.interrupt = k.interrupt /\ n.ticking = k.ticking /\ n.locked = k.locked
      /\ n.reqflg = k.reqflg
  BY <1>5 DEF Flags
<1>8. CASE n.ret
  <2>1. m = dispatch(n)
    BY <1>1, <1>8 DEF Dispatched
  <2>2. ~n.interrupt /\ ~n.ticking /\ ~n.locked
    BY <1>2, <1>7 DEF Control
  <2> QED BY <1>6, <2>1, <2>2, Dispatches
<1>9. CASE ~n.ret
  <2>1. m = n
    BY <1>1, <1>9 DEF Dispatched
  <2>2. Unasked(n)
    BY <1>3, <1>9 DEF Unasked
  <2>3. Control(n)
    BY <1>2, <1>3, <1>6, <1>7, <1>9, <2>2 DEF Control, TSTAT_RUNNABLE
  <2> QED BY <1>6, <2>1, <2>3 DEF Core
<1> QED BY <1>8, <1>9

\* An interrupt starts.
Starts(m, k) ==
  /\ Set(m, k, {"interrupt", "ticking"}) /\ m.interrupt = TRUE /\ m.ticking \in BOOLEAN

LEMMA InterruptCore ==
  ASSUME NEW k, Core(k), ~k.interrupt, ~k.locked, NEW m, Starts(m, k)
  PROVE  Core(m)
<1>1. Sound(k) /\ Shape(k) /\ Control(k)
  BY SoundShape DEF Core
<1>2. Set(m, k, {"interrupt", "ticking"}) /\ m.interrupt /\ m.interrupt \in BOOLEAN
      /\ m.ticking \in BOOLEAN
  BY DEF Starts
<1>3. {"interrupt", "ticking"} \subseteq Flags /\ \A f \in {"interrupt", "ticking"} :
        m[f] \in BOOLEAN
  BY <1>2 DEF Flags
<1>4. Flagged(m, k) /\ \A f \in Flags \ {"interrupt", "ticking"} : m[f] = k[f]
  BY <1>1, <1>2, <1>3, SetFlagged
<1>5. Sound(m) /\ m.schedtsk = k.schedtsk /\ m.tcb = k.tcb /\ m.runtsk = k.runtsk
  BY <1>1, <1>4, FlaggedSound
<1>6. /\ m.enadsp = k.enadsp /\ m.locked = k.locked /\ m.reqflg = k.reqflg /\ m.ret = k.ret
  BY <1>4 DEF Flags
<1>7. Control(m)
  BY <1>1, <1>2, <1>5, <1>6 DEF Control, TSTAT_RUNNABLE, Unasked
<1> QED BY <1>5, <1>7 DEF Core

LEMMA InterruptStarts ==
  ASSUME NEW k, Shape(k), NEW m,
         m = [k EXCEPT !.interrupt = TRUE] \/ m = [k EXCEPT !.interrupt = TRUE, !.ticking = TRUE]
  PROVE  Starts(m, k)
<1>1. k.ticking \in BOOLEAN
  BY DEF Shape, Flags
<1> QED BY <1>1 DEF Shape, Fields, Starts, Set, Same

\* The outermost interrupt ends.
LEMMA RetIntCore ==
  ASSUME NEW k, Core(k), k.interrupt, ~k.ticking, NEW m, m = ret_int([k EXCEPT !.interrupt = FALSE])
  PROVE  Core(m)
<1>1. PICK a : a = [k EXCEPT !.interrupt = FALSE]
  OBVIOUS
<1>2. PICK b : b = [a EXCEPT !.reqflg = FALSE]
  OBVIOUS
<1>3. Sound(k) /\ Shape(k) /\ Control(k)
  BY SoundShape DEF Core
<1>4. /\ Set(a, k, {"interrupt"}) /\ ~a.interrupt /\ a.interrupt \in BOOLEAN
      /\ Set(b, k, {"interrupt", "reqflg"}) /\ ~b.interrupt /\ b.interrupt \in BOOLEAN
      /\ ~b.reqflg /\ b.reqflg \in BOOLEAN
  BY <1>1, <1>2, <1>3 DEF Shape, Fields, Set, Same
<1>5. Flagged(a, k) /\ \A f \in Flags \ {"interrupt"} : a[f] = k[f]
  <2>1. {"interrupt"} \subseteq Flags /\ \A f \in {"interrupt"} : a[f] \in BOOLEAN
    BY <1>4 DEF Flags
  <2> QED BY <1>3, <1>4, <2>1, SetFlagged
<1>6. Flagged(b, k) /\ \A f \in Flags \ {"interrupt", "reqflg"} : b[f] = k[f]
  <2> DEFINE F == {"interrupt", "reqflg"}
  <2>1. F \subseteq Flags /\ \A f \in F : b[f] \in BOOLEAN
    BY <1>4 DEF Flags
  <2>2. Set(b, k, F)
    BY <1>4
  <2>3. Flagged(b, k) /\ \A f \in Flags \ F : b[f] = k[f]
    <3> HIDE DEF F
    <3> QED BY <1>3, <2>1, <2>2, SetFlagged
  <2> QED BY <2>3
<1>7. Sound(a) /\ a.schedtsk = k.schedtsk /\ a.tcb = k.tcb /\ a.runtsk = k.runtsk
  BY <1>3, <1>5, FlaggedSound
<1>8. Sound(b) /\ b.schedtsk = k.schedtsk /\ b.tcb = k.tcb /\ b.runtsk = k.runtsk
  BY <1>3, <1>6, FlaggedSound
<1>9. /\ a.enadsp = k.enadsp /\ a.locked = k.locked /\ a.reqflg = k.reqflg /\ a.ret = k.ret
      /\ a.ticking = k.ticking
  BY <1>5 DEF Flags
<1>10. b.enadsp = k.enadsp /\ b.locked = k.locked /\ b.ret = k.ret /\ b.ticking = k.ticking
  BY <1>6 DEF Flags
<1>11. ~k.locked
  BY <1>3 DEF Control
<1>12. CASE k.runtsk = NULL
  <2>1. m = dispatch(a)
    BY <1>1, <1>7, <1>12 DEF ret_int
  <2> QED BY <1>4, <1>7, <1>9, <1>11, <2>1, Dispatches
<1>13. CASE k.runtsk # NULL /\ ~k.reqflg
  <2>1. m = a
    BY <1>1, <1>7, <1>9, <1>13 DEF ret_int
  <2>2. Control(a)
    BY <1>3, <1>4, <1>7, <1>9, <1>11, <1>13 DEF Control, TSTAT_RUNNABLE, Unasked
  <2> QED BY <1>7, <2>1, <2>2 DEF Core
<1>14. CASE k.runtsk # NULL /\ k.reqflg /\ k.enadsp /\ k.schedtsk # k.runtsk
  <2>1. m = dispatch(b)
    BY <1>1, <1>2, <1>7, <1>9, <1>14 DEF ret_int
  <2> QED BY <1>4, <1>8, <1>10, <1>11, <2>1, Dispatches
<1>15. CASE k.runtsk # NULL /\ k.reqflg /\ ~(k.enadsp /\ k.schedtsk # k.runtsk)
  <2>1. m = calltex(b)
    BY <1>1, <1>2, <1>7, <1>9, <1>15 DEF ret_int
  <2>2. k.runtsk \in Task /\ Shape(b)
    BY <1>3, <1>8, <1>15, SoundShape DEF Control
  <2>3. /\ Shape(m) /\ Alike(m, b) /\ Same(m, b, {"tcb"})
        /\ ~(m.tcb[b.runtsk].enatex /\ m.tcb[b.runtsk].texptn)
    BY <1>8, <1>15, <2>1, <2>2, CalltexIs
  <2>4. Sound(m)
    BY <1>8, <2>3, AlikeSound
  <2>5. m.schedtsk = b.schedtsk /\ \A t \in Task : m.tcb[t].tstat = b.tcb[t].tstat
    BY <2>3, AlikeSchedtsk
  <2>6. /\ m.runtsk = b.runtsk /\ m.interrupt = b.interrupt /\ m.ticking = b.ticking
        /\ m.locked = b.locked /\ m.enadsp = b.enadsp /\ m.ret = b.ret
    BY <2>3 DEF Same, Fields
  <2>7. TSTAT_RUNNABLE(m, m.runtsk)
    BY <1>3, <1>8, <1>15, <2>2, <2>5, <2>6 DEF Control, TSTAT_RUNNABLE
  <2>8. Unasked(m)
    BY <1>3, <1>10, <2>6 DEF Control, Unasked
  <2>9. Control(m)
    BY <1>4, <1>8, <1>10, <1>11, <1>15, <2>2, <2>3, <2>5, <2>6, <2>7, <2>8 DEF Control
  <2> QED BY <2>4, <2>9 DEF Core
<1> QED BY <1>12, <1>13, <1>14, <1>15

\* An exception is raised in an interrupt: the task takes it when that ends.
LEMMA IrasTexCore ==
  ASSUME NEW k, Core(k), k.interrupt, NEW t \in Task, NEW m, m = Requested(iras_tex(k, t))
  PROVE  Core(m)
<1>1. PICK a : a = RaiseException(k, t)
  OBVIOUS
<1>2. PICK b : b = [a EXCEPT !.ret = t = k.runtsk /\ k.tcb[t].enatex]
  OBVIOUS
<1>3. Sound(k) /\ Shape(k) /\ Control(k)
  BY SoundShape DEF Core
<1>4. /\ Shape(a) /\ Alike(a, k) /\ Same(a, k, {"tcb"}) /\ a.tcb[t].enatex = k.tcb[t].enatex
      /\ \A u \in Task \ {t} : a.tcb[u] = k.tcb[u]
  <2>1. Written(a, k, t, k.tcb[t].enatex, TRUE)
    BY <1>1, <1>3, Raised, Zenon
  <2> QED BY <2>1 DEF Written, Settled
<1>5. Sound(a) /\ a.schedtsk = k.schedtsk
  BY <1>3, <1>4, AlikeSound
<1>6. Set(b, a, {"ret"}) /\ b.ret \in BOOLEAN /\ (t = k.runtsk /\ k.tcb[t].enatex => b.ret)
  <2>1. k.tcb[t].enatex \in BOOLEAN
    BY <1>3 DEF Shape, Block
  <2> QED BY <1>2, <1>4, <2>1 DEF Shape, Fields, Set, Same
<1>7. Flagged(b, a) /\ \A f \in Flags \ {"ret"} : b[f] = a[f]
  <2>1. {"ret"} \subseteq Flags /\ \A f \in {"ret"} : b[f] \in BOOLEAN
    BY <1>6 DEF Flags
  <2> QED BY <1>4, <1>6, <2>1, SetFlagged
<1>8. Sound(b) /\ b.schedtsk = a.schedtsk /\ b.tcb = a.tcb /\ b.runtsk = a.runtsk
  BY <1>5, <1>7, FlaggedSound
<1>9. /\ b.enadsp = a.enadsp /\ b.locked = a.locked /\ b.reqflg = a.reqflg
      /\ b.ticking = a.ticking /\ b.interrupt = a.interrupt
  BY <1>7 DEF Flags
<1>10. /\ a.runtsk = k.runtsk /\ a.interrupt = k.interrupt /\ a.ticking = k.ticking
       /\ a.locked = k.locked /\ a.enadsp = k.enadsp /\ a.reqflg = k.reqflg
  BY <1>4 DEF Same, Fields
<1>11. m = Requested(b) /\ Shape(b)
  BY <1>1, <1>2, <1>8, SoundShape DEF iras_tex
<1>12. /\ Switched(m, b) /\ Unasked(m) /\ m.reqflg = (b.reqflg \/ b.ret)
       /\ m.runtsk = b.runtsk /\ m.interrupt = b.interrupt /\ m.ticking = b.ticking
       /\ m.locked = b.locked /\ m.enadsp = b.enadsp
  BY <1>11, RequestedIs
<1>13. Sound(m) /\ m.schedtsk = b.schedtsk /\ m.tcb = b.tcb
  BY <1>8, <1>12, SwitchSound
<1>14. \A u \in Task : a.tcb[u].tstat = k.tcb[u].tstat
  BY <1>4, AlikeSchedtsk
<1>15. k.runtsk # NULL => k.runtsk \in Task /\ TSTAT_RUNNABLE(m, k.runtsk)
  BY <1>3, <1>8, <1>13, <1>14 DEF Control, TSTAT_RUNNABLE
<1>16. ~m.reqflg /\ k.runtsk # NULL => ~(m.tcb[k.runtsk].enatex /\ m.tcb[k.runtsk].texptn)
  <2>1. CASE k.runtsk = t
    <3>1. ~m.reqflg => ~b.ret
      BY <1>12
    <3>2. ~m.reqflg => ~k.tcb[t].enatex
      BY <1>6, <2>1, <3>1
    <3>3. m.tcb[t].enatex = k.tcb[t].enatex
      BY <1>4, <1>8, <1>13
    <3> QED BY <2>1, <3>2, <3>3
  <2>2. CASE k.runtsk # t
    <3>1. ~m.reqflg => ~k.reqflg
      BY <1>9, <1>10, <1>12
    <3>2. k.runtsk \in Task => m.tcb[k.runtsk] = k.tcb[k.runtsk]
      BY <1>4, <1>8, <1>13, <2>2
    <3> QED BY <1>3, <3>1, <3>2 DEF Control
  <2> QED BY <2>1, <2>2
<1>17. ~m.reqflg => ~k.reqflg
  BY <1>9, <1>10, <1>12
<1>18. /\ m.runtsk = k.runtsk /\ m.interrupt = k.interrupt /\ m.ticking = k.ticking
       /\ m.locked = k.locked /\ m.enadsp = k.enadsp /\ m.schedtsk = k.schedtsk
  BY <1>5, <1>8, <1>9, <1>10, <1>12, <1>13
<1>19. Control(m)
  BY <1>3, <1>12, <1>15, <1>16, <1>17, <1>18 DEF Control
<1> QED BY <1>13, <1>19 DEF Core

--------------------------------------------------------------------------------
(* Cyclic handlers and time events. *)

Quiet == {"heap", "index", "cycsta", "evttim", "current_time", "next_time"}

LEMMA QuietCore ==
  ASSUME NEW k, Control(k), NEW m, Same(m, k, Quiet)
  PROVE  Control(m) /\ Dispatched(m) = m /\ m.interrupt = k.interrupt
<1>1. /\ m.runtsk = k.runtsk /\ m.schedtsk = k.schedtsk /\ m.reqflg = k.reqflg /\ m.ret = k.ret
      /\ m.enadsp = k.enadsp /\ m.interrupt = k.interrupt /\ m.ticking = k.ticking
      /\ m.locked = k.locked /\ m.tcb = k.tcb
  BY DEF Same, Fields, Quiet
<1>2. Control(m)
  BY <1>1 DEF Control, TSTAT_RUNNABLE, Unasked
<1> QED BY <1>1, <1>2 DEF Control, Dispatched, Unasked

LEMMA CyclicMidFits ==
  ASSUME NEW k, NEW c \in Cyclic, NEW R, NEW C, NEW S, Mid(k, c, R, C, S), CyclicFits(k, c)
  PROVE  Fits(k, R, C, S)
BY Owners DEF Mid, Fits

\* Writes of the handler's block.
Marked(m, k, c) ==
  /\ m = [f \in Fields |-> m[f]] /\ Same(m, k, {"cycsta", "evttim"})
  /\ m.cycsta \in [Cyclic -> BOOLEAN] /\ m.evttim \in [Cyclic -> EVTTIM]
  /\ \A d \in Cyclic \ {c} : m.cycsta[d] = k.cycsta[d]

LEMMA MarkedKept ==
  ASSUME NEW k, NEW c \in Cyclic, NEW R, NEW C, NEW S, Mid(k, c, R, C, S), NEW m, Marked(m, k, c)
  PROVE  Mid(m, c, R, C, S) /\ Nodes(m, c) = Nodes(k, c) /\ Same(m, k, Quiet)
<1>1. Shape(k) /\ Sched(k, R) /\ Waits(k, C, S) /\ Events(k)
  BY DEF Mid, Base
<1>2. \A f \in Fields \ {"cycsta", "evttim"} : m[f] = k[f]
  BY DEF Marked, Same
<1>3. /\ m.ready_queue = k.ready_queue /\ m.ready_primap = k.ready_primap /\ m.schedtsk = k.schedtsk
      /\ m.cfg = k.cfg /\ m.tcb = k.tcb /\ m.obj = k.obj
      /\ m.heap = k.heap /\ m.index = k.index
      /\ m.current_time = k.current_time /\ m.next_time = k.next_time
  BY <1>2 DEF Fields
<1>4. \A f \in Flags : m[f] = k[f]
  BY <1>2 DEF Fields, Flags
<1>5. Shape(m)
  BY <1>1, <1>3, <1>4 DEF Shape, Marked
<1>6. Prio(m) = Prio(k)
  BY <1>3 DEF Prio
<1>7. Sched(m, R)
  BY <1>1, <1>3, <1>6, TheSchedule
<1>8. Waits(m, C, S)
  BY <1>1, <1>3, <1>6, TheWaits
<1>9. Due(m) = Due(k)
  BY <1>3, SameDue
<1>10. Heaped(m)
  BY <1>1, <1>3, <1>9 DEF Heaped, Events
<1>11. Events(m)
  BY <1>1, <1>3, <1>10 DEF Events, Marked
<1>12. \A o : Nodes(m, o) = Nodes(k, o)
  BY <1>3 DEF Nodes
<1>13. ASSUME NEW t \in Task \ {c} PROVE TaskFits(m, t, R, C, S)
  BY <1>3, <1>12 DEF Mid, TaskFits
<1>14. ASSUME NEW d \in Cyclic \ {c} PROVE CyclicFits(m, d)
  BY <1>12 DEF Mid, CyclicFits, Marked
<1>15. Mid(m, c, R, C, S)
  BY <1>5, <1>7, <1>8, <1>11, <1>13, <1>14 DEF Mid, Base
<1>16. Same(m, k, Quiet)
  BY <1>2 DEF Same, Quiet
<1> QED BY <1>12, <1>15, <1>16

LEMMA SameQuiet ==
  ASSUME NEW k, NEW m, NEW n, Same(m, k, Quiet), Same(n, m, Quiet)
  PROVE  Same(n, k, Quiet)
BY DEF Same

LEMMA HeapQuiet ==
  ASSUME NEW k, NEW m, Same(m, k, {"heap", "index"})
  PROVE  Same(m, k, Quiet) /\ m.cycsta = k.cycsta /\ m.evttim = k.evttim /\ m.cfg = k.cfg
         /\ m.tcb = k.tcb
BY DEF Same, Quiet, Fields

Started(k, c) == k.cycsta[c] = TRUE

LEMMA EnqueuesCyc ==
  ASSUME NEW k, NEW c \in Cyclic, NEW R, NEW C, NEW S, Mid(k, c, R, C, S), Nodes(k, c) = {},
         Started(k, c), NEW time \in EVTTIM, NEW m, m = tmevtb_enqueue_cyc(k, c, time)
  PROVE  Fits(m, R, C, S) /\ Same(m, k, Quiet) /\ m.cycsta = k.cycsta
<1>1. PICK a : a = tmevtb_insert(k, c, "call_cychdr", time)
  OBVIOUS
<1>2. c \in EventOwner /\ "call_cychdr" \in Callbacks
  BY Owners DEF Callbacks
<1>3. PICK node : node = [time |-> time, owner |-> c, callback |-> "call_cychdr"]
  OBVIOUS
<1>4. /\ Mid(a, c, R, C, S) /\ Same(a, k, {"heap", "index"}) /\ Nodes(a, c) = {node}
  BY <1>1, <1>2, <1>3, Inserts
<1>5. Shape(a) /\ Events(a) /\ Started(a, c)
  <2>1. a.cycsta = k.cycsta
    BY <1>4, HeapQuiet
  <2> QED BY <1>4, <2>1 DEF Mid, Base, Started
<1>6. m = [a EXCEPT !.evttim[c] = time]
  BY <1>1 DEF tmevtb_enqueue_cyc
<1>7. /\ m = [f \in Fields |-> m[f]] /\ Same(m, a, {"evttim"})
      /\ m.evttim = [a.evttim EXCEPT ![c] = time]
  BY <1>5, <1>6 DEF Shape, Fields, Same
<1>8. m.cycsta = a.cycsta /\ m.evttim \in [Cyclic -> EVTTIM] /\ m.cycsta \in [Cyclic -> BOOLEAN]
  BY <1>5, <1>7 DEF Same, Fields, Events
<1>9. Marked(m, a, c)
  BY <1>7, <1>8 DEF Marked, Same
<1>10. Mid(m, c, R, C, S) /\ Nodes(m, c) = {node} /\ Same(m, a, Quiet)
  BY <1>4, <1>9, MarkedKept
<1>11. Handled(m.cycsta[c], {node})
  BY <1>3, <1>5, <1>8 DEF Handled, Started
<1>12. CyclicFits(m, c)
  BY <1>10, <1>11 DEF CyclicFits
<1>13. Same(m, k, Quiet) /\ m.cycsta = k.cycsta
  BY <1>4, <1>8, <1>10, HeapQuiet, SameQuiet
<1> QED BY <1>10, <1>12, <1>13, CyclicMidFits

LEMMA Stops ==
  ASSUME NEW k, NEW R, NEW C, NEW S, Fits(k, R, C, S), NEW c \in Cyclic,
         NEW m, m = StopCyclic(k, c)
  PROVE  Mid(m, c, R, C, S) /\ Nodes(m, c) = {} /\ Fits(m, R, C, S) /\ Same(m, k, Quiet)
<1>1. Mid(k, c, R, C, S) /\ CyclicFits(k, c) /\ c \in EventOwner
  BY FitsMid, Owners DEF Fits
<1>2. Nodes(k, c) # {} <=> k.cycsta[c]
  BY <1>1 DEF CyclicFits, Handled
<1>3. CASE ~k.cycsta[c]
  <2>1. m = k
    BY <1>3 DEF StopCyclic
  <2> QED BY <1>1, <1>2, <1>3, <2>1 DEF Same
<1>4. CASE k.cycsta[c]
  <2>1. PICK a : a = tmevtb_delete(k, c)
    OBVIOUS
  <2>2. Mid(a, c, R, C, S) /\ Nodes(a, c) = {} /\ Same(a, k, {"heap", "index"})
    BY <1>1, <1>2, <1>4, <2>1, Deletes
  <2>3. Shape(a) /\ Events(a)
    BY <2>2 DEF Mid, Base
  <2>4. m = [a EXCEPT !.cycsta[c] = FALSE, !.evttim[c] = 0]
    BY <1>4, <2>1 DEF StopCyclic
  <2>5. /\ m = [f \in Fields |-> m[f]] /\ Same(m, a, {"cycsta", "evttim"})
        /\ m.evttim = [a.evttim EXCEPT ![c] = 0]
        /\ m.cycsta = [a.cycsta EXCEPT ![c] = FALSE]
    BY <2>3, <2>4 DEF Shape, Fields, Same
  <2>6. 0 \in EVTTIM
    BY Times
  <2>7. Marked(m, a, c) /\ ~m.cycsta[c]
    <3>1. m.evttim \in [Cyclic -> EVTTIM]
      BY <2>3, <2>5, <2>6 DEF Events
    <3>2. /\ m.cycsta \in [Cyclic -> BOOLEAN] /\ ~m.cycsta[c]
          /\ \A d \in Cyclic \ {c} : m.cycsta[d] = a.cycsta[d]
      BY <2>3, <2>5 DEF Events
    <3> QED BY <2>5, <3>1, <3>2 DEF Marked
  <2>8. Mid(m, c, R, C, S) /\ Nodes(m, c) = {} /\ Same(m, a, Quiet)
    BY <2>2, <2>7, MarkedKept
  <2>9. CyclicFits(m, c)
    BY <2>7, <2>8 DEF CyclicFits, Handled
  <2>10. Same(m, k, Quiet)
    BY <2>2, <2>8, HeapQuiet, SameQuiet
  <2> QED BY <2>8, <2>9, <2>10, CyclicMidFits
<1> QED BY <1>3, <1>4

LEMMA StpCycCore ==
  ASSUME NEW k, Core(k), NEW c \in Cyclic, NEW m, m = Dispatched(StopCyclic(k, c))
  PROVE  Core(m)
<1>1. PICK n : n = StopCyclic(k, c)
  OBVIOUS
<1>2. PICK R, C, S : Fits(k, R, C, S)
  BY DEF Core, Sound
<1>3. Fits(n, R, C, S) /\ Same(n, k, Quiet)
  BY <1>1, <1>2, Stops
<1>4. Control(n) /\ Dispatched(n) = n
  BY <1>3, QuietCore DEF Core
<1> QED BY <1>1, <1>3, <1>4 DEF Core, Sound

LEMMA StaCycCore ==
  ASSUME NEW k, Core(k), NEW c \in k.cfg.handlers, NEW m, m = Dispatched(sta_cyc(k, c))
  PROVE  Core(m)
<1>1. PICK n : n = sta_cyc(k, c)
  OBVIOUS
<1>2. PICK R, C, S : Fits(k, R, C, S)
  BY DEF Core, Sound
<1>3. Shape(k) /\ Events(k) /\ c \in Cyclic /\ k.cfg.cyctim[c] \in Int
  <2>1. Shape(k) /\ Events(k)
    BY <1>2 DEF Fits, Base
  <2>2. c \in Cyclic /\ k.cfg.cyctim \in [Cyclic -> 1 .. TMAX_RELTIM]
    BY <2>1, Configuration
  <2> QED BY <2>1, <2>2
<1>4. PICK s : s = StopCyclic(k, c)
  OBVIOUS
<1>5. Mid(s, c, R, C, S) /\ Nodes(s, c) = {} /\ Same(s, k, Quiet)
  BY <1>2, <1>3, <1>4, Stops
<1>6. PICK b : b = [s EXCEPT !.cycsta[c] = TRUE]
  OBVIOUS
<1>7. Shape(s) /\ Events(s)
  BY <1>5 DEF Mid, Base
<1>8. /\ b = [f \in Fields |-> b[f]] /\ Same(b, s, {"cycsta"})
      /\ b.cycsta = [s.cycsta EXCEPT ![c] = TRUE]
  BY <1>6, <1>7 DEF Shape, Fields, Same
<1>9. b.evttim = s.evttim
  BY <1>8 DEF Same, Fields
<1>10. Marked(b, s, c) /\ Started(b, c)
  BY <1>3, <1>7, <1>8, <1>9 DEF Marked, Events, Started, Same
<1>11. Mid(b, c, R, C, S) /\ Nodes(b, c) = {} /\ Same(b, s, Quiet)
  BY <1>3, <1>5, <1>10, MarkedKept
<1>12. PICK time : time = Wrap(base_time(k) + k.cfg.cyctim[c])
  OBVIOUS
<1>13. time \in EVTTIM
  <2>1. k.next_time \in EVTTIM
    BY <1>3 DEF Events, Heaped
  <2>2. PICK e, p : e = base_time(k) /\ p = k.cfg.cyctim[c]
    OBVIOUS
  <2>3. e \in EVTTIM /\ p \in Int
    BY <1>3, <2>1, <2>2 DEF base_time
  <2>4. e \in Int
    BY <2>3, Times
  <2>5. e + p \in Int
    BY <2>3, <2>4
  <2> QED BY <1>12, <2>2, <2>5, Times
<1>14. n = tmevtb_enqueue_cyc(b, c, time)
  BY <1>1, <1>4, <1>6, <1>12 DEF sta_cyc
<1>15. Fits(n, R, C, S) /\ Same(n, b, Quiet)
  BY <1>3, <1>10, <1>11, <1>13, <1>14, EnqueuesCyc
<1>16. Same(n, k, Quiet)
  BY <1>5, <1>11, <1>15, SameQuiet
<1>17. Control(n) /\ Dispatched(n) = n
  BY <1>16, QuietCore DEF Core
<1> QED BY <1>1, <1>15, <1>17 DEF Core, Sound

--------------------------------------------------------------------------------
(* isig_tim. *)

\* The event at the root of the heap and the handler of its block.
LEMMA RootEvent ==
  ASSUME NEW k, Heaped(k), EventDue(k)
  PROVE  k.heap[1] \in Node /\ k.heap[1] \in Nodes(k, k.heap[1].owner)
<1>1. k.heap \in Seq(Node) /\ k.heap # << >>
  BY DEF Heaped, EventDue
<1>2. 1 \in 1 .. Len(k.heap) /\ k.heap[1] \in Node
  BY <1>1
<1> QED BY <1>2 DEF Nodes, Elements

LEMMA DeliversTask ==
  ASSUME NEW k, NEW R, NEW C, NEW S, Fits(k, R, C, S), NEW node, node \in Nodes(k, node.owner),
         NEW t \in Task, t = node.owner,
         NEW rest, rest = tmevtb_delete(k, t), NEW m,
         \/ node.callback = "wait_tmout" /\ m = wait_tmout(rest, t)
         \/ node.callback = "wait_tmout_ok" /\ m = wait_tmout_ok(rest, t)
  PROVE  Same(rest, k, Quiet) /\ \E n : m = Requested(n) /\ Keeps(n, rest, t)
<1>1. Mid(k, t, R, C, S) /\ TaskFits(k, t, R, C, S) /\ t \in EventOwner
  BY FitsMid, Owners DEF Fits
<1>2. PICK s : s = k.tcb[t].tstat
  OBVIOUS
<1>3. Agrees(t, s, R, C, S) /\ Watched(s, k.tcb[t].winfo, Nodes(k, t))
  BY <1>1, <1>2 DEF TaskFits
<1>4. /\ s \in Legal /\ "WAITING" \in s /\ Nodes(k, t) # {}
      /\ "WAIT_WOBJ" \in s => node.callback = "wait_tmout"
  BY <1>3 DEF Watched
<1>5. t \notin R
  BY <1>3, <1>4, LegalStates DEF Agrees
<1>6. Mid(rest, t, R, C, S) /\ Nodes(rest, t) = {} /\ Same(rest, k, {"heap", "index"})
  BY <1>1, <1>4, Deletes
<1>7. rest.tcb = k.tcb /\ Same(rest, k, Quiet)
  BY <1>6, HeapQuiet
<1>8. rest.tcb[t].tstat = s
  BY <1>2, <1>7
<1>9. Waiter(rest, t) /\ Agrees(t, rest.tcb[t].tstat, R, C, S)
  BY <1>3, <1>4, <1>8 DEF Waiter
<1>10. CASE node.callback = "wait_tmout"
  <2>1. m = wait_tmout(rest, t)
    BY <1>10
  <2> QED BY <1>5, <1>6, <1>7, <1>9, <2>1, TimesOut
<1>11. CASE node.callback = "wait_tmout_ok"
  <2>1. m = wait_tmout_ok(rest, t) /\ "WAIT_WOBJ" \notin rest.tcb[t].tstat
    BY <1>4, <1>8, <1>11
  <2> QED BY <1>5, <1>6, <1>7, <1>9, <2>1, TimesOutWell
<1> QED BY <1>10, <1>11

LEMMA DeliversCyclic ==
  ASSUME NEW k, NEW R, NEW C, NEW S, Fits(k, R, C, S), NEW c \in Cyclic, Nodes(k, c) # {},
         NEW rest, rest = tmevtb_delete(k, c), NEW m, m = call_cychdr(rest, c)
  PROVE  Fits(m, R, C, S) /\ Same(m, k, Quiet)
<1>1. Mid(k, c, R, C, S) /\ CyclicFits(k, c) /\ c \in EventOwner
  BY FitsMid, Owners DEF Fits
<1>2. Mid(rest, c, R, C, S) /\ Nodes(rest, c) = {} /\ Same(rest, k, {"heap", "index"})
  BY <1>1, Deletes
<1>3. Shape(rest) /\ Events(rest) /\ Events(k)
  BY <1>1, <1>2 DEF Mid, Base
<1>4. Same(rest, k, Quiet) /\ rest.cycsta = k.cycsta
  BY <1>2, HeapQuiet
<1>5. Started(rest, c)
  <2>1. k.cycsta[c] \in BOOLEAN
    BY <1>3 DEF Events
  <2> QED BY <1>1, <1>4, <2>1 DEF CyclicFits, Handled, Started
<1>6. PICK p, e : p = rest.cfg.cyctim[c] /\ e = rest.evttim[c]
  OBVIOUS
<1>7. p \in Int /\ e \in EVTTIM
  <2>1. rest.cfg.cyctim \in [Cyclic -> 1 .. TMAX_RELTIM]
    BY <1>3, Configuration
  <2> QED BY <1>3, <1>6, <2>1 DEF Events
<1>8. e + p \in Int
  <2>1. e \in Int
    BY <1>7, Times
  <2> QED BY <1>7, <2>1
<1>9. PICK time : time = Wrap(e + p)
  OBVIOUS
<1>10. time \in EVTTIM
  BY <1>8, <1>9, Times
<1>11. m = tmevtb_enqueue_cyc(rest, c, time)
  BY <1>6, <1>9 DEF call_cychdr
<1>12. Fits(m, R, C, S) /\ Same(m, rest, Quiet)
  BY <1>2, <1>5, <1>10, <1>11, EnqueuesCyc
<1> QED BY <1>4, <1>12, SameQuiet

LEMMA DeliversCore ==
  ASSUME NEW k, Core(k), k.ticking, EventDue(k), NEW m, m = DeliverEvent(k)
  PROVE  Core(m)
<1>1. PICK R, C, S : Fits(k, R, C, S)
  BY DEF Core, Sound
<1>2. Heaped(k) /\ Control(k) /\ k.interrupt
  BY <1>1 DEF Fits, Base, Events, Core, Control
<1>3. PICK node : node = k.heap[1]
  OBVIOUS
<1>4. node \in Node /\ node \in Nodes(k, node.owner)
  BY <1>2, <1>3, RootEvent
<1>5. PICK o : o = node.owner
  OBVIOUS
<1>6. PICK rest : rest = tmevtb_delete(k, o)
  OBVIOUS
<1>7. m = CASE node.callback = "wait_tmout"    -> wait_tmout(rest, o)
            [] node.callback = "wait_tmout_ok" -> wait_tmout_ok(rest, o)
            [] node.callback = "call_cychdr"   -> call_cychdr(rest, o)
  BY <1>3, <1>5, <1>6 DEF DeliverEvent, tmevtb_delete_top
<1>8. o \in Task \/ o \in Cyclic
  BY <1>4, <1>5 DEF Node, EventOwner
<1>9. CASE o \in Task
  <2>1. TaskFits(k, o, R, C, S)
    BY <1>1, <1>9 DEF Fits
  <2>2. node.callback \in {"wait_tmout", "wait_tmout_ok"}
    BY <1>4, <1>5, <2>1 DEF TaskFits, Watched
  <2>3. \/ node.callback = "wait_tmout" /\ m = wait_tmout(rest, o)
        \/ node.callback = "wait_tmout_ok" /\ m = wait_tmout_ok(rest, o)
    BY <1>7, <2>2
  <2>4. Same(rest, k, Quiet) /\ \E n : m = Requested(n) /\ Keeps(n, rest, o)
    BY <1>1, <1>4, <1>5, <1>6, <1>9, <2>3, DeliversTask
  <2>5. PICK n : m = Requested(n) /\ Keeps(n, rest, o)
    BY <2>4
  <2>6. Control(rest) /\ rest.interrupt
    BY <1>2, <2>4, QuietCore
  <2> QED BY <1>9, <2>5, <2>6, RequestedCore
<1>10. CASE o \in Cyclic
  <2>1. CyclicFits(k, o)
    BY <1>1, <1>10 DEF Fits
  <2>2. node.callback = "call_cychdr" /\ Nodes(k, o) # {}
    BY <1>4, <1>5, <2>1 DEF CyclicFits, Handled
  <2>3. m = call_cychdr(rest, o)
    BY <1>7, <2>2
  <2>4. Fits(m, R, C, S) /\ Same(m, k, Quiet)
    BY <1>1, <1>6, <1>10, <2>2, <2>3, DeliversCyclic
  <2>5. Control(m)
    BY <1>2, <2>4, QuietCore
  <2> QED BY <2>4, <2>5 DEF Core, Sound
<1> QED BY <1>8, <1>9, <1>10

\* The clock of the kernel goes on; the handler is at its end.
LEMMA TickCore ==
  ASSUME NEW k, Core(k), k.ticking, ~EventDue(k), NEW m, m = [NextTick(k) EXCEPT !.ticking = FALSE]
  PROVE  Core(m)
<1>1. PICK R, C, S : Fits(k, R, C, S)
  BY DEF Core, Sound
<1>2. /\ Shape(k) /\ Sched(k, R) /\ Waits(k, C, S) /\ Events(k) /\ Control(k)
  BY <1>1 DEF Fits, Base, Core
<1>3. PICK a : a = NextTick(k)
  OBVIOUS
<1>4. Heaped(a) /\ a.next_time = Wrap(a.current_time + TIC_NUME)
  <2>1. Clock \subseteq DOMAIN k
    BY <1>2 DEF Shape, Clock, Fields
  <2> QED BY <1>2, <1>3, <2>1, TickHeaped DEF Events
<1>5. a = [f \in Fields |-> a[f]] /\ Same(a, k, {"current_time", "next_time"})
  BY <1>2, <1>3 DEF NextTick, Shape, Fields, Same
<1>6. \A f \in Fields \ {"current_time", "next_time"} : a[f] = k[f]
  BY <1>5 DEF Same
<1>7. /\ a.ready_queue = k.ready_queue /\ a.ready_primap = k.ready_primap /\ a.schedtsk = k.schedtsk
      /\ a.cfg = k.cfg /\ a.tcb = k.tcb /\ a.obj = k.obj /\ a.heap = k.heap
      /\ a.cycsta = k.cycsta /\ a.evttim = k.evttim
  BY <1>6 DEF Fields
<1>8. \A f \in Flags : a[f] = k[f]
  BY <1>6 DEF Fields, Flags
<1>9. Shape(a)
  BY <1>2, <1>5, <1>7, <1>8 DEF Shape
<1>10. Prio(a) = Prio(k)
  BY <1>7 DEF Prio
<1>11. Sched(a, R)
  BY <1>2, <1>7, <1>10, TheSchedule
<1>12. Waits(a, C, S)
  BY <1>2, <1>7, <1>10, TheWaits
<1>13. Events(a)
  BY <1>2, <1>4, <1>7 DEF Events
<1>14. \A o : Nodes(a, o) = Nodes(k, o)
  BY <1>7 DEF Nodes
<1>15. ASSUME NEW t \in Task PROVE TaskFits(a, t, R, C, S)
  BY <1>1, <1>7, <1>14 DEF Fits, TaskFits
<1>16. ASSUME NEW c \in Cyclic PROVE CyclicFits(a, c)
  BY <1>1, <1>7, <1>14 DEF Fits, CyclicFits
<1>17. Fits(a, R, C, S)
  BY <1>9, <1>11, <1>12, <1>13, <1>15, <1>16 DEF Fits, Base
<1>18. Sound(a)
  BY <1>17 DEF Sound
<1>19. Same(a, k, Quiet)
  BY <1>5 DEF Same, Quiet
<1>20. Control(a) /\ a.interrupt
  BY <1>2, <1>19, QuietCore DEF Control
<1>26. PICK n : n = m
  OBVIOUS
<1>21. Set(n, a, {"ticking"}) /\ ~n.ticking
  BY <1>3, <1>9, <1>26 DEF Shape, Fields, Set, Same
<1>22. Flagged(n, a) /\ \A f \in Flags \ {"ticking"} : n[f] = a[f]
  <2>1. {"ticking"} \subseteq Flags /\ Set(n, a, {"ticking"})
    BY <1>21 DEF Flags
  <2>2. n.ticking \in BOOLEAN
    BY <1>3, <1>9, <1>26 DEF Shape, Fields
  <2>3. \A f \in {"ticking"} : n[f] \in BOOLEAN
    BY <2>2
  <2> QED BY <1>9, <2>1, <2>3, SetFlagged
<1>23. Sound(n) /\ n.schedtsk = a.schedtsk /\ n.tcb = a.tcb /\ n.runtsk = a.runtsk
  BY <1>18, <1>22, FlaggedSound
<1>24. /\ n.enadsp = a.enadsp /\ n.locked = a.locked /\ n.ret = a.ret /\ n.reqflg = a.reqflg
       /\ n.interrupt = a.interrupt
  BY <1>22 DEF Flags
<1>25. Control(n)
  BY <1>20, <1>21, <1>23, <1>24 DEF Control, TSTAT_RUNNABLE, Unasked
<1> QED BY <1>23, <1>25, <1>26 DEF Core

--------------------------------------------------------------------------------
(* What bears on time: which event is due when. *)

Untimed ==
  {"runtsk", "schedtsk", "reqflg", "enadsp", "ret", "ready_queue", "ready_primap", "tcb",
   "obj", "sent", "delivered", "held", "interrupt", "locked"}

Made(k) == k = [f \in Fields |-> k[f]]

\* Nothing of it has changed;
Timeless(m, k) == Made(m) /\ Same(m, k, Untimed)

\* no event but the one of t has;
Touches(m, k, t) ==
  /\ Made(m) /\ Same(m, k, Untimed \cup {"heap", "index"})
  /\ \A u \in EventOwner \ {t} : Nodes(m, u) = Nodes(k, u)

\* that one at most was taken out of the heap,
Frees(m, k, t) == Touches(m, k, t) /\ Nodes(m, t) \subseteq Nodes(k, t)

\* or at most was put into it.
DueAfter(nodes, k, d) == \E node : nodes = {node} /\ node.time = Wrap(k.next_time + d)
Arms(m, k, t) ==
  /\ Touches(m, k, t)
  /\ Nodes(m, t) = Nodes(k, t) \/ \E d \in 0 .. TMAX_RELTIM : DueAfter(Nodes(m, t), k, d)

LEMMA TimelessSelf ==
  ASSUME NEW k, Made(k)
  PROVE  Timeless(k, k)
BY DEF Timeless, Same

LEMMA TimelessTimeless ==
  ASSUME NEW k, NEW m, NEW n, Timeless(m, k), Timeless(n, m)
  PROVE  Timeless(n, k)
BY DEF Timeless, Same

LEMMA TimelessFacts ==
  ASSUME NEW k, NEW m, Timeless(m, k)
  PROVE  /\ Made(m) /\ m.heap = k.heap /\ m.index = k.index /\ m.current_time = k.current_time
         /\ m.next_time = k.next_time /\ m.cfg = k.cfg /\ m.ticking = k.ticking
         /\ m.cycsta = k.cycsta /\ m.evttim = k.evttim
         /\ \A o : Nodes(m, o) = Nodes(k, o)
<1>1. /\ Made(m) /\ m.heap = k.heap /\ m.index = k.index /\ m.current_time = k.current_time
      /\ m.next_time = k.next_time /\ m.cfg = k.cfg /\ m.ticking = k.ticking
      /\ m.cycsta = k.cycsta /\ m.evttim = k.evttim
  BY DEF Timeless, Same, Untimed, Fields
<1> QED BY <1>1 DEF Nodes

LEMMA RunnableTimeless ==
  ASSUME NEW k, Made(k), NEW t, NEW m, m = make_runnable(k, t)
  PROVE  Timeless(m, k)
BY DEF make_runnable, Made, Timeless, Same, Fields, Untimed

LEMMA NonRunnableTimeless ==
  ASSUME NEW k, Made(k), NEW t, NEW m, m = make_non_runnable(k, t)
  PROVE  Timeless(m, k) /\ m.runtsk = k.runtsk
BY DEF make_non_runnable, Made, Timeless, Same, Fields, Untimed

LEMMA DormantTimeless ==
  ASSUME NEW k, Made(k), NEW t, NEW m, m = make_dormant(k, t)
  PROVE  Timeless(m, k)
BY DEF make_dormant, Made, Timeless, Same, Fields, Untimed

LEMMA ChangePriorityTimeless ==
  ASSUME NEW k, Made(k), NEW t, NEW pri, NEW m, m = change_priority(k, t, pri)
  PROVE  Timeless(m, k)
<1>1. PICK old, left : old = k.tcb[t].priority /\ left = [k.ready_queue EXCEPT ![old] = queue_delete(@, t)]
  OBVIOUS
<1>4. PICK queue, primap : /\ queue = [left EXCEPT ![pri] = Append(@, t)]
                           /\ primap = (IF left[old] = << >> THEN k.ready_primap \ {old} ELSE k.ready_primap)
                                         \cup {pri}
  OBVIOUS
<1>5. PICK moved : moved = [k EXCEPT !.tcb[t].priority = pri, !.ready_queue = queue,
                                     !.ready_primap = primap, !.ret = FALSE]
  OBVIOUS
<1>6. moved = [k EXCEPT !.tcb[t].priority = pri, !.ready_queue = queue,
                        !.ready_primap = (IF left[old] = << >> THEN @ \ {old} ELSE @) \cup {pri},
                        !.ret = FALSE]
  BY <1>4, <1>5 DEF Made, Fields
<1>7. m = moved \/ \E first, asked : m = [moved EXCEPT !.schedtsk = first, !.ret = asked]
  BY <1>1, <1>4, <1>6 DEF change_priority
<1>2. Timeless(moved, k)
  BY <1>5 DEF Made, Timeless, Same, Fields, Untimed
<1>3. ASSUME NEW first, NEW asked, m = [moved EXCEPT !.schedtsk = first, !.ret = asked]
      PROVE  Timeless(m, moved)
  BY <1>2, <1>3 DEF Made, Timeless, Same, Fields, Untimed
<1> QED BY <1>2, <1>3, <1>7, TimelessTimeless

LEMMA RotateTimeless ==
  ASSUME NEW k, Made(k), NEW pri, NEW m, m = rotate_ready_queue(k, pri)
  PROVE  Timeless(m, k)
BY DEF rotate_ready_queue, Made, Timeless, Same, Fields, Untimed

LEMMA CalltexTimeless ==
  ASSUME NEW k, Made(k), NEW m, m = calltex(k)
  PROVE  Timeless(m, k)
<1>1. CASE m = k
  BY <1>1, TimelessSelf
<1>2. CASE m = call_texrtn(k)
  <2>1. PICK tcb : m = [k EXCEPT !.tcb = tcb]
    BY <1>2 DEF call_texrtn, Made, Fields
  <2> QED BY <2>1 DEF Made, Timeless, Same, Fields, Untimed
<1> QED BY <1>1, <1>2 DEF calltex

LEMMA ResumedTimeless ==
  ASSUME NEW k, Made(k), NEW m, m = Resumed(k)
  PROVE  Timeless(m, k)
BY DEF Resumed, Made, Timeless, Same, Fields, Untimed

LEMMA RequestedTimeless ==
  ASSUME NEW k, Made(k), NEW m, m = Requested(k)
  PROVE  Timeless(m, k)
BY DEF Requested, Made, Timeless, Same, Fields, Untimed

LEMMA DispatchTimeless ==
  ASSUME NEW k, Made(k), NEW m, m = dispatch(k)
  PROVE  Timeless(m, k)
<1>1. PICK a, b : a = [k EXCEPT !.runtsk = k.schedtsk, !.ret = FALSE] /\ b = Resumed(a)
  OBVIOUS
<1>2. Timeless(a, k)
  BY <1>1 DEF Made, Timeless, Same, Fields, Untimed
<1>3. Timeless(b, a)
  BY <1>1, <1>2, ResumedTimeless DEF Timeless
<1>4. m = calltex(b)
  BY <1>1 DEF dispatch
<1>5. Timeless(m, b)
  BY <1>3, <1>4, CalltexTimeless DEF Timeless
<1> QED BY <1>2, <1>3, <1>5, TimelessTimeless

LEMMA DispatchedTimeless ==
  ASSUME NEW k, Made(k), NEW m, m = Dispatched(k)
  PROVE  Timeless(m, k)
BY DispatchTimeless, TimelessSelf DEF Dispatched

LEMMA RetIntTimeless ==
  ASSUME NEW k, Made(k), NEW m, m = ret_int(k)
  PROVE  Timeless(m, k)
<1>1. PICK a : a = [k EXCEPT !.reqflg = FALSE]
  OBVIOUS
<1>2. Timeless(a, k)
  BY <1>1 DEF Made, Timeless, Same, Fields, Untimed
<1>3. m = k \/ m = dispatch(k) \/ m = dispatch(a) \/ m = calltex(a)
  BY <1>1 DEF ret_int
<1>4. m = k => Timeless(m, k)
  BY TimelessSelf
<1>5. m = dispatch(k) => Timeless(m, k)
  BY DispatchTimeless
<1>6. m = dispatch(a) \/ m = calltex(a) => Timeless(m, a)
  BY <1>2, DispatchTimeless, CalltexTimeless DEF Timeless
<1> QED BY <1>2, <1>3, <1>4, <1>5, <1>6, TimelessTimeless

LEMMA ReactivateTimeless ==
  ASSUME NEW k, Made(k), NEW t, NEW m, m = Reactivate(k, t)
  PROVE  Timeless(m, k)
<1>1. PICK a : a = [k EXCEPT !.tcb[t].actcnt = FALSE]
  OBVIOUS
<1>2. Timeless(a, k)
  BY <1>1 DEF Made, Timeless, Same, Fields, Untimed
<1>3. m = k \/ m = make_runnable(a, t)
  BY <1>1 DEF Reactivate, make_active
<1>4. m = k => Timeless(m, k)
  BY TimelessSelf
<1>5. m = make_runnable(a, t) => Timeless(m, a)
  BY <1>2, RunnableTimeless DEF Timeless
<1> QED BY <1>2, <1>3, <1>4, <1>5, TimelessTimeless

LEMMA DormantAgain ==
  ASSUME NEW k, Made(k), NEW t, NEW m, m = Reactivate(make_dormant(k, t), t)
  PROVE  Timeless(m, k)
<1>1. PICK a : a = make_dormant(k, t)
  OBVIOUS
<1>2. Timeless(a, k)
  BY <1>1, DormantTimeless
<1>3. Timeless(m, a)
  BY <1>1, <1>2, ReactivateTimeless DEF Timeless
<1> QED BY <1>2, <1>3, TimelessTimeless

LEMMA ExtTskTimeless ==
  ASSUME NEW k, Made(k), NEW m, m = ext_tsk(k)
  PROVE  Timeless(m, k)
<1>1. PICK a, t : a = [k EXCEPT !.enadsp = TRUE, !.locked = FALSE] /\ t = a.runtsk
  OBVIOUS
<1>2. Timeless(a, k)
  BY <1>1 DEF Made, Timeless, Same, Fields, Untimed
<1>3. PICK b, c : b = make_non_runnable(a, t) /\ c = Reactivate(make_dormant(b, t), t)
  OBVIOUS
<1>4. Timeless(b, a)
  BY <1>2, <1>3, NonRunnableTimeless DEF Timeless
<1>5. Timeless(c, b)
  BY <1>3, <1>4, DormantAgain DEF Timeless
<1>6. m = dispatch(c)
  BY <1>1, <1>3 DEF ext_tsk, exit_task
<1>7. Timeless(m, c)
  BY <1>5, <1>6, DispatchTimeless DEF Timeless
<1>8. Timeless(b, k) /\ Timeless(m, b)
  BY <1>2, <1>4, <1>5, <1>7, TimelessTimeless
<1> QED BY <1>8, TimelessTimeless

LEMMA NonWaitTimeless ==
  ASSUME NEW k, Made(k), NEW t, NEW m, m = make_non_wait(k, t)
  PROVE  Timeless(m, k)
<1>1. CASE TSTAT_SUSPENDED(k, t)
  <2>1. PICK tcb : m = [k EXCEPT !.tcb = tcb, !.ret = FALSE]
    BY <1>1 DEF make_non_wait, Made, Fields
  <2> QED BY <2>1 DEF Made, Timeless, Same, Fields, Untimed
<1>2. CASE ~TSTAT_SUSPENDED(k, t)
  BY <1>2, RunnableTimeless DEF make_non_wait
<1> QED BY <1>1, <1>2

LEMMA LeaveTimeless ==
  ASSUME NEW k, Made(k), NEW t, NEW m, m = LeaveQueues(k, t)
  PROVE  Timeless(m, k)
<1>1. PICK obj : m = [k EXCEPT !.obj = obj]
  BY DEF LeaveQueues, Made, Fields
<1> QED BY <1>1 DEF Made, Timeless, Same, Fields, Untimed

\* The result of the wait is written, and the task waits no more.
LEMMA EndTimeless ==
  ASSUME NEW k, Made(k), NEW t, NEW v, NEW m, m = make_non_wait([k EXCEPT !.tcb[t].winfo = v], t)
  PROVE  Timeless(m, k)
<1>1. PICK a : a = [k EXCEPT !.tcb[t].winfo = v]
  OBVIOUS
<1>2. Timeless(a, k)
  BY <1>1 DEF Made, Timeless, Same, Fields, Untimed
<1>3. Timeless(m, a)
  BY <1>1, <1>2, NonWaitTimeless DEF Timeless
<1> QED BY <1>2, <1>3, TimelessTimeless

LEMMA WaitingTimeless ==
  ASSUME NEW k, Made(k), NEW bits, NEW data, NEW m, m = MakeWaiting(k, bits, data)
  PROVE  Timeless(m, k) /\ m.runtsk = k.runtsk
<1>1. PICK a, b : /\ a = [k EXCEPT !.tcb[k.runtsk].tstat = {"WAITING"} \cup bits]
                  /\ b = make_non_runnable(a, k.runtsk)
  OBVIOUS
<1>2. Timeless(a, k) /\ a.runtsk = k.runtsk
  BY <1>1 DEF Made, Timeless, Same, Fields, Untimed
<1>3. Timeless(b, a) /\ b.runtsk = a.runtsk
  BY <1>1, <1>2, NonRunnableTimeless DEF Timeless
<1>4. m = [b EXCEPT !.tcb[k.runtsk].winfo = Zero, !.tcb[k.runtsk].data = data, !.ret = TRUE]
  BY <1>1 DEF MakeWaiting
<1>5. Timeless(m, b) /\ m.runtsk = b.runtsk
  BY <1>3, <1>4 DEF Made, Timeless, Same, Fields, Untimed
<1> QED BY <1>2, <1>3, <1>5, TimelessTimeless

--------------------------------------------------------------------------------
(* The time event of one task or handler. *)

LEMMA TimelessTouches ==
  ASSUME NEW k, NEW m, Timeless(m, k), NEW t
  PROVE  Frees(m, k, t) /\ Arms(m, k, t)
<1>1. \A o : Nodes(m, o) = Nodes(k, o)
  BY TimelessFacts
<1>2. Touches(m, k, t)
  BY <1>1 DEF Touches, Timeless, Same
<1> QED BY <1>1, <1>2 DEF Frees, Arms

LEMMA TouchesBetween ==
  ASSUME NEW k, NEW a, NEW b, NEW m, NEW t, Timeless(a, k), Touches(b, a, t), Timeless(m, b)
  PROVE  /\ Touches(m, k, t) /\ Nodes(m, t) = Nodes(b, t) /\ Nodes(a, t) = Nodes(k, t)
         /\ a.next_time = k.next_time
<1>1. /\ \A o : Nodes(a, o) = Nodes(k, o)
      /\ \A o : Nodes(m, o) = Nodes(b, o)
      /\ a.next_time = k.next_time
  BY TimelessFacts
<1>2. Same(m, k, Untimed \cup {"heap", "index"})
  BY DEF Timeless, Touches, Same
<1> QED BY <1>1, <1>2 DEF Touches, Timeless

LEMMA FreesBetween ==
  ASSUME NEW k, NEW a, NEW b, NEW m, NEW t, Timeless(a, k), Frees(b, a, t), Timeless(m, b)
  PROVE  Frees(m, k, t)
BY TouchesBetween DEF Frees

LEMMA ArmsBetween ==
  ASSUME NEW k, NEW a, NEW b, NEW m, NEW t, Timeless(a, k), Arms(b, a, t), Timeless(m, b)
  PROVE  Arms(m, k, t)
<1>1. /\ Touches(m, k, t) /\ Nodes(m, t) = Nodes(b, t) /\ Nodes(a, t) = Nodes(k, t)
      /\ a.next_time = k.next_time
  BY TouchesBetween DEF Arms
<1> QED BY <1>1 DEF Arms, DueAfter

LEMMA TouchesMade ==
  ASSUME NEW k, NEW m, NEW t, Touches(m, k, t)
  PROVE  /\ Made(m) /\ m.current_time = k.current_time /\ m.next_time = k.next_time
         /\ m.cfg = k.cfg /\ m.ticking = k.ticking /\ m.cycsta = k.cycsta /\ m.evttim = k.evttim
BY DEF Touches, Same, Untimed, Fields

LEMMA MovedTouches ==
  ASSUME NEW k, Made(k), NEW o, NEW m, Moved(m, k),
         \A u \in EventOwner \ {o} : Nodes(m, u) = Nodes(k, u)
  PROVE  Touches(m, k, o)
<1>1. PICK h, i : m = [k EXCEPT !.heap = h, !.index = i]
  BY DEF Moved
<1>2. Made(m) /\ Same(m, k, Untimed \cup {"heap", "index"})
  BY <1>1 DEF Made, Same, Fields, Untimed
<1> QED BY <1>2 DEF Touches

LEMMA MadeClock ==
  ASSUME NEW k, Made(k)
  PROVE  Clock \subseteq DOMAIN k
BY DEF Made, Clock, Fields

LEMMA DeleteFrees ==
  ASSUME NEW k, Made(k), Heaped(k), NEW o \in EventOwner, Nodes(k, o) # {},
         NEW m, m = tmevtb_delete(k, o)
  PROVE  Frees(m, k, o) /\ Nodes(m, o) = {} /\ Heaped(m)
<1>1. ~ Unowned(k, o)
  BY DEF Nodes, Unowned
<1>2. Deleted(m, k, o)
  BY <1>1, DeleteHeaped, MadeClock
<1>3. Nodes(m, o) = {} /\ \A u \in EventOwner \ {o} : Nodes(m, u) = Nodes(k, u)
  BY <1>2 DEF Deleted, Nodes, Without
<1>4. Touches(m, k, o)
  BY <1>2, <1>3, MovedTouches DEF Deleted
<1> QED BY <1>2, <1>3, <1>4 DEF Frees, Deleted

LEMMA InsertTouches ==
  ASSUME NEW k, Made(k), Heaped(k), NEW o \in EventOwner, Nodes(k, o) = {},
         NEW callback \in Callbacks, NEW time \in EVTTIM,
         NEW m, m = tmevtb_insert(k, o, callback, time)
  PROVE  Touches(m, k, o) /\ \E node : Nodes(m, o) = {node} /\ node.time = time
<1>1. Unowned(k, o)
  BY DEF Nodes, Unowned
<1>2. PICK node : node = [time |-> time, owner |-> o, callback |-> callback]
  OBVIOUS
<1>3. Moved(m, k) /\ Elements(m.heap) = Elements(k.heap) \cup {node}
  BY <1>1, <1>2, InsertHeaped, MadeClock
<1>4. node.owner = o /\ node.time = time
  BY <1>2
<1>5. Nodes(m, o) = {node} /\ \A u \in EventOwner \ {o} : Nodes(m, u) = Nodes(k, u)
  BY <1>1, <1>3, <1>4 DEF Nodes, Unowned
<1>6. Touches(m, k, o)
  BY <1>3, <1>5, MovedTouches
<1> QED BY <1>4, <1>5, <1>6

LEMMA HeapedTimeless ==
  ASSUME NEW k, Heaped(k), NEW m, Timeless(m, k)
  PROVE  Heaped(m)
<1>1. /\ m.heap = k.heap /\ m.index = k.index /\ m.current_time = k.current_time
      /\ m.next_time = k.next_time
  BY TimelessFacts
<1>2. Due(m) = Due(k)
  BY <1>1, SameDue
<1> QED BY <1>1, <1>2 DEF Heaped

--------------------------------------------------------------------------------
(* wait.c *)

\* The WINFO of the task points to a time event only if there is one.
Watchful(k, t) ==
  /\ Made(k) /\ Heaped(k) /\ t \in Task
  /\ k.tcb[t].winfo # Zero => Nodes(k, t) # {}

LEMMA WatchfulAfter ==
  ASSUME NEW k, NEW t, Watchful(k, t), NEW m, Timeless(m, k), m.tcb[t].winfo = k.tcb[t].winfo
  PROVE  Watchful(m, t)
<1>1. Made(m) /\ Nodes(m, t) = Nodes(k, t)
  BY TimelessFacts
<1>2. Heaped(m)
  BY HeapedTimeless DEF Watchful
<1> QED BY <1>1, <1>2 DEF Watchful

LEMMA SoundMade ==
  ASSUME NEW k, Sound(k)
  PROVE  Made(k) /\ Heaped(k)
BY DEF Sound, Fits, Base, Shape, Events, Made

LEMMA WaiterWatchful ==
  ASSUME NEW k, Sound(k), NEW t \in Task, TSTAT_WAITING(k, t)
  PROVE  Watchful(k, t)
<1>1. PICK R, C, S : Fits(k, R, C, S)
  BY DEF Sound
<1>2. Watched(k.tcb[t].tstat, k.tcb[t].winfo, Nodes(k, t))
  BY <1>1, WaitingFits
<1>3. k.tcb[t].winfo # Zero => Nodes(k, t) # {}
  BY <1>2 DEF Watched, TSTAT_WAITING
<1> QED BY <1>3, SoundMade DEF Watchful

LEMMA StopFrees ==
  ASSUME NEW k, NEW t, Watchful(k, t), NEW m, m = StopWatch(k, t)
  PROVE  Frees(m, k, t)
<1>1. Made(k) /\ Heaped(k) /\ t \in EventOwner
  BY Owners DEF Watchful
<1>2. CASE k.tcb[t].winfo = Zero
  BY <1>1, <1>2, TimelessSelf, TimelessTouches DEF StopWatch
<1>3. CASE k.tcb[t].winfo # Zero
  <2>1. m = tmevtb_delete(k, t) /\ Nodes(k, t) # {}
    BY <1>3 DEF StopWatch, Watchful
  <2> QED BY <1>1, <2>1, DeleteFrees
<1> QED BY <1>2, <1>3

LEMMA CompleteFrees ==
  ASSUME NEW k, NEW t, Watchful(k, t), NEW m, m = wait_complete(k, t)
  PROVE  Frees(m, k, t)
<1>1. PICK a : a = StopWatch(k, t)
  OBVIOUS
<1>2. Frees(a, k, t)
  BY <1>1, StopFrees
<1>3. Made(a)
  BY <1>2, TouchesMade DEF Frees
<1>4. Timeless(m, a)
  BY <1>1, <1>3, EndTimeless DEF wait_complete
<1>5. Timeless(k, k)
  BY TimelessSelf DEF Watchful
<1> QED BY <1>2, <1>4, <1>5, FreesBetween

LEMMA CancelFrees ==
  ASSUME NEW k, NEW t, Watchful(k, t), NEW m, m = wait_cancel(k, t)
  PROVE  Frees(m, k, t) /\ Made(m)
<1>1. PICK a : a = StopWatch(k, t)
  OBVIOUS
<1>2. Frees(a, k, t)
  BY <1>1, StopFrees
<1>3. Made(a)
  BY <1>2, TouchesMade DEF Frees
<1>4. m = a \/ m = LeaveQueues(a, t)
  BY <1>1 DEF wait_cancel
<1>5. Timeless(m, a)
  BY <1>3, <1>4, LeaveTimeless, TimelessSelf
<1>6. Timeless(k, k)
  BY TimelessSelf DEF Watchful
<1> QED BY <1>2, <1>5, <1>6, FreesBetween DEF Timeless

LEMMA ReleaseFrees ==
  ASSUME NEW k, NEW t, Watchful(k, t), NEW m, m = wait_release(k, t)
  PROVE  Frees(m, k, t)
<1>1. PICK a : a = wait_cancel(k, t)
  OBVIOUS
<1>2. Frees(a, k, t) /\ Made(a)
  BY <1>1, CancelFrees
<1>3. Timeless(m, a)
  BY <1>1, <1>2, EndTimeless DEF wait_release
<1>4. Timeless(k, k)
  BY TimelessSelf DEF Watchful
<1> QED BY <1>2, <1>3, <1>4, FreesBetween

\* The task that runs waits for nothing.
Unwatched(k, t) ==
  Made(k) /\ Heaped(k) /\ t \in Task /\ t = k.runtsk /\ Nodes(k, t) = {}

LEMMA CallerUnwatched ==
  ASSUME NEW k, Sound(k), NEW t, Caller(k, t)
  PROVE  Unwatched(k, t)
<1>1. PICK R, C, S : Fits(k, R, C, S)
  BY DEF Sound
<1>2. t \in Task /\ t = k.runtsk /\ OnlyReady(k, t, R, C, S)
  BY <1>1, CallerFacts
<1> QED BY <1>2, SoundMade DEF OnlyReady, Unwatched

LEMMA UnwatchedAfter ==
  ASSUME NEW k, NEW t, Unwatched(k, t), NEW m, Timeless(m, k), m.runtsk = k.runtsk
  PROVE  Unwatched(m, t)
<1>1. Made(m) /\ Nodes(m, t) = Nodes(k, t)
  BY TimelessFacts
<1>2. Heaped(m)
  BY HeapedTimeless DEF Unwatched
<1> QED BY <1>1, <1>2 DEF Unwatched

LEMMA WatchArms ==
  ASSUME NEW k, NEW t, Unwatched(k, t), NEW callback \in Callbacks, NEW d \in 0 .. TMAX_RELTIM,
         NEW m, m = WatchTime(k, callback, d)
  PROVE  Arms(m, k, t)
<1>1. PICK a : a = [k EXCEPT !.tcb[t].winfo = TMEVTB]
  OBVIOUS
<1>2. Made(k) /\ t = k.runtsk
  BY DEF Unwatched
<1>3. Timeless(a, k) /\ a.runtsk = k.runtsk
  BY <1>1, <1>2 DEF Made, Timeless, Same, Fields, Untimed
<1>4. Unwatched(a, t)
  BY <1>3, UnwatchedAfter
<1>5. PICK time : time = Wrap(a.next_time + d)
  OBVIOUS
<1>6. time \in EVTTIM
  <2>1. a.next_time \in EVTTIM
    BY <1>4 DEF Unwatched, Heaped
  <2>2. a.next_time \in Int
    <3>1. EVTTIM \subseteq Int
      BY Times
    <3> QED BY <2>1, <3>1
  <2>3. d \in Int
    OBVIOUS
  <2>4. a.next_time + d \in Int
    BY <2>2, <2>3
  <2> QED BY <1>5, <2>4, Times
<1>7. m = tmevtb_insert(a, t, callback, time)
  BY <1>1, <1>2, <1>5 DEF WatchTime, tmevtb_enqueue, base_time
<1>8. Made(a) /\ Heaped(a) /\ t \in EventOwner /\ Nodes(a, t) = {}
  BY <1>4, Owners DEF Unwatched
<1>9. Touches(m, a, t) /\ \E node : Nodes(m, t) = {node} /\ node.time = time
  BY <1>6, <1>7, <1>8, InsertTouches
<1>10. DueAfter(Nodes(m, t), a, d)
  BY <1>5, <1>9 DEF DueAfter
<1>11. Arms(m, a, t)
  BY <1>9, <1>10 DEF Arms
<1>12. Timeless(m, m)
  BY <1>9, TouchesMade, TimelessSelf
<1> QED BY <1>3, <1>11, <1>12, ArmsBetween

LEMMA TmoutArms ==
  ASSUME NEW k, NEW t, Unwatched(k, t), NEW bits, NEW data, NEW tmout \in Int,
         tmout <= TMAX_RELTIM, NEW m, m = make_wait_tmout(k, bits, data, tmout)
  PROVE  Arms(m, k, t) /\ Made(m)
<1>1. PICK a : a = MakeWaiting(k, bits, data)
  OBVIOUS
<1>2. Timeless(a, k) /\ a.runtsk = k.runtsk
  BY <1>1, WaitingTimeless DEF Unwatched
<1>3. CASE tmout > 0
  <2>1. m = WatchTime(a, "wait_tmout", tmout)
    BY <1>1, <1>3 DEF make_wait_tmout
  <2>2. tmout \in 0 .. TMAX_RELTIM
    BY <1>3
  <2>3. "wait_tmout" \in Callbacks
    BY DEF Callbacks
  <2>4. Unwatched(a, t)
    BY <1>2, UnwatchedAfter
  <2>5. Arms(m, a, t)
    BY <2>1, <2>2, <2>3, <2>4, WatchArms
  <2>6. Made(m)
    BY <2>5, TouchesMade DEF Arms
  <2> QED BY <1>2, <2>5, <2>6, TimelessSelf, ArmsBetween
<1>4. CASE ~(tmout > 0)
  BY <1>1, <1>2, <1>4, TimelessTouches DEF make_wait_tmout, Timeless
<1> QED BY <1>3, <1>4

--------------------------------------------------------------------------------
(* The blocks of cyclic handlers. *)

\* Of the time events, only the one of o may have changed.
Alters(m, k, o) ==
  /\ Made(m) /\ m.current_time = k.current_time /\ m.next_time = k.next_time
  /\ m.cfg = k.cfg /\ m.ticking = k.ticking
  /\ \A u \in EventOwner \ {o} : Nodes(m, u) = Nodes(k, u)
  /\ \A c \in Cyclic \ {o} : m.evttim[c] = k.evttim[c]

\* The event of a handler is due when its block says so.
OnTime(k, c) == \A node \in Nodes(k, c) : node.time = k.evttim[c]
Punctual(k)  == \A c \in Cyclic : OnTime(k, c)

\* It is set to a time.
SetTo(k, o, time) == \E node : Nodes(k, o) = {node} /\ node.time = time

LEMMA TouchesAlters ==
  ASSUME NEW k, NEW m, NEW o, Touches(m, k, o)
  PROVE  Alters(m, k, o)
BY TouchesMade DEF Touches, Alters

LEMMA AltersBetween ==
  ASSUME NEW k, NEW a, NEW b, NEW m, NEW o, Timeless(a, k), Alters(b, a, o), Timeless(m, b)
  PROVE  Alters(m, k, o) /\ Nodes(m, o) = Nodes(b, o) /\ m.evttim = b.evttim
BY TimelessFacts DEF Alters

LEMMA AltersAfter ==
  ASSUME NEW k, NEW b, NEW m, NEW o, Alters(b, k, o), Timeless(m, b)
  PROVE  Alters(m, k, o) /\ Nodes(m, o) = Nodes(b, o) /\ m.evttim = b.evttim
BY TimelessFacts DEF Alters

LEMMA AltersTwice ==
  ASSUME NEW k, NEW b, NEW m, NEW o, Alters(b, k, o), Alters(m, b, o)
  PROVE  Alters(m, k, o)
BY DEF Alters

LEMMA AltersPunctual ==
  ASSUME NEW k, Punctual(k), NEW m, NEW o, Alters(m, k, o), o \in Cyclic => OnTime(m, o)
  PROVE  Punctual(m)
<1>1. SUFFICES ASSUME NEW c \in Cyclic, c # o PROVE OnTime(m, c)
  BY DEF Punctual
<1>2. Nodes(m, c) = Nodes(k, c) /\ m.evttim[c] = k.evttim[c]
  BY <1>1, Owners DEF Alters
<1> QED BY <1>2 DEF Punctual, OnTime

LEMMA SetsCyc ==
  ASSUME NEW k, Made(k), Heaped(k), NEW c \in Cyclic, Nodes(k, c) = {},
         NEW evttim, evttim = k.evttim, evttim \in [Cyclic -> EVTTIM],
         NEW time \in EVTTIM, NEW m, m = tmevtb_enqueue_cyc(k, c, time)
  PROVE  Alters(m, k, c) /\ SetTo(m, c, time) /\ OnTime(m, c)
<1>1. PICK a : a = tmevtb_insert(k, c, "call_cychdr", time)
  OBVIOUS
<1>2. c \in EventOwner /\ "call_cychdr" \in Callbacks
  BY Owners DEF Callbacks
<1>3. Touches(a, k, c) /\ SetTo(a, c, time)
  BY <1>1, <1>2, InsertTouches DEF SetTo
<1>4. Alters(a, k, c) /\ a.evttim = k.evttim /\ Made(a)
  BY <1>3, TouchesAlters, TouchesMade
<1>5. m = [a EXCEPT !.evttim[c] = time]
  BY <1>1 DEF tmevtb_enqueue_cyc
<1>6. PICK new : new = [evttim EXCEPT ![c] = time]
  OBVIOUS
<1>7. m = [a EXCEPT !.evttim = new]
  BY <1>4, <1>5, <1>6 DEF Made, Fields
<1>8. /\ Made(m) /\ m.heap = a.heap /\ m.current_time = a.current_time
      /\ m.next_time = a.next_time /\ m.cfg = a.cfg /\ m.ticking = a.ticking /\ m.evttim = new
  BY <1>4, <1>7 DEF Made, Fields
<1>9. \A o : Nodes(m, o) = Nodes(a, o)
  BY <1>8 DEF Nodes
<1>10. new[c] = time /\ \A d \in Cyclic \ {c} : new[d] = evttim[d]
  BY <1>6
<1>11. Alters(m, k, c)
  BY <1>4, <1>8, <1>9, <1>10 DEF Alters
<1>12. SetTo(m, c, time)
  BY <1>3, <1>9 DEF SetTo
<1>13. OnTime(m, c)
  BY <1>8, <1>10, <1>12 DEF OnTime, SetTo
<1> QED BY <1>11, <1>12, <1>13

LEMMA StopCycAlters ==
  ASSUME NEW k, Sound(k), NEW c \in Cyclic, NEW m, m = StopCyclic(k, c)
  PROVE  Alters(m, k, c) /\ Nodes(m, c) = {} /\ Sound(m)
<1>1. PICK R, C, S : Fits(k, R, C, S)
  BY DEF Sound
<1>2. Nodes(m, c) = {} /\ Sound(m)
  BY <1>1, Stops DEF Sound
<1>3. CASE ~k.cycsta[c]
  <2>1. m = k
    BY <1>3 DEF StopCyclic
  <2> QED BY <1>2, <2>1, SoundMade DEF Alters
<1>4. CASE k.cycsta[c]
  <2>1. PICK a : a = tmevtb_delete(k, c)
    OBVIOUS
  <2>2. Nodes(k, c) # {} /\ c \in EventOwner
    BY <1>1, <1>4, Owners DEF Fits, CyclicFits, Handled
  <2>3. Frees(a, k, c)
    BY <2>1, <2>2, SoundMade, DeleteFrees
  <2>4. Alters(a, k, c) /\ Made(a)
    BY <2>3, TouchesAlters, TouchesMade DEF Frees
  <2>5. m = [a EXCEPT !.cycsta[c] = FALSE, !.evttim[c] = 0]
    BY <1>4, <2>1 DEF StopCyclic
  <2>6. PICK evttim, new : evttim = a.evttim /\ new = [evttim EXCEPT ![c] = 0]
    OBVIOUS
  <2>7. /\ Made(m) /\ m.heap = a.heap /\ m.current_time = a.current_time
        /\ m.next_time = a.next_time /\ m.cfg = a.cfg /\ m.ticking = a.ticking /\ m.evttim = new
    BY <2>4, <2>5, <2>6 DEF Made, Fields
  <2>8. \A o : Nodes(m, o) = Nodes(a, o)
    BY <2>7 DEF Nodes
  <2>9. \A d \in Cyclic \ {c} : new[d] = evttim[d]
    BY <2>6
  <2>10. Alters(m, k, c)
    BY <2>4, <2>6, <2>7, <2>8, <2>9 DEF Alters
  <2> QED BY <1>2, <2>10
<1> QED BY <1>3, <1>4

LEMMA StartedAlters ==
  ASSUME NEW k, Sound(k), NEW c \in Cyclic, Nodes(k, c) = {}, NEW time \in EVTTIM,
         NEW m, m = tmevtb_enqueue_cyc([k EXCEPT !.cycsta[c] = TRUE], c, time)
  PROVE  Alters(m, k, c) /\ SetTo(m, c, time) /\ OnTime(m, c)
<1>1. Made(k) /\ Heaped(k)
  BY SoundMade
<1>2. PICK b : b = [k EXCEPT !.cycsta[c] = TRUE]
  OBVIOUS
<1>3. /\ Made(b) /\ b.heap = k.heap /\ b.index = k.index /\ b.current_time = k.current_time
      /\ b.next_time = k.next_time /\ b.cfg = k.cfg /\ b.ticking = k.ticking
      /\ b.evttim = k.evttim
  BY <1>1, <1>2 DEF Made, Fields
<1>4. \A o : Nodes(b, o) = Nodes(k, o)
  BY <1>3 DEF Nodes
<1>5. Heaped(b)
  <2>1. Due(b) = Due(k)
    BY <1>3, SameDue
  <2> QED BY <1>1, <1>3, <2>1 DEF Heaped
<1>6. PICK evttim : evttim = b.evttim
  OBVIOUS
<1>7. evttim \in [Cyclic -> EVTTIM]
  BY <1>3, <1>6 DEF Sound, Fits, Base, Events
<1>8. Alters(m, b, c) /\ SetTo(m, c, time) /\ OnTime(m, c)
  BY <1>2, <1>3, <1>4, <1>5, <1>6, <1>7, SetsCyc
<1>9. Alters(b, k, c)
  BY <1>3, <1>4 DEF Alters
<1> QED BY <1>8, <1>9, AltersTwice

\* At the start the clock is at 0, and the time left of an event is its time.
Timely(k) ==
  /\ Punctual(k) /\ k.current_time = 0
  /\ \A o \in EventOwner : \A node \in Nodes(k, o) : node.time \in 0 .. TMAX_RELTIM

LEMMA TimelyTimeless ==
  ASSUME NEW k, Timely(k), NEW m, Timeless(m, k)
  PROVE  Timely(m)
<1>1. /\ m.current_time = k.current_time /\ m.evttim = k.evttim
      /\ \A o : Nodes(m, o) = Nodes(k, o)
  BY TimelessFacts
<1> QED BY <1>1 DEF Timely, Punctual, OnTime

LEMMA TimelyStarted ==
  ASSUME NEW k, Timely(k), NEW c \in Cyclic, NEW m, Alters(m, k, c), OnTime(m, c),
         NEW time \in 0 .. TMAX_RELTIM, SetTo(m, c, time)
  PROVE  Timely(m)
<1>1. Punctual(m) /\ m.current_time = 0
  BY AltersPunctual DEF Timely, Alters
<1>2. ASSUME NEW o \in EventOwner, NEW node \in Nodes(m, o) PROVE node.time \in 0 .. TMAX_RELTIM
  <2>1. CASE o = c
    BY <2>1 DEF SetTo
  <2>2. CASE o # c
    <3>1. node \in Nodes(k, o)
      BY <1>2, <2>2 DEF Alters
    <3> QED BY <3>1 DEF Timely
  <2> QED BY <2>1, <2>2
<1> QED BY <1>1, <1>2 DEF Timely

--------------------------------------------------------------------------------
(* The start of the kernel. *)

IsMerged(e, f, g) == e = Merged(f, g)
On(f, D) == DOMAIN f = D
Equal(e, f, D) == \A x \in D : e[x] = f[x]

LEMMA MergedFacts ==
  ASSUME NEW e, NEW f, NEW g, NEW D, NEW E, IsMerged(e, f, g), On(f, D), On(g, E), D \cap E = {}
  PROVE  On(e, D \cup E) /\ Equal(e, f, D) /\ Equal(e, g, E)
BY DEF Merged, IsMerged, On, Equal

Before(cfg) ==
  Merged(Merged(NoTaskActive(cfg), NoEvents), Merged(NothingSent(cfg), NoHandlers(cfg)))

FieldsOfTasks ==
  {"runtsk", "schedtsk", "reqflg", "enadsp", "ret", "ready_queue", "ready_primap", "tcb"}
FieldsOfObject == {"obj", "sent", "delivered", "held"}
FieldsOfHandlers == {"cfg", "interrupt", "ticking", "locked", "cycsta", "evttim"}

LEMMA BeforeFields ==
  ASSUME NEW cfg, NEW k, k = Before(cfg)
  PROVE  /\ k = [f \in Fields |-> k[f]]
         /\ \A f \in FieldsOfTasks : k[f] = NoTaskActive(cfg)[f]
         /\ \A f \in Clock : k[f] = NoEvents[f]
         /\ \A f \in FieldsOfObject : k[f] = NothingSent(cfg)[f]
         /\ \A f \in FieldsOfHandlers : k[f] = NoHandlers(cfg)[f]
<1>1. PICK a, b, c, d : a = NoTaskActive(cfg) /\ b = NoEvents /\ c = NothingSent(cfg)
             /\ d = NoHandlers(cfg)
  OBVIOUS
<1>2. /\ On(a, FieldsOfTasks) /\ On(b, Clock) /\ On(c, FieldsOfObject) /\ On(d, FieldsOfHandlers)
  BY <1>1 DEF On, NoTaskActive, NoEvents, NothingSent, NoHandlers, FieldsOfTasks, Clock,
              FieldsOfObject, FieldsOfHandlers
<1>3. PICK e, g : IsMerged(e, a, b) /\ IsMerged(g, c, d)
  BY DEF IsMerged
<1>4. IsMerged(k, e, g)
  BY <1>1, <1>3 DEF Before, IsMerged
<1>5. PICK D, E, F, G :
        D = FieldsOfTasks /\ E = Clock /\ F = FieldsOfObject /\ G = FieldsOfHandlers
  OBVIOUS
<1>6. On(a, D) /\ On(b, E) /\ On(c, F) /\ On(d, G)
  BY <1>2, <1>5
<1>7. D \cap E = {} /\ F \cap G = {} /\ (D \cup E) \cap (F \cup G) = {}
  BY <1>5 DEF FieldsOfTasks, Clock, FieldsOfObject, FieldsOfHandlers
<1>8. On(e, D \cup E) /\ Equal(e, a, D) /\ Equal(e, b, E)
  BY <1>3, <1>6, <1>7, MergedFacts
<1>9. On(g, F \cup G) /\ Equal(g, c, F) /\ Equal(g, d, G)
  BY <1>3, <1>6, <1>7, MergedFacts
<1>10. PICK H, I : H = D \cup E /\ I = F \cup G
  OBVIOUS
<1>11. On(k, H \cup I) /\ Equal(k, e, H) /\ Equal(k, g, I)
  BY <1>4, <1>7, <1>8, <1>9, <1>10, MergedFacts
<1>12. Fields = H \cup I
  BY <1>5, <1>10 DEF Fields, FieldsOfTasks, Clock, FieldsOfObject, FieldsOfHandlers
<1>13. k = [f \in Fields |-> k[f]]
  <2>1. PICK h, f : f = e /\ IsMerged(h, f, g) /\ h = k
    BY <1>4
  <2>2. h = [x \in DOMAIN h |-> h[x]]
    BY <2>1 DEF IsMerged, Merged
  <2> QED BY <1>11, <1>12, <2>1, <2>2 DEF On
<1>14. Equal(k, a, D) /\ Equal(k, b, E) /\ Equal(k, c, F) /\ Equal(k, d, G)
  BY <1>8, <1>9, <1>10, <1>11 DEF Equal
<1> QED BY <1>1, <1>5, <1>13, <1>14 DEF Equal

\* No task is active and no handler is started.
Silent(k, cfg) ==
  /\ k = [f \in Fields |-> k[f]]
  /\ k.tcb = [t \in Task |-> k.tcb[t]]
  /\ \A t \in Task : /\ k.tcb[t] = [f \in Blocks |-> k.tcb[t][f]]
                     /\ k.tcb[t].tstat = {} /\ k.tcb[t].priority = cfg.ipriority[t]
                     /\ ~k.tcb[t].enatex /\ ~k.tcb[t].texptn
                     /\ k.tcb[t].enatex \in BOOLEAN /\ k.tcb[t].texptn \in BOOLEAN
  /\ k.schedtsk = NULL /\ k.ready_queue = [p \in Priority |-> << >>] /\ k.ready_primap = {}
  /\ k.heap = << >> /\ k.index \in [EventOwner -> {0}]
  /\ k.current_time = 0 /\ k.next_time = TIC_NUME
  /\ k.obj = [f \in Queued |-> k.obj[f]] /\ k.obj.wait_queue = << >> /\ k.obj.rwait_queue = << >>
  /\ k.cfg = cfg /\ k.cycsta = [c \in Cyclic |-> FALSE] /\ k.evttim = [c \in Cyclic |-> 0]
  /\ ~k.interrupt /\ ~k.ticking /\ ~k.locked

LEMMA BeforeSilent ==
  ASSUME NEW cfg, NEW k, k = Before(cfg)
  PROVE  Silent(k, cfg) /\ \A f \in Flags : k[f] \in BOOLEAN
<1>1. PICK n : n = k
  OBVIOUS
<1>2. /\ n = [f \in Fields |-> n[f]]
      /\ \A f \in FieldsOfTasks : n[f] = NoTaskActive(cfg)[f]
      /\ \A f \in Clock : n[f] = NoEvents[f]
      /\ \A f \in FieldsOfObject : n[f] = NothingSent(cfg)[f]
      /\ \A f \in FieldsOfHandlers : n[f] = NoHandlers(cfg)[f]
  BY <1>1, BeforeFields
<1>3. PICK a : a = NoTaskActive(cfg)
  OBVIOUS
<1>4. /\ n.schedtsk = a.schedtsk /\ n.ready_queue = a.ready_queue /\ n.ready_primap = a.ready_primap
      /\ n.tcb = a.tcb /\ n.reqflg = a.reqflg /\ n.enadsp = a.enadsp /\ n.ret = a.ret
  BY <1>2, <1>3 DEF FieldsOfTasks
<1>5. /\ n.schedtsk = NULL /\ n.ready_queue = [p \in Priority |-> << >>] /\ n.ready_primap = {}
      /\ n.reqflg \in BOOLEAN /\ n.enadsp \in BOOLEAN /\ n.ret \in BOOLEAN
  BY <1>3, <1>4 DEF NoTaskActive
<1>15. PICK tcb : tcb = a.tcb
  OBVIOUS
<1>16. /\ tcb = [t \in Task |-> tcb[t]]
       /\ \A t \in Task : /\ tcb[t] = [f \in Blocks |-> tcb[t][f]]
                          /\ tcb[t].tstat = {} /\ tcb[t].priority = cfg.ipriority[t]
                          /\ ~tcb[t].enatex /\ ~tcb[t].texptn
                          /\ tcb[t].enatex \in BOOLEAN /\ tcb[t].texptn \in BOOLEAN
  BY <1>3, <1>15 DEF NoTaskActive, Blocks
<1>6. /\ n.tcb = [t \in Task |-> n.tcb[t]]
      /\ \A t \in Task : /\ n.tcb[t] = [f \in Blocks |-> n.tcb[t][f]]
                         /\ n.tcb[t].tstat = {} /\ n.tcb[t].priority = cfg.ipriority[t]
                         /\ ~n.tcb[t].enatex /\ ~n.tcb[t].texptn
                         /\ n.tcb[t].enatex \in BOOLEAN /\ n.tcb[t].texptn \in BOOLEAN
  BY <1>4, <1>15, <1>16
<1>7. /\ n.heap = << >> /\ n.index \in [EventOwner -> {0}]
      /\ n.current_time = 0 /\ n.next_time = TIC_NUME
  BY <1>2 DEF Clock, NoEvents
<1>8. /\ n.obj = [f \in Queued |-> n.obj[f]] /\ n.obj.wait_queue = << >>
      /\ n.obj.rwait_queue = << >>
  BY <1>2 DEF FieldsOfObject, NothingSent, Queued
<1>9. PICK d : d = NoHandlers(cfg)
  OBVIOUS
<1>10. /\ n.cfg = d.cfg /\ n.cycsta = d.cycsta /\ n.evttim = d.evttim
       /\ n.interrupt = d.interrupt /\ n.ticking = d.ticking /\ n.locked = d.locked
  BY <1>2, <1>9 DEF FieldsOfHandlers
<1>11. /\ n.cfg = cfg /\ n.cycsta = [c \in Cyclic |-> FALSE] /\ n.evttim = [c \in Cyclic |-> 0]
       /\ ~n.interrupt /\ ~n.ticking /\ ~n.locked
  BY <1>9, <1>10 DEF NoHandlers
<1>12. n.interrupt \in BOOLEAN /\ n.ticking \in BOOLEAN /\ n.locked \in BOOLEAN
  BY <1>9, <1>10 DEF NoHandlers
<1>13. \A f \in Flags : n[f] \in BOOLEAN
  BY <1>5, <1>12 DEF Flags
<1>14. Silent(n, cfg)
  BY <1>2, <1>5, <1>6, <1>7, <1>8, <1>11 DEF Silent
<1> QED BY <1>1, <1>13, <1>14

LEMMA SilentSound ==
  ASSUME NEW cfg \in Configurations, NEW k, Silent(k, cfg), \A f \in Flags : k[f] \in BOOLEAN
  PROVE  Sound(k)
<1>1. cfg.ipriority \in [Task -> Priority]
  BY ConfigurationTable DEF Configured
<1>2. \A t \in Task : Block(k.tcb[t])
  <2>1. SUFFICES ASSUME NEW t \in Task PROVE Block(k.tcb[t])
    OBVIOUS
  <2>2. PICK b : b = k.tcb[t]
    OBVIOUS
  <2>3. b = [f \in Blocks |-> b[f]] /\ b.priority = cfg.ipriority[t] /\ ~b.enatex /\ ~b.texptn
    BY <2>2 DEF Silent
  <2>4. b.enatex \in BOOLEAN /\ b.texptn \in BOOLEAN
    BY <2>2 DEF Silent
  <2> QED BY <1>1, <2>2, <2>3, <2>4 DEF Block
<1>3. Shape(k)
  BY <1>2 DEF Silent, Shape
<1>4. Sched(k, {})
  <2>1. PICK q, pri : q = k.ready_queue /\ pri = k.ready_primap
    OBVIOUS
  <2>2. q = [p \in Priority |-> << >>] /\ pri = {} /\ k.schedtsk = NULL
    BY <2>1 DEF Silent
  <2>3. q \in [Priority -> Seq(Task)] /\ \A p \in Priority : q[p] = << >>
    BY <2>2
  <2>4. \A t \in Task : k.tcb[t].tstat = {}
    BY DEF Silent
  <2>5. Distinct(<< >>) /\ Elements(<< >>) = {}
    BY DEF Distinct, Elements
  <2> QED BY <2>1, <2>2, <2>3, <2>4, <2>5 DEF Sched, Queues, First
<1>5. Waits(k, {}, {})
  <2>1. k.obj.wait_queue = << >> /\ k.obj.rwait_queue = << >>
    BY DEF Silent
  <2>2. Queue(<< >>, {})
    BY DEF Queue, Distinct, Elements
  <2> QED BY <2>1, <2>2 DEF Waits, InOrder
<1>6. Events(k)
  <2>11. k.heap = << >> /\ k.index \in [EventOwner -> {0}]
    BY DEF Silent
  <2>12. << >> \in Seq(Node) /\ Len(<< >>) = 0
    OBVIOUS
  <2>1. k.heap = << >> /\ k.heap \in Seq(Node) /\ k.index \in [EventOwner -> Nat] /\ Len(k.heap) = 0
    BY <2>11, <2>12
  <2>2. Indexed(k.heap, k.index, 0) /\ HeapOrder(k.heap, Due(k))
    BY <2>1 DEF Indexed, HeapOrder
  <2>3. PICK M : M = 2 ^ EVTTIM_BITS
    OBVIOUS
  <2>4. M \in Nat \ {0} /\ TIC_NUME \in Nat /\ TIC_NUME < M
    BY <2>3, WordSize, HalfWord, TickFitsWord
  <2>5. (0 + TIC_NUME) % M = TIC_NUME
    BY <2>4, ShortMod
  <2>6. k.next_time = Wrap(k.current_time + TIC_NUME)
    BY <2>3, <2>5 DEF Silent, Wrap
  <2>7. k.current_time \in EVTTIM /\ k.next_time \in EVTTIM
    <3>1. TIC_NUME \in 0 .. M - 1
      BY <2>4
    <3> QED BY <2>3, <3>1, Times DEF Silent, EVTTIM
  <2>8. k.cycsta \in [Cyclic -> BOOLEAN] /\ k.evttim \in [Cyclic -> EVTTIM]
    BY Times DEF Silent
  <2> QED BY <2>1, <2>2, <2>6, <2>7, <2>8 DEF Events, Heaped
<1>7. \A o : Nodes(k, o) = {}
  BY DEF Silent, Nodes, Elements
<1>8. ASSUME NEW t \in Task PROVE TaskFits(k, t, {}, {}, {})
  <2>1. k.tcb[t].tstat = {}
    BY DEF Silent
  <2> QED BY <1>7, <2>1 DEF TaskFits, Agrees, Watched, Legal
<1>9. ASSUME NEW c \in Cyclic PROVE CyclicFits(k, c)
  BY <1>7 DEF CyclicFits, Handled, Silent
<1>10. Fits(k, {}, {}, {})
  BY <1>3, <1>4, <1>5, <1>6, <1>8, <1>9 DEF Fits, Base
<1> QED BY <1>10 DEF Sound

--------------------------------------------------------------------------------
(* What leaves the object and its data alone. *)

Whole(k) ==
  /\ k = [f \in Fields |-> k[f]]
  /\ k.tcb = [t \in Task |-> k.tcb[t]]
  /\ \A t \in Task : k.tcb[t] = [f \in Blocks |-> k.tcb[t][f]]
  /\ k.obj = [f \in Queued |-> k.obj[f]]

Spares(m, k) ==
  /\ Whole(m) /\ m.obj = k.obj /\ m.sent = k.sent /\ m.delivered = k.delivered
  /\ m.held = k.held /\ m.cfg = k.cfg
  /\ \A t \in Task : m.tcb[t].data = k.tcb[t].data

LEMMA SoundWhole ==
  ASSUME NEW k, Sound(k)
  PROVE  Whole(k)
BY SoundShape DEF Shape, Whole, Block

LEMMA SparesSpares ==
  ASSUME NEW k, NEW m, NEW n, Spares(m, k), Spares(n, m)
  PROVE  Spares(n, k)
BY DEF Spares

LEMMA SparesSelf ==
  ASSUME NEW k, Whole(k)
  PROVE  Spares(k, k)
BY DEF Spares

\* A block of the task is written, but not its data, and fields that are not the object's.
Inner == {"runtsk", "schedtsk", "reqflg", "enadsp", "ret", "ready_queue", "ready_primap", "heap",
          "index", "current_time", "next_time", "interrupt", "ticking", "locked", "cycsta",
          "evttim"}

Beside(m, k) == m = [f \in Fields |-> m[f]] /\ Same(m, k, Inner)

LEMMA BesideSpares ==
  ASSUME NEW k, Whole(k), NEW m, Beside(m, k)
  PROVE  Spares(m, k) /\ m.tcb = k.tcb
<1>1. /\ m.obj = k.obj /\ m.sent = k.sent /\ m.delivered = k.delivered
      /\ m.held = k.held /\ m.cfg = k.cfg /\ m.tcb = k.tcb
  BY DEF Beside, Same, Inner, Fields
<1> QED BY <1>1 DEF Beside, Whole, Spares

BlockSet(m, k, t) ==
  /\ m = [f \in Fields |-> m[f]] /\ Same(m, k, Inner \cup {"tcb"})
  /\ m.tcb = [u \in Task |-> m.tcb[u]] /\ \A u \in Task \ {t} : m.tcb[u] = k.tcb[u]
  /\ t \in Task => m.tcb[t] = [f \in Blocks |-> m.tcb[t][f]] /\ m.tcb[t].data = k.tcb[t].data

LEMMA BlockSpares ==
  ASSUME NEW k, Whole(k), NEW t, NEW m, BlockSet(m, k, t)
  PROVE  Spares(m, k)
<1>1. /\ m.obj = k.obj /\ m.sent = k.sent /\ m.delivered = k.delivered
      /\ m.held = k.held /\ m.cfg = k.cfg
  BY DEF BlockSet, Same, Inner, Fields
<1>2. ASSUME NEW u \in Task
      PROVE  m.tcb[u] = [f \in Blocks |-> m.tcb[u][f]] /\ m.tcb[u].data = k.tcb[u].data
  BY DEF BlockSet, Whole
<1> QED BY <1>1, <1>2 DEF BlockSet, Whole, Spares

--------------------------------------------------------------------------------
(* time_event.c *)

LEMMA FillSpares ==
  ASSUME NEW k, Whole(k), NEW path, NEW node, NEW m, m = Fill(k, path, node)
  PROVE  Spares(m, k) /\ m.tcb = k.tcb
<1>1. PICK heap, index : m = [k EXCEPT !.heap = heap, !.index = index]
  BY DEF Fill
<1>2. Beside(m, k)
  BY <1>1 DEF Whole, Beside, Same, Fields, Inner
<1> QED BY <1>2, BesideSpares

LEMMA InsertSpares ==
  ASSUME NEW k, Whole(k), NEW owner, NEW callback, NEW time,
         NEW m, m = tmevtb_insert(k, owner, callback, time)
  PROVE  Spares(m, k) /\ m.tcb = k.tcb
<1>1. PICK node : node = [time |-> time, owner |-> owner, callback |-> callback]
  OBVIOUS
<1>2. PICK g : g = [k EXCEPT !.heap = Append(@, node)]
  OBVIOUS
<1>3. PICK path : path = tmevt_up(g, last_index(g), time)
  OBVIOUS
<1>4. m = Fill(g, path, node)
  BY <1>1, <1>2, <1>3 DEF tmevtb_insert
<1>5. Beside(g, k)
  BY <1>2 DEF Whole, Beside, Same, Fields, Inner
<1>6. Spares(g, k) /\ g.tcb = k.tcb
  BY <1>5, BesideSpares
<1>7. Whole(g)
  BY <1>6 DEF Spares
<1>8. Spares(m, g) /\ m.tcb = g.tcb
  BY <1>4, <1>7, FillSpares
<1> QED BY <1>6, <1>8, SparesSpares

LEMMA DeleteSpares ==
  ASSUME NEW k, Whole(k), NEW owner, NEW m, m = tmevtb_delete(k, owner)
  PROVE  Spares(m, k) /\ m.tcb = k.tcb
<1>1. PICK g : g = [k EXCEPT !.heap = SubSeq(@, 1, Len(@) - 1), !.index[owner] = 0]
  OBVIOUS
<1>2. PICK heap, index : g = [k EXCEPT !.heap = heap, !.index = index]
  BY <1>1 DEF Whole, Fields
<1>3. Beside(g, k)
  BY <1>2 DEF Whole, Beside, Same, Fields, Inner
<1>4. Spares(g, k) /\ g.tcb = k.tcb
  BY <1>3, BesideSpares
<1>5. Whole(g)
  BY <1>4 DEF Spares
<1>6. m = g \/ \E path, node : m = Fill(g, path, node)
  BY <1>1 DEF tmevtb_delete
<1>7. Spares(m, g) /\ m.tcb = g.tcb
  <2>1. CASE m = g
    BY <1>5, <2>1, SparesSelf
  <2>2. CASE \E path, node : m = Fill(g, path, node)
    <3>1. PICK path, node : m = Fill(g, path, node)
      BY <2>2
    <3> QED BY <1>5, <3>1, FillSpares
  <2> QED BY <1>6, <2>1, <2>2
<1> QED BY <1>4, <1>7, SparesSpares

--------------------------------------------------------------------------------
(* task.c *)

\* One field of a block, not its data, is set.
FieldSet(m, k, t, field, v) == m = [k EXCEPT !.tcb[t][field] = v]

LEMMA FieldSpares ==
  ASSUME NEW k, Whole(k), NEW t \in Task, NEW field \in Blocks \ {"data"}, NEW v,
         NEW m, FieldSet(m, k, t, field, v)
  PROVE  Spares(m, k)
<1>1. PICK b, c : b = k.tcb[t] /\ c = [b EXCEPT ![field] = v]
  OBVIOUS
<1>2. b = [f \in Blocks |-> b[f]] /\ "data" \in Blocks
  BY <1>1 DEF Whole, Blocks
<1>3. c = [f \in Blocks |-> c[f]] /\ c["data"] = b["data"]
  BY <1>1, <1>2
<1>4. m = [k EXCEPT !.tcb[t] = c]
  BY <1>1 DEF FieldSet
<1>5. /\ m = [f \in Fields |-> m[f]] /\ Same(m, k, Inner \cup {"tcb"})
      /\ m.tcb = [k.tcb EXCEPT ![t] = c]
  BY <1>4 DEF Whole, Fields, Same, Inner
<1>6. m.tcb = [u \in Task |-> m.tcb[u]] /\ m.tcb[t] = c /\ \A u \in Task \ {t} : m.tcb[u] = k.tcb[u]
  BY <1>5 DEF Whole
<1>7. BlockSet(m, k, t)
  BY <1>1, <1>3, <1>5, <1>6 DEF BlockSet
<1> QED BY <1>7, BlockSpares

LEMMA RunnableSpares ==
  ASSUME NEW k, Whole(k), NEW t \in Task, NEW m, m = make_runnable(k, t)
  PROVE  Spares(m, k)
<1>1. m = [f \in Fields |-> m[f]] /\ Same(m, k, Inner \cup {"tcb"})
  BY DEF make_runnable, Whole, Fields, Same, Inner
<1>2. m.tcb = [u \in Task |-> m.tcb[u]] /\ \A u \in Task \ {t} : m.tcb[u] = k.tcb[u]
  BY DEF make_runnable, Whole, Fields
<1>3. m.tcb[t] = [k.tcb[t] EXCEPT !.tstat = {"RUNNABLE"}]
  BY DEF make_runnable, Whole, Fields
<1>4. m.tcb[t] = [f \in Blocks |-> m.tcb[t][f]] /\ m.tcb[t].data = k.tcb[t].data
  BY <1>3 DEF Whole, Blocks
<1>5. BlockSet(m, k, t)
  BY <1>1, <1>2, <1>4 DEF BlockSet
<1> QED BY <1>5, BlockSpares

LEMMA NonRunnableSpares ==
  ASSUME NEW k, Whole(k), NEW t \in Task, NEW m, m = make_non_runnable(k, t)
  PROVE  Spares(m, k) /\ m.tcb = k.tcb
<1>1. m = [f \in Fields |-> m[f]] /\ Same(m, k, Inner)
  <2>1. m = [f \in Fields |-> m[f]]
    BY DEF make_non_runnable, Whole, Fields
  <2>2. Same(m, k, Inner)
    BY DEF make_non_runnable, Whole, Fields, Same, Inner
  <2> QED BY <2>1, <2>2
<1>2. Beside(m, k)
  BY <1>1 DEF Beside
<1> QED BY <1>2, BesideSpares

LEMMA RotateSpares ==
  ASSUME NEW k, Whole(k), NEW pri, NEW m, m = rotate_ready_queue(k, pri)
  PROVE  Spares(m, k)
<1>1. m = [f \in Fields |-> m[f]] /\ Same(m, k, Inner)
  BY DEF rotate_ready_queue, Whole, Fields, Same, Inner
<1>2. Beside(m, k)
  BY <1>1 DEF Beside
<1> QED BY <1>2, BesideSpares

LEMMA ChangePrioritySpares ==
  ASSUME NEW k, Whole(k), NEW t \in Task, NEW newpri, NEW m, m = change_priority(k, t, newpri)
  PROVE  Spares(m, k)
<1>1. m = [f \in Fields |-> m[f]] /\ Same(m, k, Inner \cup {"tcb"})
  <2>1. /\ m = [f \in Fields |-> m[f]]
        /\ Same(m, k, {"tcb", "ready_queue", "ready_primap", "schedtsk", "ret"})
    BY ChangedFields DEF Whole
  <2> QED BY <2>1 DEF Same, Inner
<1>2. m.tcb = [k.tcb EXCEPT ![t].priority = newpri]
  BY DEF change_priority, Whole, Fields
<1>3. m.tcb = [u \in Task |-> m.tcb[u]] /\ \A u \in Task \ {t} : m.tcb[u] = k.tcb[u]
  BY <1>2 DEF Whole
<1>4. m.tcb[t] = [k.tcb[t] EXCEPT !.priority = newpri]
  BY <1>2 DEF Whole
<1>5. m.tcb[t] = [f \in Blocks |-> m.tcb[t][f]] /\ m.tcb[t].data = k.tcb[t].data
  BY <1>4 DEF Whole, Blocks
<1>6. BlockSet(m, k, t)
  BY <1>1, <1>3, <1>5 DEF BlockSet
<1> QED BY <1>6, BlockSpares


LEMMA BlockFields ==
  \A field \in {"tstat", "priority", "actcnt", "wupcnt", "enatex", "texptn", "texnest", "winfo"} :
    field \in Blocks \ {"data"}
BY DEF Blocks

LEMMA CountersSpare ==
  ASSUME NEW k, Whole(k), NEW t \in Task, NEW v, NEW m,
         \/ m = [k EXCEPT !.tcb[t].actcnt = v]
         \/ m = [k EXCEPT !.tcb[t].wupcnt = v]
         \/ m = [k EXCEPT !.tcb[t].tstat = v]
         \/ m = [k EXCEPT !.tcb[t].winfo = v]
         \/ m = [k EXCEPT !.tcb[t].priority = v]
         \/ m = [k EXCEPT !.tcb[t].enatex = v]
         \/ m = [k EXCEPT !.tcb[t].texptn = v]
  PROVE  Spares(m, k)
<1>1. PICK field :
        /\ field \in {"tstat", "priority", "actcnt", "wupcnt", "enatex", "texptn", "winfo"}
        /\ FieldSet(m, k, t, field, v)
  BY DEF FieldSet
<1> QED BY <1>1, BlockFields, FieldSpares

--------------------------------------------------------------------------------
(* Cyclic handlers. *)

LEMMA EnqueueCycSpares ==
  ASSUME NEW k, Whole(k), NEW c, NEW evttim, NEW m, m = tmevtb_enqueue_cyc(k, c, evttim)
  PROVE  Spares(m, k)
<1>1. PICK callback, a : /\ a = tmevtb_insert(k, c, callback, evttim)
                         /\ m = [a EXCEPT !.evttim[c] = evttim]
  BY DEF tmevtb_enqueue_cyc
<1>2. Spares(a, k) /\ Whole(a)
  BY <1>1, InsertSpares DEF Spares
<1>3. Beside(m, a)
  BY <1>1, <1>2 DEF Whole, Beside, Same, Fields, Inner
<1>4. Spares(m, a)
  BY <1>2, <1>3, BesideSpares
<1> QED BY <1>2, <1>4, SparesSpares

LEMMA StartCycSpares ==
  ASSUME NEW k, Whole(k), NEW c, NEW started, NEW m, m = [k EXCEPT !.cycsta[c] = started]
  PROVE  Spares(m, k)
<1>1. PICK cycsta : m = [k EXCEPT !.cycsta = cycsta]
  BY DEF Whole, Fields
<1>2. Beside(m, k)
  BY <1>1 DEF Whole, Beside, Same, Fields, Inner
<1> QED BY <1>2, BesideSpares

--------------------------------------------------------------------------------
(* task_initialize and cyclic_initialize go through their tables in order. *)

StartUp(cfg, x, i) ==
  IF i \in Task
  THEN IF i \in cfg.active THEN make_active(x, i) ELSE x
  ELSE IF i \in cfg.started
       THEN tmevtb_enqueue_cyc([x EXCEPT !.cycsta[i] = TRUE], i, cfg.cycphs[i])
       ELSE x

From(cfg, base, f, a, i) == IF i = a THEN base ELSE StartUp(cfg, f[i - 1], i)

LEMMA StartDefined ==
  ASSUME NEW cfg, NEW base, NEW a \in Nat, NEW b \in Nat
  PROVE  \E f : f = [i \in a .. b |-> From(cfg, base, f, a, i)]
<1> DEFINE D == a .. b
           solves(g, n) == \A i \in D : i < n => g[i] = From(cfg, base, g, a, i)
           bad == {n \in Nat : ~ \E g : g = [i \in D |-> g[i]] /\ solves(g, n)}
<1>1. bad = {}
  <2>1. SUFFICES ASSUME bad # {} PROVE FALSE
    OBVIOUS
  <2>2. bad \subseteq Nat
    OBVIOUS
  <2>3. PICK n \in bad : \A m \in bad : n <= m
    <3> HIDE DEF bad
    <3> QED BY <2>1, <2>2, LeastNumber
  <2>4. n \in Nat /\ ~ \E g : g = [i \in D |-> g[i]] /\ solves(g, n)
    BY <2>3
  <2>5. CASE n = 0
    <3>1. PICK g : g = [i \in D |-> << >>]
      OBVIOUS
    <3>2. g = [i \in D |-> g[i]] /\ solves(g, n)
      BY <2>5, <3>1
    <3> QED BY <2>4, <3>2
  <2>6. CASE n # 0
    <3>1. n - 1 \in Nat /\ ~ (n <= n - 1)
      BY <2>4, <2>6
    <3>2. n - 1 \notin bad
      BY <2>3, <3>1
    <3>3. PICK g : g = [i \in D |-> g[i]] /\ solves(g, n - 1)
      BY <3>1, <3>2
    <3>4. PICK r : r = [i \in D |-> IF i < n - 1 THEN g[i] ELSE From(cfg, base, g, a, i)]
      OBVIOUS
    <3>5. r = [i \in D |-> r[i]]
      BY <3>4
    <3>6. ASSUME NEW i \in D, i < n PROVE r[i] = From(cfg, base, r, a, i)
      <4>1. From(cfg, base, r, a, i) = From(cfg, base, g, a, i)
        <5>1. CASE i = a
          BY <5>1 DEF From
        <5>2. CASE i # a
          <6>1. i - 1 \in D /\ i - 1 < n - 1
            BY <2>4, <3>6, <5>2
          <6>2. r[i - 1] = g[i - 1]
            BY <3>4, <6>1
          <6> QED BY <5>2, <6>2 DEF From
        <5> QED BY <5>1, <5>2
      <4>2. r[i] = From(cfg, base, g, a, i)
        BY <3>3, <3>4
      <4> QED BY <4>1, <4>2
    <3> QED BY <2>4, <3>5, <3>6
  <2> QED BY <2>5, <2>6
<1>2. PICK f : f = [i \in D |-> f[i]] /\ solves(f, b + 1)
  <2> HIDE DEF solves
  <2> QED BY <1>1
<1>3. \A i \in D : f[i] = From(cfg, base, f, a, i)
  BY <1>2
<1>4. f = [i \in D |-> From(cfg, base, f, a, i)]
  BY <1>2, <1>3
<1> QED BY <1>4

\* What lies ahead of i in the tables is not started yet.
Booted(x, cfg, i) ==
  /\ Sound(x) /\ x.cfg = cfg /\ ~x.interrupt /\ ~x.ticking /\ ~x.locked
  /\ Spares(x, Before(cfg)) /\ Timely(x)
  /\ \A t \in Task : t > i => TSTAT_DORMANT(x, t)
  /\ \A c \in Cyclic : c > i => ~x.cycsta[c]

LEMMA TaskBoots ==
  ASSUME NEW cfg, NEW i \in Task, NEW x, Booted(x, cfg, i - 1), NEW y, y = make_active(x, i)
  PROVE  Booted(y, cfg, i)
<1>1. y = act_tsk(x, i)
  BY DEF Booted, Task, act_tsk
<1>2. Sound(x) /\ x.cfg = cfg /\ ~x.interrupt /\ ~x.ticking /\ ~x.locked
  BY DEF Booted
<1>3. Keeps(y, x, i)
  BY <1>1, <1>2, ActTskServes
<1>4. Sound(y) /\ Calm(y, x, i)
  BY <1>3 DEF Keeps
<1>5. /\ y.cfg = x.cfg /\ y.interrupt = x.interrupt /\ y.ticking = x.ticking
      /\ y.locked = x.locked /\ y.cycsta = x.cycsta
  BY <1>4 DEF Calm, Same, Fields
<1>6. \A t \in Task : t > i => TSTAT_DORMANT(y, t)
  BY <1>4 DEF Calm, Booted, TSTAT_DORMANT, Task
<1>7. \A c \in Cyclic : c > i => ~y.cycsta[c]
  BY <1>5 DEF Booted, Cyclic, Task
<1>8. Spares(y, Before(cfg))
  <2>1. Spares(x, Before(cfg)) /\ Whole(x)
    BY <1>2, SoundWhole DEF Booted
  <2>2. y = make_runnable(x, i)
    BY DEF make_active
  <2>3. Spares(y, x)
    BY <2>1, <2>2, RunnableSpares
  <2> QED BY <2>1, <2>3, SparesSpares
<1>9. Timely(y)
  <2>1. Timely(x) /\ Made(x)
    BY <1>2, SoundMade DEF Booted
  <2>2. y = make_runnable(x, i)
    BY DEF make_active
  <2>3. Timeless(y, x)
    BY <2>1, <2>2, RunnableTimeless
  <2> QED BY <2>1, <2>3, TimelyTimeless
<1> QED BY <1>2, <1>4, <1>5, <1>6, <1>7, <1>8, <1>9 DEF Booted

LEMMA HandlerBoots ==
  ASSUME NEW cfg \in Configurations, NEW i \in Cyclic, NEW x, Booted(x, cfg, i - 1),
         NEW y, y = tmevtb_enqueue_cyc([x EXCEPT !.cycsta[i] = TRUE], i, cfg.cycphs[i])
  PROVE  Booted(y, cfg, i)
<1>1. Sound(x) /\ x.cfg = cfg /\ ~x.interrupt /\ ~x.ticking /\ ~x.locked /\ ~x.cycsta[i]
  BY TickFitsWord DEF Booted, Cyclic
<1>2. PICK R, C, S : Fits(x, R, C, S)
  BY <1>1 DEF Sound
<1>3. Mid(x, i, R, C, S) /\ CyclicFits(x, i) /\ i \in EventOwner
  BY <1>2, FitsMid, Owners DEF Fits
<1>4. Nodes(x, i) = {} /\ Shape(x) /\ Events(x)
  BY <1>1, <1>2, <1>3 DEF CyclicFits, Handled, Fits, Base
<1>5. PICK b : b = [x EXCEPT !.cycsta[i] = TRUE]
  OBVIOUS
<1>6. /\ b = [f \in Fields |-> b[f]] /\ Same(b, x, {"cycsta"})
      /\ b.cycsta = [x.cycsta EXCEPT ![i] = TRUE]
  BY <1>4, <1>5 DEF Shape, Fields, Same
<1>7. b.evttim = x.evttim
  BY <1>6 DEF Same, Fields
<1>8. Marked(b, x, i) /\ Started(b, i)
  BY <1>4, <1>6, <1>7 DEF Marked, Events, Started, Same
<1>9. Mid(b, i, R, C, S) /\ Nodes(b, i) = {} /\ Same(b, x, Quiet)
  BY <1>3, <1>4, <1>8, MarkedKept
<1>10. PICK time : time = cfg.cycphs[i]
  OBVIOUS
<1>11. time \in EVTTIM
  <2>1. cfg.cycphs \in [Cyclic -> 0 .. TMAX_RELTIM]
    BY ConfigurationTable DEF Configured
  <2>2. time \in 0 .. TMAX_RELTIM
    BY <1>10, <2>1
  <2>3. PICK M, H : M = 2 ^ EVTTIM_BITS /\ H = 2 ^ (EVTTIM_BITS - 1)
    OBVIOUS
  <2>4. M \in Nat /\ H \in Nat /\ H <= M
    BY <2>3, WordSize, HalfWord
  <2>5. time \in 0 .. H - 1
    BY <2>2, <2>3 DEF TMAX_RELTIM
  <2>6. time \in 0 .. M - 1
    BY <2>4, <2>5
  <2> QED BY <2>3, <2>6 DEF EVTTIM
<1>12. Fits(y, R, C, S) /\ Same(y, b, Quiet) /\ y.cycsta = b.cycsta
  <2>1. y = tmevtb_enqueue_cyc(b, i, time)
    BY <1>5, <1>10
  <2> QED BY <1>8, <1>9, <1>11, <2>1, EnqueuesCyc
<1>13. Same(y, x, Quiet)
  BY <1>9, <1>12, SameQuiet
<1>14. /\ y.cfg = x.cfg /\ y.interrupt = x.interrupt /\ y.ticking = x.ticking
       /\ y.locked = x.locked /\ y.tcb = x.tcb
  BY <1>13 DEF Quiet, Same, Fields
<1>15. \A t \in Task : t > i => TSTAT_DORMANT(y, t)
  BY <1>14 DEF Booted, TSTAT_DORMANT, Task, Cyclic
<1>16. ASSUME NEW c \in Cyclic, c > i PROVE ~y.cycsta[c]
  <2>1. PICK new, old : new = y.cycsta /\ old = x.cycsta
    OBVIOUS
  <2>2. new = [old EXCEPT ![i] = TRUE]
    BY <1>6, <1>12, <2>1
  <2>3. old \in [Cyclic -> BOOLEAN]
    BY <1>4, <2>1 DEF Events
  <2>4. c # i /\ c > i - 1
    BY <1>16, TickFitsWord DEF Cyclic
  <2>5. ~old[c]
    BY <2>1, <2>4 DEF Booted
  <2>6. new[c] = old[c]
    BY <2>2, <2>3, <2>4
  <2> QED BY <2>1, <2>5, <2>6
<1>17. Spares(y, Before(cfg))
  <2>1. Spares(x, Before(cfg)) /\ Whole(x)
    BY <1>1, SoundWhole DEF Booted
  <2>2. PICK c : c = TRUE /\ b = [x EXCEPT !.cycsta[i] = c]
    BY <1>5
  <2>3. Spares(b, x)
    BY <2>1, <2>2, StartCycSpares
  <2>4. Spares(b, Before(cfg)) /\ Whole(b)
    BY <2>1, <2>3, SparesSpares DEF Spares
  <2>5. y = tmevtb_enqueue_cyc(b, i, time)
    BY <1>5, <1>10
  <2>6. Spares(y, b)
    BY <2>4, <2>5, EnqueueCycSpares
  <2> QED BY <2>4, <2>6, SparesSpares
<1>18. Timely(y)
  <2>1. Alters(y, x, i) /\ SetTo(y, i, time) /\ OnTime(y, i)
    BY <1>1, <1>4, <1>10, <1>11, StartedAlters
  <2>2. cfg.cycphs \in [Cyclic -> 0 .. TMAX_RELTIM]
    BY ConfigurationTable DEF Configured
  <2>3. time \in 0 .. TMAX_RELTIM
    BY <1>10, <2>2
  <2>4. Timely(x)
    BY DEF Booted
  <2> QED BY <2>1, <2>3, <2>4, TimelyStarted
<1> QED BY <1>1, <1>12, <1>14, <1>15, <1>16, <1>17, <1>18 DEF Booted, Sound

LEMMA Boots ==
  ASSUME NEW cfg \in Configurations, NEW i \in EventOwner, NEW x, Booted(x, cfg, i - 1),
         NEW y, y = StartUp(cfg, x, i)
  PROVE  Booted(y, cfg, i)
<1>1. Booted(x, cfg, i)
  BY TickFitsWord DEF Booted, EventOwner, Task, Cyclic
<1>2. CASE i \in Task /\ i \in cfg.active
  BY <1>2, TaskBoots DEF StartUp
<1>3. CASE i \notin Task /\ i \in cfg.started
  <2>1. i \in Cyclic /\ y = tmevtb_enqueue_cyc([x EXCEPT !.cycsta[i] = TRUE], i, cfg.cycphs[i])
    BY <1>3 DEF StartUp, EventOwner
  <2> QED BY <2>1, HandlerBoots
<1>4. CASE ~(i \in Task /\ i \in cfg.active) /\ ~(i \notin Task /\ i \in cfg.started)
  BY <1>1, <1>4 DEF StartUp
<1> QED BY <1>2, <1>3, <1>4

\* One table after the other.
LEMMA BootsAll ==
  ASSUME NEW cfg \in Configurations, NEW base, NEW a \in Nat, NEW b \in Nat,
         a + 1 .. b \subseteq EventOwner, Booted(base, cfg, a),
         NEW f, f = [i \in a .. b |-> From(cfg, base, f, a, i)]
  PROVE  \A i \in a .. b : Booted(f[i], cfg, i)
<1> DEFINE bad == {i \in a .. b : ~Booted(f[i], cfg, i)}
<1>1. SUFFICES ASSUME bad # {} PROVE FALSE
  OBVIOUS
<1>2. bad \subseteq Nat
  OBVIOUS
<1>3. PICK i \in bad : \A j \in bad : i <= j
  <2> HIDE DEF bad
  <2> QED BY <1>1, <1>2, LeastNumber
<1>4. i \in a .. b /\ ~Booted(f[i], cfg, i)
  BY <1>3
<1>5. PICK y : y = f[i]
  OBVIOUS
<1>6. y = From(cfg, base, f, a, i)
  BY <1>4, <1>5
<1>7. CASE i = a
  BY <1>4, <1>5, <1>6, <1>7 DEF From
<1>8. CASE i # a
  <2>1. PICK x : x = f[i - 1]
    OBVIOUS
  <2>2. i - 1 \in a .. b /\ i - 1 \notin bad /\ i \in EventOwner
    <3>1. i - 1 \in a .. b /\ ~(i <= i - 1) /\ i \in a + 1 .. b
      BY <1>4, <1>8
    <3> QED BY <1>3, <3>1
  <2>3. Booted(x, cfg, i - 1)
    BY <2>1, <2>2
  <2>4. y = StartUp(cfg, x, i)
    BY <1>6, <1>8, <2>1 DEF From
  <2>5. Booted(y, cfg, i)
    BY <2>2, <2>3, <2>4, Boots
  <2> QED BY <1>4, <1>5, <2>5
<1> QED BY <1>7, <1>8

TaskTable(cfg) ==
  LET none == Before(cfg)
      tasks[t \in 0 .. TNUM_TSK] ==
        IF t = 0 THEN none
        ELSE IF t \in cfg.active THEN make_active(tasks[t - 1], t) ELSE tasks[t - 1]
  IN  tasks[TNUM_TSK]

HandlerTable(cfg, base) ==
  LET handlers[c \in TNUM_TSK .. TNUM_TSK + TNUM_CYC] ==
        IF c = TNUM_TSK THEN base
        ELSE IF c \in cfg.started
        THEN tmevtb_enqueue_cyc([handlers[c - 1] EXCEPT !.cycsta[c] = TRUE], c, cfg.cycphs[c])
        ELSE handlers[c - 1]
  IN  handlers[TNUM_TSK + TNUM_CYC]

LEMMA InTables ==
  ASSUME NEW cfg
  PROVE  Initialized(cfg) = HandlerTable(cfg, TaskTable(cfg))
BY DEF Initialized, HandlerTable, TaskTable, Before

LEMMA TasksBoot ==
  ASSUME NEW cfg \in Configurations, NEW m, m = TaskTable(cfg)
  PROVE  Booted(m, cfg, TNUM_TSK)
<1>1. PICK N : N = TNUM_TSK
  OBVIOUS
<1>2. N \in Nat /\ N \in Nat \ {0} /\ Task = 1 .. N /\ N \in 0 .. N
  BY <1>1, TickFitsWord DEF Task
<1>3. PICK base : base = Before(cfg)
  OBVIOUS
<1>4. Booted(base, cfg, 0)
  <2>1. Silent(base, cfg) /\ \A f \in Flags : base[f] \in BOOLEAN
    BY <1>3, BeforeSilent
  <2>2. Sound(base)
    BY <2>1, SilentSound
  <2>3. /\ base.cfg = cfg /\ ~base.interrupt /\ ~base.ticking /\ ~base.locked
        /\ \A t \in Task : TSTAT_DORMANT(base, t)
    BY <2>1 DEF Silent, TSTAT_DORMANT
  <2>4. PICK started : started = base.cycsta
    OBVIOUS
  <2>5. started = [c \in Cyclic |-> FALSE]
    BY <2>1, <2>4 DEF Silent
  <2>6. \A c \in Cyclic : ~base.cycsta[c]
    BY <2>4, <2>5
  <2>7. Spares(base, Before(cfg))
    BY <1>3, <2>2, SoundWhole, SparesSelf
  <2>8. Timely(base)
    <3>1. base.heap = << >> /\ base.current_time = 0
      BY <2>1 DEF Silent
    <3>2. \A o : Nodes(base, o) = {}
      BY <3>1 DEF Nodes, Elements
    <3> QED BY <3>1, <3>2 DEF Timely, Punctual, OnTime
  <2> QED BY <2>2, <2>3, <2>6, <2>7, <2>8 DEF Booted
<1>11. PICK zero \in Nat : zero = 0
  OBVIOUS
<1>5. \E f : f = [t \in 0 .. N |-> From(cfg, base, f, 0, t)]
  <2>1. zero \in Nat /\ N \in Nat
    BY <1>2
  <2>2. \E f : f = [t \in zero .. N |-> From(cfg, base, f, zero, t)]
    BY <2>1, StartDefined
  <2> QED BY <1>11, <2>2
<1>6. ASSUME NEW f, NEW t \in 0 .. N
      PROVE  From(cfg, base, f, 0, t) =
               IF t = 0 THEN base
               ELSE IF t \in cfg.active THEN make_active(f[t - 1], t) ELSE f[t - 1]
  BY <1>2 DEF From, StartUp
<1>7. \E f : f = [t \in 0 .. N |->
                    IF t = 0 THEN base
                    ELSE IF t \in cfg.active THEN make_active(f[t - 1], t) ELSE f[t - 1]]
  <2>1. PICK f : f = [t \in 0 .. N |-> From(cfg, base, f, 0, t)]
    BY <1>5
  <2> QED BY <1>6, <2>1
<1>8. PICK tasks :
        /\ tasks = [t \in 0 .. N |->
                      IF t = 0 THEN base
                      ELSE IF t \in cfg.active THEN make_active(tasks[t - 1], t) ELSE tasks[t - 1]]
        /\ m = tasks[N]
  <2>1. PICK tasks : tasks = CHOOSE f : f = [t \in 0 .. N |->
                    IF t = 0 THEN base
                    ELSE IF t \in cfg.active THEN make_active(f[t - 1], t) ELSE f[t - 1]]
    OBVIOUS
  <2>2. m = tasks[N]
    BY <1>1, <1>3, <2>1 DEF TaskTable
  <2>3. tasks = [t \in 0 .. N |->
                   IF t = 0 THEN base
                   ELSE IF t \in cfg.active THEN make_active(tasks[t - 1], t) ELSE tasks[t - 1]]
    BY <1>7, <2>1
  <2> QED BY <2>2, <2>3
<1>9. tasks = [t \in 0 .. N |-> From(cfg, base, tasks, 0, t)]
  BY <1>6, <1>8
<1>10. 0 + 1 .. N \subseteq EventOwner
  BY <1>2 DEF EventOwner
<1>12. \A i \in zero .. N : Booted(tasks[i], cfg, i)
  <2>1. zero + 1 .. N \subseteq EventOwner /\ Booted(base, cfg, zero)
        /\ tasks = [t \in zero .. N |-> From(cfg, base, tasks, zero, t)]
    BY <1>4, <1>9, <1>10, <1>11
  <2> QED BY <1>2, <2>1, BootsAll
<1> QED BY <1>1, <1>2, <1>8, <1>11, <1>12

LEMMA HandlersBoot ==
  ASSUME NEW cfg \in Configurations, NEW base, Booted(base, cfg, TNUM_TSK),
         NEW m, m = HandlerTable(cfg, base)
  PROVE  Booted(m, cfg, TNUM_TSK + TNUM_CYC)
<1>1. PICK N, M : N = TNUM_TSK /\ M = TNUM_TSK + TNUM_CYC
  OBVIOUS
<1>2. N \in Nat /\ M \in Nat /\ M \in N .. M /\ Task = 1 .. N /\ Cyclic = N + 1 .. M
  BY <1>1, TickFitsWord DEF Task, Cyclic
<1>3. Booted(base, cfg, N)
  BY <1>1
<1>4. \E f : f = [c \in N .. M |-> From(cfg, base, f, N, c)]
  BY <1>2, StartDefined
<1> DEFINE next(f, c) ==
        IF c = N THEN base
        ELSE IF c \in cfg.started
        THEN tmevtb_enqueue_cyc([f[c - 1] EXCEPT !.cycsta[c] = TRUE], c, cfg.cycphs[c])
        ELSE f[c - 1]
<1>5. ASSUME NEW f, NEW c \in N .. M
      PROVE  From(cfg, base, f, N, c) = next(f, c)
  <2>1. c # N => c \notin Task
    BY <1>2
  <2> QED BY <2>1 DEF From, StartUp
<1>6. \E f : f = [c \in N .. M |-> next(f, c)]
  <2>1. PICK f : f = [c \in N .. M |-> From(cfg, base, f, N, c)]
    BY <1>4
  <2> HIDE DEF next
  <2> QED BY <1>5, <2>1
<1>7. PICK handlers : handlers = [c \in N .. M |-> next(handlers, c)] /\ m = handlers[M]
  <2>1. PICK handlers : handlers = CHOOSE f : f = [c \in N .. M |-> next(f, c)]
    OBVIOUS
  <2>2. m = handlers[M]
    BY <1>1, <2>1 DEF HandlerTable
  <2>3. handlers = [c \in N .. M |-> next(handlers, c)]
    <3> HIDE DEF next
    <3> QED BY <1>6, <2>1
  <2> QED BY <2>2, <2>3
<1> HIDE DEF next
<1>8. handlers = [c \in N .. M |-> From(cfg, base, handlers, N, c)]
  BY <1>5, <1>7
<1>9. N + 1 .. M \subseteq EventOwner
  BY <1>2 DEF EventOwner
<1>10. \A i \in N .. M : Booted(handlers[i], cfg, i)
  BY <1>2, <1>3, <1>8, <1>9, BootsAll
<1> QED BY <1>1, <1>2, <1>7, <1>10

LEMMA InitBoots ==
  ASSUME NEW cfg \in Configurations
  PROVE  Booted(Initialized(cfg), cfg, TNUM_TSK + TNUM_CYC)
<1>1. PICK a, b : a = TaskTable(cfg) /\ b = HandlerTable(cfg, a)
  OBVIOUS
<1>2. Booted(a, cfg, TNUM_TSK)
  BY <1>1, TasksBoot
<1>3. Booted(b, cfg, TNUM_TSK + TNUM_CYC)
  BY <1>1, <1>2, HandlersBoot
<1>4. b = Initialized(cfg)
  BY <1>1, InTables
<1> QED BY <1>3, <1>4

LEMMA InitCore ==
  ASSUME NEW cfg \in Configurations, NEW m, m = dispatch(Initialized(cfg))
  PROVE  Core(m) /\ m.cfg = cfg /\ m.runtsk = Initialized(cfg).schedtsk /\ Timely(m) /\ ~m.ticking
<1>1. PICK b : b = Initialized(cfg)
  OBVIOUS
<1>2. Booted(b, cfg, TNUM_TSK + TNUM_CYC) /\ m = dispatch(b)
  BY <1>1, InitBoots
<1>3. Sound(b) /\ ~b.interrupt /\ ~b.ticking /\ ~b.locked /\ b.cfg = cfg
  BY <1>2 DEF Booted
<1>4. Core(m) /\ m.cfg = cfg /\ m.runtsk = b.schedtsk
  BY <1>2, <1>3, Dispatches
<1>5. Timeless(m, b)
  BY <1>2, <1>3, SoundMade, DispatchTimeless
<1>6. Timely(m)
  BY <1>2, <1>5, TimelyTimeless DEF Booted
<1>7. m.ticking = b.ticking
  BY <1>5, TimelessFacts
<1> QED BY <1>1, <1>3, <1>4, <1>6, <1>7

--------------------------------------------------------------------------------
(* Every step. *)

LEMMA Calling ==
  ASSUME Core(kernel), TaskContext
  PROVE  /\ Sound(kernel) /\ ~kernel.interrupt /\ kernel.runtsk # NULL
         /\ Caller(kernel, kernel.runtsk) /\ kernel.runtsk \in Task
         /\ kernel.enadsp => kernel.schedtsk = kernel.runtsk
BY DEF Core, Control, TaskContext, Caller

LEMMA Handling ==
  ASSUME Core(kernel), NEW service, InHandler(service)
  PROVE  Sound(kernel) /\ Control(kernel) /\ kernel.interrupt
BY DEF Core, InHandler

LEMMA EndsReturns ==
  ASSUME Core(kernel), NEW service, InTask(service), NEW n, Ends(n, kernel), Returns(n)
  PROVE  Core(kernel')
<1>1. ~kernel.interrupt /\ ~kernel.locked
  BY DEF InTask, TaskContext
<1>2. PICK m : m = kernel'
  OBVIOUS
<1>3. m = Dispatched(n)
  BY <1>2 DEF Returns
<1>4. Core(m)
  BY <1>1, <1>3, DispatchedCore
<1> QED BY <1>2, <1>4

LEMMA DoesReturns ==
  ASSUME Core(kernel), NEW service, InTask(service), NEW n, Does(n, kernel), Returns(n)
  PROVE  Core(kernel')
<1>1. Caller(kernel, kernel.runtsk)
  BY Calling DEF InTask
<1>2. Ends(n, kernel)
  BY <1>1, DoesEnds
<1> QED BY <1>2, EndsReturns

LEMMA ServesReturns ==
  ASSUME Core(kernel), NEW service, InTask(service), NEW n, Serves(n, kernel), Returns(n)
  PROVE  Core(kernel')
BY DoesReturns DEF Does

LEMMA KeepsReturns ==
  ASSUME Core(kernel), NEW service, InTask(service), NEW t \in Task, NEW n, Keeps(n, kernel, t),
         Returns(n)
  PROVE  Core(kernel')
BY ServesReturns DEF Serves

LEMMA KeepsLeaves ==
  ASSUME Core(kernel), NEW service, InHandler(service), NEW t \in Task, NEW n,
         Keeps(n, kernel, t), Leaves(n)
  PROVE  Core(kernel')
<1>1. Control(kernel) /\ kernel.interrupt
  BY Handling
<1>2. PICK m : m = kernel'
  OBVIOUS
<1>3. m = Requested(n)
  BY <1>2 DEF Leaves
<1>4. Core(m)
  BY <1>1, <1>3, RequestedCore
<1> QED BY <1>2, <1>4

LEMMA ServesLeaves ==
  ASSUME Core(kernel), NEW service, InHandler(service), NEW n, Serves(n, kernel), Leaves(n)
  PROVE  Core(kernel')
BY KeepsLeaves DEF Serves

LEMMA MayCall ==
  ASSUME Core(kernel), NEW service, InTask(service)
  PROVE  /\ Sound(kernel) /\ ~kernel.interrupt /\ ~kernel.locked /\ kernel.runtsk # NULL
         /\ Caller(kernel, kernel.runtsk) /\ kernel.runtsk \in Task
         /\ kernel.enadsp => kernel.schedtsk = kernel.runtsk
BY Calling DEF InTask

LEMMA Timeouts ==
  ASSUME Core(kernel)
  PROVE  /\ \A tmout \in kernel.cfg.tmouts : tmout \in Int
         /\ \A time \in kernel.cfg.dlytims : time \in Int
         /\ kernel.cfg.pris \subseteq Priority /\ kernel.cfg.handlers \subseteq Cyclic
         /\ TMO_POL \in Int
<1>1. Shape(kernel)
  BY SoundShape DEF Core
<1>2. PICK T, D : T = kernel.cfg.tmouts /\ D = kernel.cfg.dlytims
  OBVIOUS
<1>3. /\ T \subseteq {TMO_FEVR} \cup 1 .. TMAX_RELTIM /\ D \subseteq 0 .. TMAX_RELTIM
      /\ kernel.cfg.pris \subseteq Priority /\ kernel.cfg.handlers \subseteq Cyclic
  BY <1>1, <1>2, Configuration
<1>4. TMO_FEVR \in Int /\ TMO_POL \in Int
  BY DEF TMO_FEVR, TMO_POL
<1>5. T \subseteq Int /\ D \subseteq Int
  BY <1>3, <1>4
<1> QED BY <1>2, <1>3, <1>4, <1>5

--------------------------------------------------------------------------------
(* Tasks. *)

LEMMA ActsCore ==
  ASSUME Core(kernel), ActTsk \/ IactTsk \/ CanAct \/ ExtTsk \/ TerTsk \/ ChgPri
  PROVE  Core(kernel')
<1>1. CASE ActTsk
  <2>1. PICK t \in Task : InTask("act_tsk") /\ Returns(act_tsk(kernel, t))
    BY <1>1 DEF ActTsk
  <2>2. PICK n : n = act_tsk(kernel, t)
    OBVIOUS
  <2>3. Keeps(n, kernel, t)
    BY <2>1, <2>2, MayCall, ActTskServes
  <2>4. Returns(n)
    BY <2>1, <2>2 DEF Returns
  <2> QED BY <2>1, <2>3, <2>4, KeepsReturns
<1>2. CASE IactTsk
  <2>1. PICK t \in Task : InHandler("iact_tsk") /\ Leaves(act_tsk(kernel, t))
    BY <1>2 DEF IactTsk
  <2>2. PICK n : n = act_tsk(kernel, t)
    OBVIOUS
  <2>3. Keeps(n, kernel, t)
    BY <2>1, <2>2, Handling, ActTskServes
  <2>4. Leaves(n)
    BY <2>1, <2>2 DEF Leaves
  <2> QED BY <2>1, <2>3, <2>4, KeepsLeaves
<1>3. CASE CanAct
  <2>1. PICK t \in Task : InTask("can_act") /\ Returns(can_act(kernel, t))
    BY <1>3 DEF CanAct
  <2>2. PICK n : n = can_act(kernel, t)
    OBVIOUS
  <2>3. Keeps(n, kernel, t)
    BY <2>1, <2>2, MayCall, CanCountServes
  <2>4. Returns(n)
    BY <2>1, <2>2 DEF Returns
  <2> QED BY <2>1, <2>3, <2>4, KeepsReturns
<1>4. CASE ExtTsk
  <2>1. TaskContext /\ kernel' = ext_tsk(kernel)
    BY <1>4 DEF ExtTsk
  <2>2. PICK m : m = kernel'
    OBVIOUS
  <2>3. m = ext_tsk(kernel) /\ ~kernel.interrupt /\ kernel.runtsk # NULL
    BY <2>1, <2>2, Calling
  <2>4. Core(m)
    BY <2>3, ExtTskCore
  <2> QED BY <2>2, <2>4
<1>5. CASE TerTsk
  <2>1. PICK t \in Others : InTask("ter_tsk") /\ ~TSTAT_DORMANT(kernel, t)
               /\ Returns(ter_tsk(kernel, t))
    BY <1>5 DEF TerTsk
  <2>2. PICK n : n = ter_tsk(kernel, t)
    OBVIOUS
  <2>3. t \in Task /\ t # kernel.runtsk
    BY DEF Others
  <2>4. Ends(n, kernel)
    BY <2>1, <2>2, <2>3, MayCall, TerTskEnds
  <2>5. Returns(n)
    BY <2>1, <2>2 DEF Returns
  <2> QED BY <2>1, <2>4, <2>5, EndsReturns
<1>6. CASE ChgPri
  <2>1. PICK t \in Task, pri \in kernel.cfg.pris : InTask("chg_pri") /\ Returns(chg_pri(kernel,
               t, pri))
    BY <1>6 DEF ChgPri
  <2>2. PICK n : n = chg_pri(kernel, t, pri)
    OBVIOUS
  <2>3. pri \in Priority
    BY Timeouts
  <2>4. Keeps(n, kernel, t)
    BY <2>1, <2>2, <2>3, MayCall, ChgPriServes
  <2>5. Returns(n)
    BY <2>1, <2>2 DEF Returns
  <2> QED BY <2>1, <2>4, <2>5, KeepsReturns
<1> QED BY <1>1, <1>2, <1>3, <1>4, <1>5, <1>6

LEMMA WaitsCore ==
  ASSUME Core(kernel), TslpTsk \/ DlyTsk \/ WupTsk \/ IwupTsk \/ CanWup \/ RelWai \/ IrelWai
         \/ SusTsk \/ RsmTsk
  PROVE  Core(kernel')
<1>1. CASE TslpTsk
  <2>1. PICK tmout \in kernel.cfg.tmouts :
           InTask("tslp_tsk") /\ Returns(tslp_tsk(kernel, tmout))
    BY <1>1 DEF TslpTsk, MayWait
  <2>2. PICK n : n = tslp_tsk(kernel, tmout)
    OBVIOUS
  <2>3. tmout \in Int
    BY Timeouts
  <2>4. Does(n, kernel)
    BY <2>1, <2>2, <2>3, MayCall, TslpTskDoes
  <2>5. Returns(n)
    BY <2>1, <2>2 DEF Returns
  <2> QED BY <2>1, <2>4, <2>5, DoesReturns
<1>2. CASE DlyTsk
  <2>1. PICK time \in kernel.cfg.dlytims :
           InTask("dly_tsk") /\ Returns(dly_tsk(kernel, time))
    BY <1>2 DEF DlyTsk, MayWait
  <2>2. PICK n : n = dly_tsk(kernel, time)
    OBVIOUS
  <2>3. time \in Int
    BY Timeouts
  <2>4. Does(n, kernel)
    BY <2>1, <2>2, <2>3, MayCall, CallerDelays DEF Does
  <2>5. Returns(n)
    BY <2>1, <2>2 DEF Returns
  <2> QED BY <2>1, <2>4, <2>5, DoesReturns
<1>3. CASE WupTsk
  <2>1. PICK t \in Task :
           InTask("wup_tsk") /\ Returns(wup_tsk(kernel, t))
    BY <1>3 DEF WupTsk
  <2>2. PICK n : n = wup_tsk(kernel, t)
    OBVIOUS
  <2>3. Keeps(n, kernel, t)
    BY <2>1, <2>2, MayCall, WupTskServes
  <2>4. Returns(n)
    BY <2>1, <2>2 DEF Returns
  <2> QED BY <2>1, <2>3, <2>4, KeepsReturns
<1>4. CASE IwupTsk
  <2>1. PICK t \in Task :
           InHandler("iwup_tsk") /\ Leaves(wup_tsk(kernel, t))
    BY <1>4 DEF IwupTsk
  <2>2. PICK n : n = wup_tsk(kernel, t)
    OBVIOUS
  <2>3. Keeps(n, kernel, t)
    BY <2>1, <2>2, Handling, WupTskServes
  <2>4. Leaves(n)
    BY <2>1, <2>2 DEF Leaves
  <2> QED BY <2>1, <2>3, <2>4, KeepsLeaves
<1>5. CASE CanWup
  <2>1. PICK t \in Task :
           InTask("can_wup") /\ Returns(can_wup(kernel, t))
    BY <1>5 DEF CanWup
  <2>2. PICK n : n = can_wup(kernel, t)
    OBVIOUS
  <2>3. Keeps(n, kernel, t)
    BY <2>1, <2>2, MayCall, CanCountServes
  <2>4. Returns(n)
    BY <2>1, <2>2 DEF Returns
  <2> QED BY <2>1, <2>3, <2>4, KeepsReturns
<1>6. CASE RelWai
  <2>1. PICK t \in Task :
           InTask("rel_wai") /\ TSTAT_WAITING(kernel, t) /\ Returns(wait_release(kernel, t))
    BY <1>6 DEF RelWai
  <2>2. PICK n : n = wait_release(kernel, t)
    OBVIOUS
  <2>3. Keeps(n, kernel, t)
    BY <2>1, <2>2, MayCall, Releases
  <2>4. Returns(n)
    BY <2>1, <2>2 DEF Returns
  <2> QED BY <2>1, <2>3, <2>4, KeepsReturns
<1>7. CASE IrelWai
  <2>1. PICK t \in Task :
           InHandler("irel_wai") /\ TSTAT_WAITING(kernel, t) /\ Leaves(wait_release(kernel, t))
    BY <1>7 DEF IrelWai
  <2>2. PICK n : n = wait_release(kernel, t)
    OBVIOUS
  <2>3. Keeps(n, kernel, t)
    BY <2>1, <2>2, Handling, Releases
  <2>4. Leaves(n)
    BY <2>1, <2>2 DEF Leaves
  <2> QED BY <2>1, <2>3, <2>4, KeepsLeaves
<1>8. CASE SusTsk
  <2>1. PICK t \in Task :
           InTask("sus_tsk") /\ ~TSTAT_DORMANT(kernel, t) /\ ~TSTAT_SUSPENDED(kernel, t)
             /\ (t = kernel.runtsk => kernel.enadsp) /\ Returns(sus_tsk(kernel, t))
    BY <1>8 DEF SusTsk
  <2>2. PICK n : n = sus_tsk(kernel, t)
    OBVIOUS
  <2>3. Ends(n, kernel)
    BY <2>1, <2>2, MayCall, SusTskEnds
  <2>4. Returns(n)
    BY <2>1, <2>2 DEF Returns
  <2> QED BY <2>1, <2>3, <2>4, EndsReturns
<1>9. CASE RsmTsk
  <2>1. PICK t \in Task :
           InTask("rsm_tsk") /\ TSTAT_SUSPENDED(kernel, t) /\ Returns(rsm_tsk(kernel, t))
    BY <1>9 DEF RsmTsk, Others
  <2>2. PICK n : n = rsm_tsk(kernel, t)
    OBVIOUS
  <2>3. Keeps(n, kernel, t)
    BY <2>1, <2>2, MayCall, RsmTskServes
  <2>4. Returns(n)
    BY <2>1, <2>2 DEF Returns
  <2> QED BY <2>1, <2>3, <2>4, KeepsReturns
<1> QED BY <1>1, <1>2, <1>3, <1>4, <1>5, <1>6, <1>7, <1>8, <1>9

LEMMA SwitchesCore ==
  ASSUME Core(kernel), RasTex \/ IrasTex \/ DisTex \/ EnaTex \/ TexReturn \/ RotRdq \/ IrotRdq
         \/ LocCpu \/ UnlCpu \/ DisDsp \/ EnaDsp
  PROVE  Core(kernel')
<1>1. CASE RasTex
  <2>1. PICK t \in Task :
           InTask("ras_tex") /\ kernel' = Dispatched(ras_tex(kernel, t))
    BY <1>1 DEF RasTex, Returns
  <2>2. PICK m : m = kernel'
    OBVIOUS
  <2>3. m = Dispatched(ras_tex(kernel, t))
    BY <2>1, <2>2
  <2>4. Core(m)
    BY <2>1, <2>3, MayCall, RasTexCore
  <2> QED BY <2>2, <2>4
<1>2. CASE IrasTex
  <2>1. PICK t \in Task :
           InHandler("ras_tex") /\ kernel' = Requested(iras_tex(kernel, t))
    BY <1>2 DEF IrasTex, Leaves
  <2>2. PICK m : m = kernel'
    OBVIOUS
  <2>3. m = Requested(iras_tex(kernel, t))
    BY <2>1, <2>2
  <2>4. Core(m)
    BY <2>1, <2>3, Handling, IrasTexCore
  <2> QED BY <2>2, <2>4
<1>3. CASE DisTex
  <2>1. InTask("ras_tex") /\ kernel' = Dispatched(dis_tex(kernel))
    BY <1>3 DEF DisTex, Returns
  <2>2. PICK m : m = kernel'
    OBVIOUS
  <2>3. m = Dispatched(dis_tex(kernel))
    BY <2>1, <2>2
  <2>4. Core(m)
    BY <2>1, <2>3, MayCall, DisTexCore
  <2> QED BY <2>2, <2>4
<1>4. CASE EnaTex
  <2>1. InTask("ras_tex") /\ kernel' = Dispatched(ena_tex(kernel))
    BY <1>4 DEF EnaTex, Returns
  <2>2. PICK m : m = kernel'
    OBVIOUS
  <2>3. m = Dispatched(ena_tex(kernel))
    BY <2>1, <2>2
  <2>4. Core(m)
    BY <2>1, <2>3, MayCall, EnaTexCore
  <2> QED BY <2>2, <2>4
<1>5. CASE TexReturn
  <2>1. TaskContext /\ kernel' = [TexReturned(kernel) EXCEPT !.locked = FALSE]
    BY <1>5 DEF TexReturn
  <2>2. PICK m : m = kernel'
    OBVIOUS
  <2>3. m = [TexReturned(kernel) EXCEPT !.locked = FALSE]
    BY <2>1, <2>2
  <2>4. Core(m)
    BY <2>1, <2>3, Calling, TexReturnCore
  <2> QED BY <2>2, <2>4
<1>6. CASE RotRdq
  <2>1. PICK pri \in Priority :
           InTask("rot_rdq") /\ Returns(rot_rdq(kernel, pri))
    BY <1>6 DEF RotRdq
  <2>2. PICK n : n = rot_rdq(kernel, pri)
    OBVIOUS
  <2>3. Serves(n, kernel)
    BY <2>1, <2>2, MayCall, RotRdqServes
  <2>4. Returns(n)
    BY <2>1, <2>2 DEF Returns
  <2> QED BY <2>1, <2>3, <2>4, ServesReturns
<1>7. CASE IrotRdq
  <2>1. PICK pri \in Priority :
           InHandler("irot_rdq") /\ Leaves(rot_rdq(kernel, pri))
    BY <1>7 DEF IrotRdq
  <2>2. PICK n : n = rot_rdq(kernel, pri)
    OBVIOUS
  <2>3. Serves(n, kernel)
    BY <2>1, <2>2, Handling, RotRdqServes
  <2>4. Leaves(n)
    BY <2>1, <2>2 DEF Leaves
  <2> QED BY <2>1, <2>3, <2>4, ServesLeaves
<1>8. CASE LocCpu
  <2>1. InTask("loc_cpu") /\ kernel' = Dispatched(loc_cpu(kernel))
    BY <1>8 DEF LocCpu, Returns
  <2>2. PICK m : m = kernel'
    OBVIOUS
  <2>3. m = Dispatched(loc_cpu(kernel))
    BY <2>1, <2>2
  <2>4. Core(m)
    BY <2>1, <2>3, MayCall, LocCpuCore
  <2> QED BY <2>2, <2>4
<1>9. CASE UnlCpu
  <2>1. TaskContext /\ kernel' = Dispatched(unl_cpu(kernel))
    BY <1>9 DEF UnlCpu, Returns
  <2>2. PICK m : m = kernel'
    OBVIOUS
  <2>3. m = Dispatched(unl_cpu(kernel))
    BY <2>1, <2>2
  <2>4. Core(m)
    BY <2>1, <2>3, Calling, LocCpuCore
  <2> QED BY <2>2, <2>4
<1>10. CASE DisDsp
  <2>1. InTask("dis_dsp") /\ kernel' = Dispatched(dis_dsp(kernel))
    BY <1>10 DEF DisDsp, Returns
  <2>2. PICK m : m = kernel'
    OBVIOUS
  <2>3. m = Dispatched(dis_dsp(kernel))
    BY <2>1, <2>2
  <2>4. Core(m)
    BY <2>1, <2>3, MayCall, DisDspCore
  <2> QED BY <2>2, <2>4
<1>11. CASE EnaDsp
  <2>1. InTask("dis_dsp") /\ kernel' = Dispatched(ena_dsp(kernel))
    BY <1>11 DEF EnaDsp, Returns
  <2>2. PICK m : m = kernel'
    OBVIOUS
  <2>3. m = Dispatched(ena_dsp(kernel))
    BY <2>1, <2>2
  <2>4. Core(m)
    BY <2>1, <2>3, MayCall, EnaDspCore
  <2> QED BY <2>2, <2>4
<1> QED BY <1>1, <1>2, <1>3, <1>4, <1>5, <1>6, <1>7, <1>8, <1>9, <1>10, <1>11

--------------------------------------------------------------------------------
(* Objects. *)

LEMMA SemFlgCore ==
  ASSUME Core(kernel), SigSem \/ IsigSem \/ WaiSem \/ PolSem \/ SetFlg \/ IsetFlg \/ ClrFlg
         \/ WaiFlg \/ PolFlg
  PROVE  Core(kernel')
<1>1. CASE SigSem
  <2>1. InTask("sem") /\ Returns(sig_sem(kernel))
    BY <1>1 DEF SigSem
  <2>2. PICK n : n = sig_sem(kernel)
    OBVIOUS
  <2>3. Serves(n, kernel)
    BY <2>1, <2>2, MayCall, SigSemServes
  <2>4. Returns(n)
    BY <2>1, <2>2 DEF Returns
  <2> QED BY <2>1, <2>3, <2>4, ServesReturns
<1>2. CASE IsigSem
  <2>1. InHandler("isig_sem") /\ Leaves(sig_sem(kernel))
    BY <1>2 DEF IsigSem
  <2>2. PICK n : n = sig_sem(kernel)
    OBVIOUS
  <2>3. Serves(n, kernel)
    BY <2>1, <2>2, Handling, SigSemServes
  <2>4. Leaves(n)
    BY <2>1, <2>2 DEF Leaves
  <2> QED BY <2>1, <2>3, <2>4, ServesLeaves
<1>3. CASE WaiSem
  <2>1. PICK tmout \in kernel.cfg.tmouts :
           InTask("sem") /\ Returns(twai_sem(kernel, tmout))
    BY <1>3 DEF WaiSem, MayWait
  <2>2. PICK n : n = twai_sem(kernel, tmout)
    OBVIOUS
  <2>3. tmout \in Int
    BY Timeouts
  <2>4. Does(n, kernel)
    BY <2>1, <2>2, <2>3, MayCall, TwaiSemDoes
  <2>5. Returns(n)
    BY <2>1, <2>2 DEF Returns
  <2> QED BY <2>1, <2>4, <2>5, DoesReturns
<1>4. CASE PolSem
  <2>1. InTask("sem") /\ Returns(twai_sem(kernel, TMO_POL))
    BY <1>4 DEF PolSem
  <2>2. PICK n : n = twai_sem(kernel, TMO_POL)
    OBVIOUS
  <2>3. TMO_POL \in Int
    BY Timeouts
  <2>4. Does(n, kernel)
    BY <2>1, <2>2, <2>3, MayCall, TwaiSemDoes
  <2>5. Returns(n)
    BY <2>1, <2>2 DEF Returns
  <2> QED BY <2>1, <2>4, <2>5, DoesReturns
<1>5. CASE SetFlg
  <2>1. PICK ptn \in kernel.cfg.ptns :
           InTask("flg") /\ Returns(set_flg(kernel, ptn))
    BY <1>5 DEF SetFlg
  <2>2. PICK n : n = set_flg(kernel, ptn)
    OBVIOUS
  <2>3. Serves(n, kernel)
    BY <2>1, <2>2, MayCall, SetFlgServes
  <2>4. Returns(n)
    BY <2>1, <2>2 DEF Returns
  <2> QED BY <2>1, <2>3, <2>4, ServesReturns
<1>6. CASE IsetFlg
  <2>1. PICK ptn \in kernel.cfg.ptns :
           InHandler("iset_flg") /\ Leaves(set_flg(kernel, ptn))
    BY <1>6 DEF IsetFlg
  <2>2. PICK n : n = set_flg(kernel, ptn)
    OBVIOUS
  <2>3. Serves(n, kernel)
    BY <2>1, <2>2, Handling, SetFlgServes
  <2>4. Leaves(n)
    BY <2>1, <2>2 DEF Leaves
  <2> QED BY <2>1, <2>3, <2>4, ServesLeaves
<1>7. CASE ClrFlg
  <2>1. PICK ptn \in kernel.cfg.ptns :
           InTask("flg") /\ Returns(clr_flg(kernel, ptn))
    BY <1>7 DEF ClrFlg
  <2>2. PICK n : n = clr_flg(kernel, ptn)
    OBVIOUS
  <2>3. Serves(n, kernel)
    BY <2>1, <2>2, MayCall, ClrFlgServes
  <2>4. Returns(n)
    BY <2>1, <2>2 DEF Returns
  <2> QED BY <2>1, <2>3, <2>4, ServesReturns
<1>8. CASE WaiFlg
  <2>1. PICK ptn \in kernel.cfg.ptns, mode \in {"TWF_ANDW", "TWF_ORW"},
               tmout \in kernel.cfg.tmouts :
           InTask("flg") /\ Returns(twai_flg(kernel, ptn, mode, tmout))
    BY <1>8 DEF WaiFlg, MayWait
  <2>2. PICK n : n = twai_flg(kernel, ptn, mode, tmout)
    OBVIOUS
  <2>3. tmout \in Int
    BY Timeouts
  <2>4. Does(n, kernel)
    BY <2>1, <2>2, <2>3, MayCall, TwaiFlgDoes
  <2>5. Returns(n)
    BY <2>1, <2>2 DEF Returns
  <2> QED BY <2>1, <2>4, <2>5, DoesReturns
<1>9. CASE PolFlg
  <2>1. PICK ptn \in kernel.cfg.ptns, mode \in {"TWF_ANDW", "TWF_ORW"} :
           InTask("flg") /\ Returns(twai_flg(kernel, ptn, mode, TMO_POL))
    BY <1>9 DEF PolFlg
  <2>2. PICK n : n = twai_flg(kernel, ptn, mode, TMO_POL)
    OBVIOUS
  <2>3. TMO_POL \in Int
    BY Timeouts
  <2>4. Does(n, kernel)
    BY <2>1, <2>2, <2>3, MayCall, TwaiFlgDoes
  <2>5. Returns(n)
    BY <2>1, <2>2 DEF Returns
  <2> QED BY <2>1, <2>4, <2>5, DoesReturns
<1> QED BY <1>1, <1>2, <1>3, <1>4, <1>5, <1>6, <1>7, <1>8, <1>9

LEMMA DtqCore ==
  ASSUME Core(kernel), SndDtq \/ PsndDtq \/ IpsndDtq \/ FsndDtq \/ IfsndDtq \/ RcvDtq \/ PrcvDtq
  PROVE  Core(kernel')
<1>1. CASE SndDtq
  <2>1. PICK tmout \in kernel.cfg.tmouts :
           InTask("dtq") /\ Returns(tsnd_dtq(kernel, tmout))
    BY <1>1 DEF SndDtq, MayWait
  <2>2. PICK n : n = tsnd_dtq(kernel, tmout)
    OBVIOUS
  <2>3. tmout \in Int
    BY Timeouts
  <2>4. Does(n, kernel)
    BY <2>1, <2>2, <2>3, MayCall, TsndDtqDoes
  <2>5. Returns(n)
    BY <2>1, <2>2 DEF Returns
  <2> QED BY <2>1, <2>4, <2>5, DoesReturns
<1>2. CASE PsndDtq
  <2>1. InTask("dtq") /\ Returns(tsnd_dtq(kernel, TMO_POL))
    BY <1>2 DEF PsndDtq
  <2>2. PICK n : n = tsnd_dtq(kernel, TMO_POL)
    OBVIOUS
  <2>3. TMO_POL \in Int
    BY Timeouts
  <2>4. Does(n, kernel)
    BY <2>1, <2>2, <2>3, MayCall, TsndDtqDoes
  <2>5. Returns(n)
    BY <2>1, <2>2 DEF Returns
  <2> QED BY <2>1, <2>4, <2>5, DoesReturns
<1>3. CASE IpsndDtq
  <2>1. InHandler("ipsnd_dtq") /\ (kernel.obj.rwait_queue # << >> \/ HasRoom(kernel))
          /\ Leaves(tsnd_dtq(kernel, TMO_POL))
    BY <1>3 DEF IpsndDtq, CanSend
  <2>2. PICK n : n = tsnd_dtq(kernel, TMO_POL)
    OBVIOUS
  <2>3. Serves(n, kernel)
    BY <2>1, <2>2, Handling, TsndDtqServes
  <2>4. Leaves(n)
    BY <2>1, <2>2 DEF Leaves
  <2> QED BY <2>1, <2>3, <2>4, ServesLeaves
<1>4. CASE FsndDtq
  <2>1. InTask("fsnd_dtq") /\ Returns(fsnd_dtq(kernel))
    BY <1>4 DEF FsndDtq
  <2>2. PICK n : n = fsnd_dtq(kernel)
    OBVIOUS
  <2>3. Serves(n, kernel)
    BY <2>1, <2>2, MayCall, FsndDtqServes
  <2>4. Returns(n)
    BY <2>1, <2>2 DEF Returns
  <2> QED BY <2>1, <2>3, <2>4, ServesReturns
<1>5. CASE IfsndDtq
  <2>1. InHandler("fsnd_dtq") /\ Leaves(fsnd_dtq(kernel))
    BY <1>5 DEF IfsndDtq
  <2>2. PICK n : n = fsnd_dtq(kernel)
    OBVIOUS
  <2>3. Serves(n, kernel)
    BY <2>1, <2>2, Handling, FsndDtqServes
  <2>4. Leaves(n)
    BY <2>1, <2>2 DEF Leaves
  <2> QED BY <2>1, <2>3, <2>4, ServesLeaves
<1>6. CASE RcvDtq
  <2>1. PICK tmout \in kernel.cfg.tmouts :
           InTask("dtq") /\ Returns(trcv_dtq(kernel, tmout))
    BY <1>6 DEF RcvDtq, MayWait
  <2>2. PICK n : n = trcv_dtq(kernel, tmout)
    OBVIOUS
  <2>3. tmout \in Int
    BY Timeouts
  <2>4. Does(n, kernel)
    BY <2>1, <2>2, <2>3, MayCall, TrcvDtqDoes
  <2>5. Returns(n)
    BY <2>1, <2>2 DEF Returns
  <2> QED BY <2>1, <2>4, <2>5, DoesReturns
<1>7. CASE PrcvDtq
  <2>1. InTask("dtq") /\ Returns(trcv_dtq(kernel, TMO_POL))
    BY <1>7 DEF PrcvDtq
  <2>2. PICK n : n = trcv_dtq(kernel, TMO_POL)
    OBVIOUS
  <2>3. TMO_POL \in Int
    BY Timeouts
  <2>4. Does(n, kernel)
    BY <2>1, <2>2, <2>3, MayCall, TrcvDtqDoes
  <2>5. Returns(n)
    BY <2>1, <2>2 DEF Returns
  <2> QED BY <2>1, <2>4, <2>5, DoesReturns
<1> QED BY <1>1, <1>2, <1>3, <1>4, <1>5, <1>6, <1>7

LEMMA MbxMpfCore ==
  ASSUME Core(kernel), SndMbx \/ RcvMbx \/ PrcvMbx \/ GetMpf \/ PgetMpf \/ RelMpf
  PROVE  Core(kernel')
<1>1. CASE SndMbx
  <2>1. InTask("mbx") /\ Returns(snd_mbx(kernel))
    BY <1>1 DEF SndMbx
  <2>2. PICK n : n = snd_mbx(kernel)
    OBVIOUS
  <2>3. Serves(n, kernel)
    BY <2>1, <2>2, MayCall, SndMbxServes
  <2>4. Returns(n)
    BY <2>1, <2>2 DEF Returns
  <2> QED BY <2>1, <2>3, <2>4, ServesReturns
<1>2. CASE RcvMbx
  <2>1. PICK tmout \in kernel.cfg.tmouts :
           InTask("mbx") /\ Returns(trcv_mbx(kernel, tmout))
    BY <1>2 DEF RcvMbx, MayWait
  <2>2. PICK n : n = trcv_mbx(kernel, tmout)
    OBVIOUS
  <2>3. tmout \in Int
    BY Timeouts
  <2>4. Does(n, kernel)
    BY <2>1, <2>2, <2>3, MayCall, TrcvMbxDoes
  <2>5. Returns(n)
    BY <2>1, <2>2 DEF Returns
  <2> QED BY <2>1, <2>4, <2>5, DoesReturns
<1>3. CASE PrcvMbx
  <2>1. InTask("mbx") /\ Returns(trcv_mbx(kernel, TMO_POL))
    BY <1>3 DEF PrcvMbx
  <2>2. PICK n : n = trcv_mbx(kernel, TMO_POL)
    OBVIOUS
  <2>3. TMO_POL \in Int
    BY Timeouts
  <2>4. Does(n, kernel)
    BY <2>1, <2>2, <2>3, MayCall, TrcvMbxDoes
  <2>5. Returns(n)
    BY <2>1, <2>2 DEF Returns
  <2> QED BY <2>1, <2>4, <2>5, DoesReturns
<1>4. CASE GetMpf
  <2>1. PICK tmout \in kernel.cfg.tmouts :
           InTask("mpf") /\ Returns(tget_mpf(kernel, tmout))
    BY <1>4 DEF GetMpf, MayWait
  <2>2. PICK n : n = tget_mpf(kernel, tmout)
    OBVIOUS
  <2>3. tmout \in Int
    BY Timeouts
  <2>4. Does(n, kernel)
    BY <2>1, <2>2, <2>3, MayCall, TgetMpfDoes
  <2>5. Returns(n)
    BY <2>1, <2>2 DEF Returns
  <2> QED BY <2>1, <2>4, <2>5, DoesReturns
<1>5. CASE PgetMpf
  <2>1. InTask("mpf") /\ Returns(tget_mpf(kernel, TMO_POL))
    BY <1>5 DEF PgetMpf
  <2>2. PICK n : n = tget_mpf(kernel, TMO_POL)
    OBVIOUS
  <2>3. TMO_POL \in Int
    BY Timeouts
  <2>4. Does(n, kernel)
    BY <2>1, <2>2, <2>3, MayCall, TgetMpfDoes
  <2>5. Returns(n)
    BY <2>1, <2>2 DEF Returns
  <2> QED BY <2>1, <2>4, <2>5, DoesReturns
<1>6. CASE RelMpf
  <2>1. PICK t \in Task, blk \in UNION {kernel.held[u] : u \in Task} :
           InTask("mpf") /\ Returns(rel_mpf(kernel, t, blk))
    BY <1>6 DEF RelMpf
  <2>2. PICK n : n = rel_mpf(kernel, t, blk)
    OBVIOUS
  <2>3. Serves(n, kernel)
    BY <2>1, <2>2, MayCall, RelMpfServes
  <2>4. Returns(n)
    BY <2>1, <2>2 DEF Returns
  <2> QED BY <2>1, <2>3, <2>4, ServesReturns
<1> QED BY <1>1, <1>2, <1>3, <1>4, <1>5, <1>6

--------------------------------------------------------------------------------
(* Interrupts and time. *)

LEMMA TimeCore ==
  ASSUME Core(kernel), StaCyc \/ StpCyc \/ Interrupt \/ TimerInterrupt \/ TickDelivers
         \/ TickEnds \/ InterruptReturns
  PROVE  Core(kernel')
<1>1. CASE StaCyc
  <2>1. PICK c \in kernel.cfg.handlers :
           InTask("sta_cyc") /\ kernel' = Dispatched(sta_cyc(kernel, c))
    BY <1>1 DEF StaCyc, Returns
  <2>2. PICK m : m = kernel'
    OBVIOUS
  <2>3. m = Dispatched(sta_cyc(kernel, c))
    BY <2>1, <2>2
  <2>4. Core(m)
    BY <2>1, <2>3, MayCall, StaCycCore
  <2> QED BY <2>2, <2>4
<1>2. CASE StpCyc
  <2>1. PICK c \in kernel.cfg.handlers :
           InTask("sta_cyc") /\ kernel' = Dispatched(StopCyclic(kernel, c))
    BY <1>2 DEF StpCyc, Returns
  <2>2. PICK m : m = kernel'
    OBVIOUS
  <2>3. m = Dispatched(StopCyclic(kernel, c))
    BY <2>1, <2>2
  <2>4. c \in Cyclic
    BY Timeouts
  <2>5. Core(m)
    BY <2>1, <2>3, <2>4, MayCall, StpCycCore
  <2> QED BY <2>2, <2>5
<1>3. CASE Interrupt
  <2>1. PICK m : m = kernel'
    OBVIOUS
  <2>2. ~kernel.interrupt /\ ~kernel.locked /\ m = [kernel EXCEPT !.interrupt = TRUE]
    BY <1>3, <2>1 DEF Interrupt
  <2>3. Shape(kernel)
    BY SoundShape DEF Core
  <2>4. Starts(m, kernel)
    BY <2>2, <2>3, InterruptStarts
  <2>5. Core(m)
    BY <2>2, <2>4, InterruptCore
  <2> QED BY <2>1, <2>5
<1>4. CASE TimerInterrupt
  <2>1. PICK m : m = kernel'
    OBVIOUS
  <2>2. ~kernel.interrupt /\ ~kernel.locked /\ m = [kernel EXCEPT !.interrupt = TRUE,
          !.ticking = TRUE]
    BY <1>4, <2>1 DEF TimerInterrupt
  <2>3. Shape(kernel)
    BY SoundShape DEF Core
  <2>4. Starts(m, kernel)
    BY <2>2, <2>3, InterruptStarts
  <2>5. Core(m)
    BY <2>2, <2>4, InterruptCore
  <2> QED BY <2>1, <2>5
<1>5. CASE TickDelivers
  <2>1. PICK m : m = kernel'
    OBVIOUS
  <2>2. kernel.ticking /\ EventDue(kernel) /\ m = DeliverEvent(kernel)
    BY <1>5, <2>1 DEF TickDelivers
  <2>3. Core(m)
    BY <2>2, DeliversCore
  <2> QED BY <2>1, <2>3
<1>6. CASE TickEnds
  <2>1. PICK m : m = kernel'
    OBVIOUS
  <2>2. kernel.ticking /\ ~EventDue(kernel) /\ m = [NextTick(kernel) EXCEPT !.ticking = FALSE]
    BY <1>6, <2>1 DEF TickEnds
  <2>3. Core(m)
    BY <2>2, TickCore
  <2> QED BY <2>1, <2>3
<1>7. CASE InterruptReturns
  <2>1. PICK m : m = kernel'
    OBVIOUS
  <2>2. kernel.interrupt /\ ~kernel.ticking /\ m = ret_int([kernel EXCEPT !.interrupt = FALSE])
    BY <1>7, <2>1 DEF InterruptReturns
  <2>3. Core(m)
    BY <2>2, RetIntCore
  <2> QED BY <2>1, <2>3
<1> QED BY <1>1, <1>2, <1>3, <1>4, <1>5, <1>6, <1>7

LEMMA NextCore ==
  ASSUME Core(kernel), [Next]_kernel
  PROVE  Core(kernel')
<1>1. CASE TaskNext
  BY <1>1, ActsCore, WaitsCore, SwitchesCore DEF TaskNext
<1>2. CASE ObjectNext
  BY <1>2, SemFlgCore, DtqCore, MbxMpfCore DEF ObjectNext
<1>3. CASE TimeNext
  BY <1>3, TimeCore DEF TimeNext
<1>4. CASE UNCHANGED kernel
  BY <1>4
<1> QED BY <1>1, <1>2, <1>3, <1>4 DEF Next

\* The ready queues, the wait queues, the heap of time events, the states of the tasks and the
\* task that runs agree after every service, handler and tick, in every configuration.
THEOREM CoreKept == Spec => []Core(kernel)
<1>1. Init => Core(kernel)
  <2>1. SUFFICES ASSUME NEW cfg \in Configurations, kernel = dispatch(Initialized(cfg))
                 PROVE  Core(kernel)
    BY DEF Init
  <2>2. PICK m : m = kernel
    OBVIOUS
  <2>3. Core(m)
    BY <2>1, <2>2, InitCore
  <2> QED BY <2>2, <2>3
<1>2. Core(kernel) /\ [Next]_kernel => Core(kernel)'
  BY NextCore
<1> QED BY <1>1, <1>2, PTL DEF Spec

--------------------------------------------------------------------------------
(* What the invariant says of the properties. *)

LEMMA PlacesInQueue ==
  ASSUME NEW S, NEW q \in Seq(S), Distinct(q), NEW t
  PROVE  Places(q, t) = IF t \in Elements(q) THEN 1 ELSE 0
<1>1. DOMAIN q = 1 .. Len(q)
  OBVIOUS
<1>2. PICK P : P = {i \in DOMAIN q : q[i] = t}
  OBVIOUS
<1>3. CASE t \in Elements(q)
  <2>1. PICK i \in 1 .. Len(q) : q[i] = t
    BY <1>3 DEF Elements
  <2>2. P = {i}
    BY <1>1, <1>2, <2>1 DEF Distinct
  <2>3. Cardinality(P) = 1
    BY <2>2, FS_Singleton
  <2> QED BY <1>2, <1>3, <2>3 DEF Places
<1>4. CASE t \notin Elements(q)
  <2>1. P = {}
    BY <1>1, <1>2, <1>4 DEF Elements
  <2>2. Cardinality(P) = 0
    BY <2>1, FS_EmptySet
  <2> QED BY <1>2, <1>4, <2>2 DEF Places
<1> QED BY <1>3, <1>4

LEMMA ReadyPlaces ==
  ASSUME NEW R, Sched(kernel, R), Shape(kernel), NEW t \in Task, NEW p \in Priority,
         t \in R <=> TSTAT_RUNNABLE(kernel, t)
  PROVE  Places(Ready(p), t) =
           IF TSTAT_RUNNABLE(kernel, t) /\ kernel.tcb[t].priority = p THEN 1 ELSE 0
<1>1. PICK rq, pr : rq = kernel.ready_queue /\ pr = Prio(kernel)
  OBVIOUS
<1>2. rq[p] \in Seq(Task) /\ Distinct(rq[p]) /\ Elements(rq[p]) = {u \in R : pr[u] = p}
  BY <1>1 DEF Sched, Queues
<1>3. pr[t] = kernel.tcb[t].priority
  BY <1>1, PrioFacts
<1>4. PICK q, E : q = rq[p] /\ E = Elements(rq[p])
  OBVIOUS
<1>5. Places(q, t) = IF t \in E THEN 1 ELSE 0
  BY <1>2, <1>4, PlacesInQueue
<1>6. t \in E <=> TSTAT_RUNNABLE(kernel, t) /\ kernel.tcb[t].priority = p
  BY <1>2, <1>3, <1>4
<1> QED BY <1>1, <1>4, <1>5, <1>6 DEF Ready

LEMMA CoreRunsFirst ==
  ASSUME Core(kernel)
  PROVE  RunsFirstReadyTask
<1>1. PICK R, C, S : Fits(kernel, R, C, S)
  BY DEF Core, Sound
<1>2. Sched(kernel, R) /\ Shape(kernel)
  BY <1>1 DEF Fits, Base
<1>3. ASSUME NEW t \in Task, NEW p \in Priority
      PROVE  Places(Ready(p), t) =
               IF TSTAT_RUNNABLE(kernel, t) /\ kernel.tcb[t].priority = p THEN 1 ELSE 0
  <2>1. t \in R <=> TSTAT_RUNNABLE(kernel, t)
    BY <1>1 DEF Fits, TaskFits, Agrees, TSTAT_RUNNABLE
  <2> QED BY <1>2, <2>1, ReadyPlaces
<1>4. kernel.ready_primap = {p \in Priority : Ready(p) # << >>}
  BY <1>2 DEF Sched, Queues, Ready
<1>5. PICK rq, pr, pm, x : /\ rq = kernel.ready_queue /\ pr = Prio(kernel)
                           /\ pm = kernel.ready_primap /\ x = search_schedtsk(kernel)
  OBVIOUS
<1>6. /\ Queues(rq, pm, R, pr) /\ First(kernel.schedtsk, rq, R, pr) /\ R \subseteq Task
      /\ pr \in [Task -> Priority]
  BY <1>2, <1>5, PrioFacts DEF Sched
<1>7. SearchFinds(x, rq, pm, R, pr)
  <2>1. x = Head(rq[Highest(pm)])
    BY <1>5 DEF search_schedtsk
  <2> QED BY <1>6, <2>1, SearchFirst
<1>8. kernel.schedtsk = IF pm = {} THEN NULL ELSE x
  <2>1. CASE pm = {}
    BY <1>6, <1>7, <2>1 DEF SearchFinds, First
  <2>2. CASE pm # {}
    <3>1. First(x, rq, R, pr) /\ First(kernel.schedtsk, rq, R, pr) /\ R # {}
      BY <1>6, <1>7, <2>2 DEF SearchFinds
    <3>2. PICK y : y = kernel.schedtsk
      OBVIOUS
    <3>3. /\ x \in R /\ x = Head(rq[pr[x]]) /\ \A t \in R : pr[x] <= pr[t]
          /\ y \in R /\ y = Head(rq[pr[y]]) /\ \A t \in R : pr[y] <= pr[t]
      BY <3>1, <3>2 DEF First
    <3>4. pr[x] = pr[y]
      <4>1. PICK a, b : a = pr[x] /\ b = pr[y]
        OBVIOUS
      <4>2. a \in Priority /\ b \in Priority
        BY <1>6, <3>3, <4>1
      <4>3. a \in Nat /\ b \in Nat
        BY <4>2, Priorities
      <4>4. a <= b /\ b <= a
        BY <3>3, <4>1
      <4> QED BY <4>1, <4>3, <4>4
    <3> QED BY <2>2, <3>2, <3>3, <3>4
  <2> QED BY <2>1, <2>2
<1>9. ~kernel.interrupt /\ kernel.enadsp => kernel.runtsk = kernel.schedtsk
  BY DEF Core, Control
<1> QED BY <1>3, <1>4, <1>5, <1>8, <1>9 DEF RunsFirstReadyTask

LEMMA CoreWaitQueues ==
  ASSUME Core(kernel)
  PROVE  WaitQueuesMatchStates
<1>1. PICK R, C, S : Fits(kernel, R, C, S)
  BY DEF Core, Sound
<1>2. Waits(kernel, C, S) /\ Shape(kernel)
  BY <1>1 DEF Fits, Base
<1>3. PICK common, second : common = kernel.obj.wait_queue /\ second = kernel.obj.rwait_queue
  OBVIOUS
<1>4. /\ common \in Seq(Task) /\ Distinct(common) /\ Elements(common) = C
      /\ second \in Seq(Task) /\ Distinct(second) /\ Elements(second) = S
      /\ kernel.cfg.tpri => InOrder(common, Prio(kernel))
  BY <1>2, <1>3 DEF Waits, Queue
<1>5. ASSUME NEW t \in Task
      PROVE  /\ Places(common, t) = IF "WAIT_WOBJCB" \in kernel.tcb[t].tstat THEN 1 ELSE 0
             /\ Places(second, t) =
                  IF {"WAIT_WOBJ"} = kernel.tcb[t].tstat \cap {"WAIT_WOBJ", "WAIT_WOBJCB"}
                  THEN 1 ELSE 0
  <2>1. PICK bits : bits = kernel.tcb[t].tstat
    OBVIOUS
  <2>2. /\ t \in C <=> "WAIT_WOBJCB" \in bits
        /\ t \in S <=> "WAIT_WOBJ" \in bits /\ "WAIT_WOBJCB" \notin bits
    BY <1>1, <2>1 DEF Fits, TaskFits, Agrees
  <2>3. Places(common, t) = IF t \in C THEN 1 ELSE 0
    BY <1>4, PlacesInQueue
  <2>4. Places(second, t) = IF t \in S THEN 1 ELSE 0
    BY <1>4, PlacesInQueue
  <2>5. t \in S <=> {"WAIT_WOBJ"} = bits \cap {"WAIT_WOBJ", "WAIT_WOBJCB"}
    BY <2>2
  <2> QED BY <2>1, <2>2, <2>3, <2>4, <2>5
<1>6. ASSUME kernel.cfg.tpri, NEW i \in DOMAIN common, NEW j \in DOMAIN common, i < j
      PROVE  kernel.tcb[common[i]].priority <= kernel.tcb[common[j]].priority
  <2>1. i \in 1 .. Len(common) /\ j \in 1 .. Len(common) /\ common[i] \in Task /\ common[j] \in Task
    BY <1>4
  <2>2. Prio(kernel)[common[i]] <= Prio(kernel)[common[j]]
    BY <1>4, <1>6, <2>1 DEF InOrder
  <2> QED BY <1>2, <2>1, <2>2, PrioFacts
<1> QED BY <1>3, <1>5, <1>6 DEF WaitQueuesMatchStates

LEMMA CoreEvents ==
  ASSUME Core(kernel)
  PROVE  EventsMatchWaits
<1>1. PICK R, C, S : Fits(kernel, R, C, S)
  BY DEF Core, Sound
<1>2. PICK heap : heap = kernel.heap
  OBVIOUS
<1>3. heap \in Seq(Node) /\ Indexed(heap, kernel.index, 0)
  BY <1>1, <1>2 DEF Fits, Base, Events, Heaped
<1>4. DOMAIN heap = 1 .. Len(heap) /\ \A i \in DOMAIN heap : heap[i].owner \in EventOwner
  <2>1. DOMAIN heap = 1 .. Len(heap) /\ \A i \in DOMAIN heap : heap[i] \in Node
    BY <1>3
  <2>2. \A node \in Node : node.owner \in EventOwner
    BY DEF Node
  <2> QED BY <2>1, <2>2
<1>5. \A i \in DOMAIN heap : kernel.index[heap[i].owner] = i
  BY <1>3, <1>4 DEF Indexed
<1>6. \A o : (\E i \in DOMAIN heap : heap[i].owner = o) <=> Nodes(kernel, o) # {}
  BY <1>2, <1>4 DEF Nodes, Elements
<1>7. ASSUME NEW t \in Task
      PROVE  Nodes(kernel, t) # {} <=> TSTAT_WAITING(kernel, t) /\ kernel.tcb[t].winfo = TMEVTB
  BY <1>1 DEF Fits, TaskFits, Watched, TSTAT_WAITING
<1>8. ASSUME NEW c \in Cyclic PROVE Nodes(kernel, c) # {} <=> kernel.cycsta[c]
  BY <1>1 DEF Fits, CyclicFits, Handled
<1>9. ASSUME NEW o
      PROVE  o \in {heap[i].owner : i \in DOMAIN heap} <=>
               o \in {t \in Task : TSTAT_WAITING(kernel, t) /\ kernel.tcb[t].winfo = TMEVTB}
                       \cup {c \in Cyclic : kernel.cycsta[c]}
  <2>1. o \in {heap[i].owner : i \in DOMAIN heap} <=> o \in EventOwner /\ Nodes(kernel, o) # {}
    BY <1>4, <1>6
  <2>2. CASE o \in Task
    BY <1>7, <2>1, <2>2, Owners
  <2>3. CASE o \in Cyclic
    BY <1>8, <2>1, <2>3, Owners
  <2>4. CASE o \notin Task /\ o \notin Cyclic
    BY <2>1, <2>4 DEF EventOwner
  <2> QED BY <2>2, <2>3, <2>4
<1>10. {heap[i].owner : i \in DOMAIN heap} =
         {t \in Task : TSTAT_WAITING(kernel, t) /\ kernel.tcb[t].winfo = TMEVTB}
           \cup {c \in Cyclic : kernel.cycsta[c]}
  BY <1>9
<1> QED BY <1>2, <1>5, <1>10 DEF EventsMatchWaits

LEMMA CoreExceptions ==
  ASSUME Core(kernel)
  PROVE  ExceptionsAreTaken
BY DEF Core, Control, ExceptionsAreTaken

\* The ready queues hold the runnable tasks, each once, at its priority, schedtsk is the first of
\* the highest one, and it runs unless dispatching is disabled: the cases of make_runnable,
\* make_non_runnable, change_priority and rotate_ready_queue (task.c) are complete, and the
\* services dispatch in just the cases that need it.
THEOREM RunsFirst == Spec => []RunsFirstReadyTask
BY CoreKept, CoreRunsFirst, PTL

\* A task is in a queue of the object exactly while its state says so, and once; a queue by
\* priority stays in that order when priorities change (wait.c, wobj_change_priority).
THEOREM WaitQueuesMatch == Spec => []WaitQueuesMatchStates
BY CoreKept, CoreWaitQueues, PTL

\* Exactly the tasks that wait with a timeout and the handlers that are started have a time
\* event, and its block knows its place in the heap: no way to end a wait leaves one behind.
THEOREM EventsMatch == Spec => []EventsMatchWaits
BY CoreKept, CoreEvents, PTL

\* No task runs with its exceptions enabled and one pending: ras_tex, ena_tex, ret_int and the
\* dispatcher leave no way into a task that does not look at texptn (task_except.c).
THEOREM ExceptionsTaken == Spec => []ExceptionsAreTaken
BY CoreKept, CoreExceptions, PTL

--------------------------------------------------------------------------------
(* What services do to the time events: one is stopped at most, or one is    *)
(* started when the caller waits.                                            *)

Disarms(m, k) == \E t \in Task : Frees(m, k, t)
Retimes(m, k) == \E t \in Task : Frees(m, k, t) \/ Arms(m, k, t)

LEMMA TimelessDisarms ==
  ASSUME NEW k, NEW m, Timeless(m, k)
  PROVE  Disarms(m, k) /\ Retimes(m, k)
BY TimelessTouches, SomeTask DEF Disarms, Retimes

LEMMA DisarmsRetimes ==
  ASSUME NEW k, NEW m, Disarms(m, k)
  PROVE  Retimes(m, k)
BY DEF Disarms, Retimes

LEMMA DisarmsBetween ==
  ASSUME NEW k, NEW a, NEW b, NEW m, Timeless(a, k), Disarms(b, a), Timeless(m, b)
  PROVE  Disarms(m, k)
BY FreesBetween DEF Disarms

LEMMA RetimesBetween ==
  ASSUME NEW k, NEW a, NEW b, NEW m, Timeless(a, k), Retimes(b, a), Timeless(m, b)
  PROVE  Retimes(m, k)
BY FreesBetween, ArmsBetween DEF Retimes

LEMMA RetimesMade ==
  ASSUME NEW k, NEW m, Retimes(m, k)
  PROVE  Made(m)
BY TouchesMade DEF Retimes, Frees, Arms

LEMMA DisarmsAfter ==
  ASSUME NEW k, NEW a, NEW m, Timeless(a, k), Disarms(m, a)
  PROVE  Disarms(m, k)
<1>1. Timeless(m, m)
  BY DisarmsRetimes, RetimesMade, TimelessSelf
<1> QED BY <1>1, DisarmsBetween

LEMMA RetimesAfter ==
  ASSUME NEW k, NEW a, NEW m, Timeless(a, k), Retimes(m, a)
  PROVE  Retimes(m, k)
<1>1. Timeless(m, m)
  BY RetimesMade, TimelessSelf
<1> QED BY <1>1, RetimesBetween

LEMMA StoredTimeless ==
  ASSUME NEW k, NEW m, Stored(m, k)
  PROVE  Timeless(m, k)
BY DEF Stored, Timeless, Made, Same, Untimed

\* A field of a task's block is written.
LEMMA BlockTimeless ==
  ASSUME NEW k, Made(k), NEW tcb, NEW m, m = [k EXCEPT !.tcb = tcb]
  PROVE  Timeless(m, k)
BY DEF Made, Timeless, Same, Fields, Untimed

LEMMA FieldTimeless ==
  ASSUME NEW k, Made(k), NEW t, NEW field, NEW v, NEW m, m = [k EXCEPT !.tcb[t][field] = v]
  PROVE  Timeless(m, k)
<1>1. PICK tcb : tcb = [k.tcb EXCEPT ![t][field] = v]
  OBVIOUS
<1>2. m = [k EXCEPT !.tcb = tcb]
  BY <1>1 DEF Made, Fields
<1> QED BY <1>2, BlockTimeless

LEMMA ObjTimeless ==
  ASSUME NEW k, Made(k), NEW obj, NEW m, m = [k EXCEPT !.obj = obj]
  PROVE  Timeless(m, k) /\ m.tcb = k.tcb /\ m.runtsk = k.runtsk
BY DEF Made, Timeless, Same, Fields, Untimed

--------------------------------------------------------------------------------
(* The services on tasks. *)

LEMMA ActRetimes ==
  ASSUME NEW k, Sound(k), NEW t, NEW m, m = act_tsk(k, t) \/ m = can_act(k, t)
  PROVE  Timeless(m, k)
<1>1. Made(k)
  BY SoundMade
<1>2. \/ m = make_runnable(k, t)
      \/ m = [k EXCEPT !.tcb[t].actcnt = TRUE] \/ m = [k EXCEPT !.tcb[t].actcnt = FALSE]
  BY DEF act_tsk, make_active, can_act
<1>3. CASE m = make_runnable(k, t)
  BY <1>1, <1>3, RunnableTimeless
<1>4. CASE m = [k EXCEPT !.tcb[t].actcnt = TRUE]
  BY <1>1, <1>4 DEF Made, Timeless, Same, Fields, Untimed
<1>5. CASE m = [k EXCEPT !.tcb[t].actcnt = FALSE]
  BY <1>1, <1>5 DEF Made, Timeless, Same, Fields, Untimed
<1> QED BY <1>2, <1>3, <1>4, <1>5

LEMMA TerTskDisarms ==
  ASSUME NEW k, Sound(k), NEW t \in Task, NEW m, m = ter_tsk(k, t)
  PROVE  Disarms(m, k)
<1>1. Made(k)
  BY SoundMade
<1>2. PICK out : out = IF TSTAT_RUNNABLE(k, t) THEN make_non_runnable(k, t)
                       ELSE IF TSTAT_WAITING(k, t) THEN wait_cancel(k, t) ELSE k
  OBVIOUS
<1>3. Frees(out, k, t)
  <2>1. CASE TSTAT_RUNNABLE(k, t)
    BY <1>1, <1>2, <2>1, NonRunnableTimeless, TimelessTouches
  <2>2. CASE ~TSTAT_RUNNABLE(k, t) /\ TSTAT_WAITING(k, t)
    BY <1>2, <2>2, WaiterWatchful, CancelFrees
  <2>3. CASE ~TSTAT_RUNNABLE(k, t) /\ ~TSTAT_WAITING(k, t)
    BY <1>1, <1>2, <2>3, TimelessSelf, TimelessTouches
  <2> QED BY <2>1, <2>2, <2>3
<1>4. Made(out)
  BY <1>3, TouchesMade DEF Frees
<1>5. m = Reactivate(make_dormant(out, t), t)
  BY <1>2 DEF ter_tsk
<1>6. Timeless(m, out) /\ Timeless(k, k)
  BY <1>1, <1>4, <1>5, DormantAgain, TimelessSelf
<1>7. Frees(m, k, t)
  BY <1>3, <1>6, FreesBetween
<1> QED BY <1>7 DEF Disarms

LEMMA ChgPriTimeless ==
  ASSUME NEW k, Sound(k), NEW t, NEW pri, NEW m, m = chg_pri(k, t, pri)
  PROVE  Timeless(m, k)
<1>1. Made(k)
  BY SoundMade
<1>2. PICK a : a = [k EXCEPT !.tcb[t].priority = pri]
  OBVIOUS
<1>3. Timeless(a, k)
  BY <1>1, <1>2 DEF Made, Timeless, Same, Fields, Untimed
<1>4. m = change_priority(k, t, pri) \/ m = a \/ m = wobj_change_priority(a, t)
  BY <1>2 DEF chg_pri
<1>5. CASE m = change_priority(k, t, pri)
  BY <1>1, <1>5, ChangePriorityTimeless
<1>6. CASE m = wobj_change_priority(a, t)
  <2>1. CASE m = a
    BY <1>3, <2>1
  <2>2. CASE m = [a EXCEPT !.obj.wait_queue = queue_insert_tpri(a, t, queue_delete(@, t))]
    <3>1. PICK q : q = queue_insert_tpri(a, t, queue_delete(a.obj.wait_queue, t))
      OBVIOUS
    <3>2. m = [a EXCEPT !.obj.wait_queue = q]
      BY <2>2, <3>1
    <3>3. Timeless(m, a)
      BY <1>3, <3>2 DEF Made, Timeless, Same, Fields, Untimed
    <3> QED BY <1>3, <3>3, TimelessTimeless
  <2> QED BY <1>6, <2>1, <2>2 DEF wobj_change_priority
<1> QED BY <1>3, <1>4, <1>5, <1>6

LEMMA SleepRetimes ==
  ASSUME NEW k, Sound(k), NEW t, Caller(k, t), NEW tmout \in Int, tmout <= TMAX_RELTIM,
         NEW m, m = tslp_tsk(k, tmout)
  PROVE  Retimes(m, k)
<1>1. Made(k) /\ Unwatched(k, t) /\ t \in Task
  BY SoundMade, CallerUnwatched DEF Caller
<1>2. CASE m = [k EXCEPT !.tcb[k.runtsk].wupcnt = FALSE]
  <2>1. Timeless(m, k)
    BY <1>1, <1>2 DEF Made, Timeless, Same, Fields, Untimed
  <2> QED BY <2>1, TimelessDisarms
<1>3. CASE m = make_wait_tmout(k, {"WAIT_SLEEP"}, NoData, tmout)
  BY <1>1, <1>3, TmoutArms DEF Retimes
<1> QED BY <1>2, <1>3 DEF tslp_tsk

LEMMA DelayRetimes ==
  ASSUME NEW k, Sound(k), NEW t, Caller(k, t), NEW time \in 0 .. TMAX_RELTIM,
         NEW m, m = dly_tsk(k, time)
  PROVE  Retimes(m, k)
<1>1. Made(k) /\ Unwatched(k, t) /\ t \in Task
  BY SoundMade, CallerUnwatched DEF Caller
<1>2. PICK a : a = MakeWaiting(k, {}, NoData)
  OBVIOUS
<1>3. Timeless(a, k) /\ a.runtsk = k.runtsk
  BY <1>1, <1>2, WaitingTimeless
<1>4. Unwatched(a, t)
  BY <1>1, <1>3, UnwatchedAfter
<1>5. m = WatchTime(a, "wait_tmout_ok", time) /\ "wait_tmout_ok" \in Callbacks
  BY <1>2 DEF dly_tsk, Callbacks
<1>6. Arms(m, a, t)
  BY <1>4, <1>5, WatchArms
<1>7. Retimes(m, a)
  BY <1>1, <1>6 DEF Retimes
<1> QED BY <1>3, <1>7, RetimesAfter

LEMMA WakeupDisarms ==
  ASSUME NEW k, Sound(k), NEW t \in Task, NEW m, m = wup_tsk(k, t) \/ m = can_wup(k, t)
  PROVE  Disarms(m, k)
<1>1. Made(k)
  BY SoundMade
<1>2. \/ "WAIT_SLEEP" \in k.tcb[t].tstat /\ m = wait_complete(k, t)
      \/ m = [k EXCEPT !.tcb[t].wupcnt = TRUE] \/ m = [k EXCEPT !.tcb[t].wupcnt = FALSE]
  BY DEF wup_tsk, can_wup
<1>3. CASE "WAIT_SLEEP" \in k.tcb[t].tstat /\ m = wait_complete(k, t)
  <2>1. PICK R, C, S : Fits(k, R, C, S)
    BY DEF Sound
  <2>2. k.tcb[t].tstat \in Legal
    BY <2>1 DEF Fits, TaskFits, Watched
  <2>3. TSTAT_WAITING(k, t)
    BY <1>3, <2>2, LegalStates DEF TSTAT_WAITING
  <2>4. Frees(m, k, t)
    BY <1>3, <2>3, WaiterWatchful, CompleteFrees
  <2> QED BY <2>4 DEF Disarms
<1>4. CASE m = [k EXCEPT !.tcb[t].wupcnt = TRUE]
  <2>1. Timeless(m, k)
    BY <1>1, <1>4 DEF Made, Timeless, Same, Fields, Untimed
  <2> QED BY <2>1, TimelessDisarms
<1>5. CASE m = [k EXCEPT !.tcb[t].wupcnt = FALSE]
  <2>1. Timeless(m, k)
    BY <1>1, <1>5 DEF Made, Timeless, Same, Fields, Untimed
  <2> QED BY <2>1, TimelessDisarms
<1> QED BY <1>2, <1>3, <1>4, <1>5

LEMMA ReleaseDisarms ==
  ASSUME NEW k, Sound(k), NEW t \in Task, TSTAT_WAITING(k, t), NEW m, m = wait_release(k, t)
  PROVE  Disarms(m, k)
BY WaiterWatchful, ReleaseFrees DEF Disarms

LEMMA SuspendTimeless ==
  ASSUME NEW k, Sound(k), NEW t, NEW m, m = sus_tsk(k, t) \/ m = rsm_tsk(k, t)
  PROVE  Timeless(m, k)
<1>1. Made(k)
  BY SoundMade
<1>2. PICK a, b, c : /\ a = [k EXCEPT !.tcb[t].tstat = {"SUSPENDED"}]
                     /\ b = [k EXCEPT !.tcb[t].tstat = k.tcb[t].tstat \cup {"SUSPENDED"}]
                     /\ c = [k EXCEPT !.tcb[t].tstat = k.tcb[t].tstat \ {"SUSPENDED"}]
  OBVIOUS
<1>3. Timeless(a, k)
  BY <1>1, <1>2 DEF Made, Timeless, Same, Fields, Untimed
<1>4. Timeless(b, k)
  BY <1>1, <1>2 DEF Made, Timeless, Same, Fields, Untimed
<1>5. Timeless(c, k)
  BY <1>1, <1>2 DEF Made, Timeless, Same, Fields, Untimed
<1>6. b = [k EXCEPT !.tcb[t].tstat = @ \cup {"SUSPENDED"}]
      /\ c = [k EXCEPT !.tcb[t].tstat = @ \ {"SUSPENDED"}]
  BY <1>1, <1>2 DEF Made, Fields
<1>7. m = make_non_runnable(a, t) \/ m = b \/ m = c \/ m = make_runnable(k, t)
  BY <1>2, <1>6 DEF sus_tsk, rsm_tsk
<1>8. CASE m = make_non_runnable(a, t)
  <2>1. Timeless(m, a)
    BY <1>3, <1>8, NonRunnableTimeless DEF Timeless
  <2> QED BY <1>3, <2>1, TimelessTimeless
<1>9. CASE m = make_runnable(k, t)
  BY <1>1, <1>9, RunnableTimeless
<1> QED BY <1>4, <1>5, <1>7, <1>8, <1>9

--------------------------------------------------------------------------------
(* Exceptions, and the switches of the system. *)

LEMMA RaisedTimeless ==
  ASSUME NEW k, Made(k), NEW t, NEW m, m = ras_tex(k, t) \/ m = iras_tex(k, t)
  PROVE  Timeless(m, k)
<1>1. PICK a : a = RaiseException(k, t)
  OBVIOUS
<1>2. Timeless(a, k)
  BY <1>1 DEF RaiseException, Made, Timeless, Same, Fields, Untimed
<1>3. m = calltex(a) \/ \E r : m = [a EXCEPT !.ret = r]
  BY <1>1 DEF ras_tex, iras_tex
<1>4. CASE m = calltex(a)
  <2>1. Timeless(m, a)
    BY <1>2, <1>4, CalltexTimeless DEF Timeless
  <2> QED BY <1>2, <2>1, TimelessTimeless
<1>5. CASE \E r : m = [a EXCEPT !.ret = r]
  <2>1. Timeless(m, a)
    BY <1>2, <1>5 DEF Made, Timeless, Same, Fields, Untimed
  <2> QED BY <1>2, <2>1, TimelessTimeless
<1> QED BY <1>3, <1>4, <1>5

LEMMA EnatexTimeless ==
  ASSUME NEW k, Made(k), NEW m, m = dis_tex(k) \/ m = ena_tex(k)
  PROVE  Timeless(m, k)
<1>1. PICK a, b : /\ a = [k EXCEPT !.tcb[k.runtsk].enatex = FALSE]
                  /\ b = [k EXCEPT !.tcb[k.runtsk].enatex = TRUE]
  OBVIOUS
<1>2. Timeless(a, k)
  BY <1>1 DEF Made, Timeless, Same, Fields, Untimed
<1>3. Timeless(b, k)
  BY <1>1 DEF Made, Timeless, Same, Fields, Untimed
<1>4. m = a \/ m = calltex(b)
  BY <1>1 DEF dis_tex, ena_tex
<1>5. CASE m = calltex(b)
  <2>1. Timeless(m, b)
    BY <1>3, <1>5, CalltexTimeless DEF Timeless
  <2> QED BY <1>3, <2>1, TimelessTimeless
<1> QED BY <1>2, <1>4, <1>5

LEMMA TexReturnedTimeless ==
  ASSUME NEW k, Made(k), NEW m, m = [TexReturned(k) EXCEPT !.locked = FALSE]
  PROVE  Timeless(m, k)
<1>1. PICK a : a = TexReturned(k)
  OBVIOUS
<1>2. \E tcb : a = [k EXCEPT !.tcb = tcb]
  <2>1. PICK t : t = k.runtsk
    OBVIOUS
  <2>2. CASE k.tcb[t].texptn
    <3>1. a = [k EXCEPT !.tcb[t].enatex = FALSE, !.tcb[t].texptn = FALSE]
      BY <1>1, <2>1, <2>2 DEF TexReturned
    <3>2. PICK tcb : tcb = [k.tcb EXCEPT ![t].enatex = FALSE, ![t].texptn = FALSE]
      OBVIOUS
    <3>3. a = [k EXCEPT !.tcb = tcb]
      BY <3>1, <3>2 DEF Made, Fields
    <3> QED BY <3>3
  <2>3. CASE ~k.tcb[t].texptn
    <3>1. a = [k EXCEPT !.tcb[t].enatex = TRUE, !.tcb[t].texnest = @ - 1]
      BY <1>1, <2>1, <2>3 DEF TexReturned
    <3>2. PICK tcb : tcb = [k.tcb EXCEPT ![t].enatex = TRUE, ![t].texnest = @ - 1]
      OBVIOUS
    <3>3. a = [k EXCEPT !.tcb = tcb]
      BY <3>1, <3>2 DEF Made, Fields
    <3> QED BY <3>3
  <2> QED BY <2>2, <2>3
<1>3. Timeless(a, k)
  BY <1>2, BlockTimeless
<1>4. Timeless(m, a)
  BY <1>1, <1>3 DEF Made, Timeless, Same, Fields, Untimed
<1> QED BY <1>3, <1>4, TimelessTimeless

LEMMA SwitchTimeless ==
  ASSUME NEW k, Made(k),
         NEW m, m = loc_cpu(k) \/ m = unl_cpu(k) \/ m = dis_dsp(k) \/ m = ena_dsp(k)
  PROVE  Timeless(m, k)
<1>1. m = loc_cpu(k) => Timeless(m, k)
  BY DEF loc_cpu, Made, Timeless, Same, Fields, Untimed
<1>2. m = unl_cpu(k) => Timeless(m, k)
  BY DEF unl_cpu, Made, Timeless, Same, Fields, Untimed
<1>3. m = dis_dsp(k) => Timeless(m, k)
  BY DEF dis_dsp, Made, Timeless, Same, Fields, Untimed
<1>4. m = ena_dsp(k) => Timeless(m, k)
  BY DEF ena_dsp, Made, Timeless, Same, Fields, Untimed
<1> QED BY <1>1, <1>2, <1>3, <1>4

--------------------------------------------------------------------------------
(* The services on objects. *)

\* The first task of a queue of the object waits.
LEMMA HeadWatchful ==
  ASSUME NEW k, Sound(k), NEW t, IsHead(t, k.obj.wait_queue) \/ IsHead(t, k.obj.rwait_queue)
  PROVE  Watchful(k, t)
<1>1. PICK R, C, S : Fits(k, R, C, S)
  BY DEF Sound
<1>2. Queue(k.obj.wait_queue, C) /\ Queue(k.obj.rwait_queue, S)
  BY <1>1 DEF Fits, Base, Waits
<1>3. t \in Task /\ (t \in C \/ t \in S)
  BY <1>2, HeadOff
<1>4. Waiter(k, t)
  BY <1>1, <1>3, WaitsThere
<1> QED BY <1>3, <1>4, WaiterWatchful DEF Waiter, TSTAT_WAITING

LEMMA WakeDisarms ==
  ASSUME NEW k, Sound(k), NEW a, Stored(a, k), ~NoWaiters(k), NEW m, m = WakeFirst(a)
  PROVE  Disarms(m, k)
<1>1. Timeless(a, k) /\ Sound(a)
  BY StoredTimeless, StoredServes
<1>2. a.obj.wait_queue = k.obj.wait_queue
  BY DEF Stored
<1>3. PICK t : IsHead(t, a.obj.wait_queue)
  BY <1>2 DEF IsHead, NoWaiters
<1>4. PICK b : b = [a EXCEPT !.obj.wait_queue = Tail(@)]
  OBVIOUS
<1>5. m = wait_complete(b, t)
  BY <1>3, <1>4 DEF WakeFirst, FirstWaiting, IsHead
<1>6. Timeless(b, a) /\ b.tcb = a.tcb
  BY <1>1, <1>4 DEF Made, Timeless, Same, Fields, Untimed
<1>7. Watchful(a, t)
  BY <1>1, <1>3, HeadWatchful
<1>8. Watchful(b, t)
  BY <1>6, <1>7, WatchfulAfter
<1>9. Frees(m, b, t)
  BY <1>5, <1>8, CompleteFrees
<1>10. Disarms(m, b)
  BY <1>8, <1>9 DEF Disarms, Watchful
<1> QED BY <1>1, <1>6, <1>10, DisarmsAfter

LEMMA StoredSelf ==
  ASSUME NEW k, Sound(k)
  PROVE  Stored(k, k)
BY SoundShape DEF Stored, Shape, Same

LEMMA StoredDisarms ==
  ASSUME NEW k, NEW m, Stored(m, k)
  PROVE  Disarms(m, k) /\ Retimes(m, k)
BY StoredTimeless, TimelessDisarms

\* The caller waits for the object.
LEMMA ObjectWaits ==
  ASSUME NEW k, Sound(k), NEW t, Caller(k, t), NEW data, NEW tmout \in Int,
         tmout <= TMAX_RELTIM, NEW m, m = wobj_make_wait_tmout(k, data, tmout)
  PROVE  Retimes(m, k)
<1>1. Unwatched(k, t) /\ Made(k) /\ t \in Task
  BY SoundMade, CallerUnwatched DEF Caller
<1>2. PICK bits, a : /\ bits = {"WAIT_WOBJ", "WAIT_WOBJCB"}
                     /\ a = make_wait_tmout(k, bits, data, tmout)
  OBVIOUS
<1>3. Arms(a, k, t) /\ Made(a)
  BY <1>1, <1>2, TmoutArms
<1>4. PICK q : q = IF a.cfg.tpri THEN queue_insert_tpri(a, k.runtsk, a.obj.wait_queue)
                   ELSE Append(a.obj.wait_queue, k.runtsk)
  OBVIOUS
<1>5. m = wobj_queue_insert(a, k.runtsk)
  BY <1>2 DEF wobj_make_wait_tmout
<1>6. m = [a EXCEPT !.obj.wait_queue = q]
  BY <1>4, <1>5 DEF wobj_queue_insert
<1>7. Timeless(m, a)
  BY <1>3, <1>6 DEF Made, Timeless, Same, Fields, Untimed
<1>8. Retimes(a, k) /\ Timeless(k, k)
  BY <1>1, <1>3, TimelessSelf DEF Retimes
<1> QED BY <1>7, <1>8, RetimesBetween

LEMMA WaitsToReceive ==
  ASSUME NEW k, Sound(k), NEW t, Caller(k, t), NEW tmout \in Int,
         tmout <= TMAX_RELTIM, NEW m, m = WaitToReceive(k, tmout)
  PROVE  Retimes(m, k)
<1>1. Unwatched(k, t) /\ Made(k) /\ t \in Task
  BY SoundMade, CallerUnwatched DEF Caller
<1>2. PICK bits, a : bits = {"WAIT_WOBJ"} /\ a = make_wait_tmout(k, bits, NoData, tmout)
  OBVIOUS
<1>3. Arms(a, k, t) /\ Made(a)
  BY <1>1, <1>2, TmoutArms
<1>4. PICK q : q = Append(a.obj.rwait_queue, k.runtsk)
  OBVIOUS
<1>5. m = [a EXCEPT !.obj.rwait_queue = Append(@, k.runtsk)]
  BY <1>2 DEF WaitToReceive
<1>6. m = [a EXCEPT !.obj.rwait_queue = q]
  BY <1>4, <1>5
<1>7. Timeless(m, a)
  BY <1>3, <1>6 DEF Made, Timeless, Same, Fields, Untimed
<1>8. Retimes(a, k) /\ Timeless(k, k)
  BY <1>1, <1>3, TimelessSelf DEF Retimes
<1> QED BY <1>7, <1>8, RetimesBetween

LEMMA SignalDisarms ==
  ASSUME NEW k, Sound(k), NEW m, m = sig_sem(k)
  PROVE  Disarms(m, k)
<1>1. CASE NoWaiters(k)
  <2>1. m = [k EXCEPT !.obj.store = k.obj.store + 1]
    BY <1>1 DEF sig_sem
  <2> QED BY <2>1, SoundShape, StoreSet, StoredDisarms
<1>2. CASE ~NoWaiters(k)
  BY <1>2, StoredSelf, WakeDisarms DEF sig_sem
<1> QED BY <1>1, <1>2

LEMMA WaiSemRetimes ==
  ASSUME NEW k, Sound(k), NEW t, Caller(k, t), NEW tmout \in Int, tmout <= TMAX_RELTIM,
         NEW m, m = twai_sem(k, tmout)
  PROVE  Retimes(m, k)
<1>1. CASE m = [k EXCEPT !.obj.store = k.obj.store - 1]
  BY <1>1, SoundShape, StoreSet, StoredDisarms
<1>2. CASE m = wobj_make_wait_tmout(k, NoData, tmout)
  BY <1>2, ObjectWaits
<1> QED BY <1>1, <1>2 DEF twai_sem

LEMMA SetFlgDisarms ==
  ASSUME NEW k, Sound(k), NEW ptn, NEW m, m = set_flg(k, ptn) \/ m = clr_flg(k, ptn)
  PROVE  Disarms(m, k)
<1>1. PICK a : a = [k EXCEPT !.obj.store = k.obj.store \cup ptn]
  OBVIOUS
<1>2. Stored(a, k)
  BY <1>1, SoundShape, StoreSet
<1>3. \/ m = a
      \/ ~NoWaiters(k) /\ m = WakeFirst(TakePattern(a))
      \/ m = [k EXCEPT !.obj.store = k.obj.store \cap ptn]
  BY <1>1 DEF set_flg, clr_flg
<1>4. CASE m = a
  BY <1>2, <1>4, StoredDisarms
<1>5. CASE ~NoWaiters(k) /\ m = WakeFirst(TakePattern(a))
  <2>1. PICK b : b = TakePattern(a)
    OBVIOUS
  <2>2. Stored(b, a)
    BY <1>2, <2>1, SoundShape, StoredShape, PatternTaken
  <2>3. Stored(b, k)
    BY <1>2, <2>2, StoredStored
  <2> QED BY <1>5, <2>1, <2>3, WakeDisarms
<1>6. CASE m = [k EXCEPT !.obj.store = k.obj.store \cap ptn]
  BY <1>6, SoundShape, StoreSet, StoredDisarms
<1> QED BY <1>3, <1>4, <1>5, <1>6

LEMMA WaiFlgRetimes ==
  ASSUME NEW k, Sound(k), NEW t, Caller(k, t), NEW tmout \in Int, tmout <= TMAX_RELTIM,
         NEW ptn, NEW mode, NEW m, m = twai_flg(k, ptn, mode, tmout)
  PROVE  Retimes(m, k)
<1>1. CASE m = TakePattern(k)
  BY <1>1, SoundShape, PatternTaken, StoredDisarms
<1>2. CASE m = wobj_make_wait_tmout(k, <<ptn, mode>>, tmout)
  BY <1>2, ObjectWaits
<1> QED BY <1>1, <1>2 DEF twai_flg

LEMMA HandDisarms ==
  ASSUME NEW k, Sound(k), k.obj.rwait_queue # << >>, NEW item, NEW m, m = send_data_rwait(k, item)
  PROVE  Disarms(m, k)
<1>1. PICK t : IsHead(t, k.obj.rwait_queue)
  BY DEF IsHead
<1>2. PICK a, b, c : /\ a = Deliver(k, item) /\ b = [a EXCEPT !.obj.rwait_queue = Tail(@)]
                     /\ c = [b EXCEPT !.tcb[t].data = <<item>>]
  OBVIOUS
<1>3. m = wait_complete(c, t)
  BY <1>1, <1>2 DEF send_data_rwait, FirstReceiving, IsHead
<1>4. Stored(a, k)
  BY <1>2, SoundShape, StoreSet DEF Deliver
<1>5. Timeless(a, k) /\ Sound(a) /\ Shape(a) /\ a.obj.rwait_queue = k.obj.rwait_queue
  BY <1>4, StoredTimeless, StoredServes, SoundShape, StoredShape
<1>6. Watchful(a, t)
  BY <1>1, <1>5, HeadWatchful
<1>7. Timeless(b, a) /\ b.tcb = a.tcb
  BY <1>2, <1>5 DEF Made, Timeless, Same, Fields, Untimed
<1>8. Timeless(c, b)
  <2>1. Made(b)
    BY <1>7 DEF Timeless
  <2>2. c = [b EXCEPT !.tcb[t].data = <<item>>]
    BY <1>2
  <2>3. \E tcb : c = [b EXCEPT !.tcb = tcb]
    BY <2>1, <2>2 DEF Made, Fields
  <2> QED BY <2>1, <2>3, BlockTimeless
<1>9. c.tcb[t].winfo = b.tcb[t].winfo
  <2>1. t \in Task
    BY <1>6 DEF Watchful
  <2>2. c.tcb = [b.tcb EXCEPT ![t].data = <<item>>]
    BY <1>2, <1>7 DEF Timeless, Made, Fields
  <2>3. c.tcb[t] = [b.tcb[t] EXCEPT !.data = <<item>>]
    BY <1>5, <1>7, <2>1, <2>2 DEF Shape
  <2> QED BY <2>3
<1>10. Timeless(c, a) /\ Watchful(c, t)
  BY <1>6, <1>7, <1>8, <1>9, TimelessTimeless, WatchfulAfter
<1>11. Frees(m, c, t)
  BY <1>3, <1>10, CompleteFrees
<1>12. Disarms(m, c)
  BY <1>6, <1>11 DEF Disarms, Watchful
<1>13. Timeless(c, k)
  BY <1>5, <1>10, TimelessTimeless
<1> QED BY <1>12, <1>13, DisarmsAfter

LEMMA SendDtqDisarms ==
  ASSUME NEW k, Sound(k), NEW tmout, k.obj.rwait_queue # << >> \/ HasRoom(k),
         NEW m, m = tsnd_dtq(k, tmout)
  PROVE  Disarms(m, k)
<1>1. PICK a : a = [k EXCEPT !.sent = k.sent + 1]
  OBVIOUS
<1>2. Stored(a, k) /\ Sound(a) /\ Shape(a) /\ a.obj.rwait_queue = k.obj.rwait_queue
      /\ a.obj.store = k.obj.store /\ a.cfg = k.cfg
  BY <1>1, Counted
<1>3. m = IF a.obj.rwait_queue # << >> THEN send_data_rwait(a, a.sent)
          ELSE IF HasRoom(a) THEN enqueue_data(a, a.sent)
          ELSE wobj_make_wait_tmout(a, <<a.sent>>, tmout)
  BY <1>1 DEF tsnd_dtq
<1>4. CASE a.obj.rwait_queue # << >>
  <2>1. Disarms(m, a)
    BY <1>2, <1>3, <1>4, HandDisarms
  <2> QED BY <1>2, <2>1, StoredTimeless, DisarmsAfter
<1>5. CASE a.obj.rwait_queue = << >>
  <2>1. m = [a EXCEPT !.obj.store = Append(a.obj.store, a.sent)]
    BY <1>2, <1>3, <1>5 DEF HasRoom, enqueue_data
  <2>2. Stored(m, k)
    BY <1>2, <2>1, StoreSet, StoredStored
  <2> QED BY <2>2, StoredDisarms
<1> QED BY <1>4, <1>5

LEMMA SendDtqRetimes ==
  ASSUME NEW k, Sound(k), NEW t, Caller(k, t), NEW tmout \in Int, tmout <= TMAX_RELTIM,
         NEW m, m = tsnd_dtq(k, tmout)
  PROVE  Retimes(m, k)
<1>1. CASE k.obj.rwait_queue # << >> \/ HasRoom(k)
  BY <1>1, SendDtqDisarms, DisarmsRetimes
<1>2. CASE k.obj.rwait_queue = << >> /\ ~HasRoom(k)
  <2>1. PICK a : a = [k EXCEPT !.sent = k.sent + 1]
    OBVIOUS
  <2>2. Stored(a, k) /\ Sound(a) /\ Shape(a) /\ a.obj.rwait_queue = k.obj.rwait_queue
        /\ a.obj.store = k.obj.store /\ a.cfg = k.cfg
    BY <2>1, Counted
  <2>3. m = IF a.obj.rwait_queue # << >> THEN send_data_rwait(a, a.sent)
            ELSE IF HasRoom(a) THEN enqueue_data(a, a.sent)
            ELSE wobj_make_wait_tmout(a, <<a.sent>>, tmout)
    BY <2>1 DEF tsnd_dtq
  <2>4. m = wobj_make_wait_tmout(a, <<a.sent>>, tmout)
    BY <1>2, <2>2, <2>3 DEF HasRoom
  <2>5. Caller(a, t)
    BY <2>2, CallerStays
  <2>6. Retimes(m, a)
    BY <2>2, <2>4, <2>5, ObjectWaits
  <2> QED BY <2>2, <2>6, StoredTimeless, RetimesAfter
<1> QED BY <1>1, <1>2

LEMMA ForceDisarms ==
  ASSUME NEW k, Sound(k), NEW m, m = fsnd_dtq(k)
  PROVE  Disarms(m, k)
<1>1. PICK a : a = [k EXCEPT !.sent = k.sent + 1]
  OBVIOUS
<1>2. Stored(a, k) /\ Sound(a) /\ Shape(a) /\ a.obj.rwait_queue = k.obj.rwait_queue
      /\ a.obj.store = k.obj.store /\ a.cfg = k.cfg
  BY <1>1, Counted
<1>3. m = IF a.obj.rwait_queue # << >> THEN send_data_rwait(a, a.sent)
          ELSE force_enqueue_data(a, a.sent)
  BY <1>1 DEF fsnd_dtq
<1>4. CASE a.obj.rwait_queue # << >>
  <2>1. Disarms(m, a)
    BY <1>2, <1>3, <1>4, HandDisarms
  <2> QED BY <1>2, <2>1, StoredTimeless, DisarmsAfter
<1>5. CASE a.obj.rwait_queue = << >>
  <2>1. PICK x : x = Append(IF HasRoom(a) THEN a.obj.store ELSE Tail(a.obj.store), a.sent)
    OBVIOUS
  <2>2. m = [a EXCEPT !.obj.store = x]
    BY <1>3, <1>5, <2>1 DEF force_enqueue_data
  <2>3. Stored(m, k)
    BY <1>2, <2>2, StoreSet, StoredStored
  <2> QED BY <2>3, StoredDisarms
<1> QED BY <1>4, <1>5

LEMMA ReceiveDisarms ==
  ASSUME NEW k, Sound(k), NEW m, m = ReceiveStored(k) \/ (~NoWaiters(k) /\ m = ReceiveFromSender(k))
  PROVE  Disarms(m, k)
<1>1. PICK a : a = [Deliver(k, Head(k.obj.store)) EXCEPT !.obj.store = Tail(@)]
  OBVIOUS
<1>2. a = [Deliver(k, Head(k.obj.store)) EXCEPT
             !.obj.store = Tail(Deliver(k, Head(k.obj.store)).obj.store)]
  BY <1>1
<1>3. Stored(a, k) /\ Shape(a)
  BY <1>2, SoundShape, Delivered
<1>4. CASE m = ReceiveStored(k) /\ NoWaiters(k)
  BY <1>1, <1>3, <1>4, StoredDisarms DEF ReceiveStored
<1>5. CASE m = ReceiveStored(k) /\ ~NoWaiters(k)
  <2>1. PICK item, b : item = k.tcb[FirstWaiting(k)].data[1] /\ b = enqueue_data(a, item)
    OBVIOUS
  <2>2. Stored(b, a)
    BY <1>3, <2>1, StoreSet DEF enqueue_data
  <2>3. Stored(b, k)
    BY <1>3, <2>2, StoredStored
  <2>4. m = WakeFirst(b)
    BY <1>1, <1>5, <2>1 DEF ReceiveStored
  <2> QED BY <1>5, <2>3, <2>4, WakeDisarms
<1>6. CASE ~NoWaiters(k) /\ m = ReceiveFromSender(k)
  <2>1. PICK item, b : item = k.tcb[FirstWaiting(k)].data[1] /\ b = Deliver(k, item)
    OBVIOUS
  <2>2. Stored(b, k)
    BY <2>1, SoundShape, StoreSet DEF Deliver
  <2>3. m = WakeFirst(b)
    BY <1>6, <2>1 DEF ReceiveFromSender
  <2> QED BY <1>6, <2>2, <2>3, WakeDisarms
<1> QED BY <1>4, <1>5, <1>6

LEMMA RcvDtqRetimes ==
  ASSUME NEW k, Sound(k), NEW t, Caller(k, t), NEW tmout \in Int, tmout <= TMAX_RELTIM,
         NEW m, m = trcv_dtq(k, tmout)
  PROVE  Retimes(m, k)
<1>1. \/ m = ReceiveStored(k) \/ (~NoWaiters(k) /\ m = ReceiveFromSender(k))
      \/ m = WaitToReceive(k, tmout)
  BY DEF trcv_dtq
<1>2. CASE m = ReceiveStored(k) \/ (~NoWaiters(k) /\ m = ReceiveFromSender(k))
  BY <1>2, ReceiveDisarms, DisarmsRetimes
<1>3. CASE m = WaitToReceive(k, tmout)
  BY <1>3, WaitsToReceive
<1> QED BY <1>1, <1>2, <1>3

LEMMA SndMbxDisarms ==
  ASSUME NEW k, Sound(k), NEW m, m = snd_mbx(k)
  PROVE  Disarms(m, k)
<1>1. PICK a : a = [k EXCEPT !.sent = k.sent + 1]
  OBVIOUS
<1>2. Stored(a, k) /\ Sound(a) /\ Shape(a)
  BY <1>1, Counted
<1>3. NoWaiters(a) = NoWaiters(k)
  BY <1>2, SoundShape, StoredShape DEF NoWaiters
<1>4. CASE ~NoWaiters(k)
  <2>1. PICK b : b = Deliver(a, a.sent)
    OBVIOUS
  <2>2. Stored(b, k)
    BY <1>2, <2>1, StoreSet, StoredStored DEF Deliver
  <2>3. m = WakeFirst(b)
    BY <1>1, <1>3, <1>4, <2>1 DEF snd_mbx
  <2> QED BY <1>4, <2>2, <2>3, WakeDisarms
<1>5. CASE NoWaiters(k)
  <2>1. PICK x : x = IF a.cfg.mpri THEN enqueue_msg_pri(a, a.sent) ELSE Append(a.obj.store, a.sent)
    OBVIOUS
  <2>2. m = [a EXCEPT !.obj.store = x]
    BY <1>1, <1>3, <1>5, <2>1 DEF snd_mbx
  <2>3. Stored(m, k)
    BY <1>2, <2>2, StoreSet, StoredStored
  <2> QED BY <2>3, StoredDisarms
<1> QED BY <1>4, <1>5

LEMMA RcvMbxRetimes ==
  ASSUME NEW k, Sound(k), NEW t, Caller(k, t), NEW tmout \in Int, tmout <= TMAX_RELTIM,
         NEW m, m = trcv_mbx(k, tmout)
  PROVE  Retimes(m, k)
<1>1. CASE m = [Deliver(k, Head(k.obj.store)) EXCEPT !.obj.store = Tail(@)]
  <2>1. m = [Deliver(k, Head(k.obj.store)) EXCEPT
               !.obj.store = Tail(Deliver(k, Head(k.obj.store)).obj.store)]
    BY <1>1
  <2> QED BY <2>1, SoundShape, Delivered, StoredDisarms
<1>2. CASE m = wobj_make_wait_tmout(k, NoData, tmout)
  BY <1>2, ObjectWaits
<1> QED BY <1>1, <1>2 DEF trcv_mbx

LEMMA GetMpfRetimes ==
  ASSUME NEW k, Sound(k), NEW t, Caller(k, t), NEW tmout \in Int, tmout <= TMAX_RELTIM,
         NEW m, m = tget_mpf(k, tmout)
  PROVE  Retimes(m, k)
<1>1. PICK a : a = [k EXCEPT !.obj.store = Tail(k.obj.store)]
  OBVIOUS
<1>2. m = GiveBlock(a, k.runtsk, Head(k.obj.store)) \/ m = wobj_make_wait_tmout(k, NoData, tmout)
  BY <1>1 DEF tget_mpf
<1>3. CASE m = GiveBlock(a, k.runtsk, Head(k.obj.store))
  <2>1. Stored(a, k) /\ Shape(a)
    BY <1>1, SoundShape, StoreSet, StoredShape
  <2>2. Stored(m, a)
    BY <1>3, <2>1, BlockGiven
  <2> QED BY <2>1, <2>2, StoredStored, StoredDisarms
<1>4. CASE m = wobj_make_wait_tmout(k, NoData, tmout)
  BY <1>4, ObjectWaits
<1> QED BY <1>2, <1>3, <1>4

LEMMA RelMpfDisarms ==
  ASSUME NEW k, Sound(k), NEW t, NEW blk, NEW m, m = rel_mpf(k, t, blk)
  PROVE  Disarms(m, k)
<1>1. PICK a : a = [k EXCEPT !.held = [k.held EXCEPT ![t] = k.held[t] \ {blk}]]
  OBVIOUS
<1>2. Stored(a, k)
  BY <1>1, SoundShape, StoreSet
<1>3. Shape(a) /\ a.obj.wait_queue = k.obj.wait_queue
  BY <1>2, SoundShape, StoredShape
<1>4. CASE NoWaiters(k)
  <2>1. m = [a EXCEPT !.obj.store = <<blk>> \o a.obj.store]
    BY <1>1, <1>4 DEF rel_mpf
  <2>2. Stored(m, k)
    BY <1>2, <1>3, <2>1, StoreSet, StoredStored
  <2> QED BY <2>2, StoredDisarms
<1>5. CASE ~NoWaiters(k)
  <2>1. PICK b : b = GiveBlock(a, FirstWaiting(k), blk)
    OBVIOUS
  <2>2. m = WakeFirst(b)
    BY <1>1, <1>5, <2>1 DEF rel_mpf
  <2>3. Stored(b, k)
    BY <1>2, <1>3, <2>1, BlockGiven, StoredStored
  <2> QED BY <1>5, <2>2, <2>3, WakeDisarms
<1> QED BY <1>4, <1>5

--------------------------------------------------------------------------------
(* The steps of tasks and handlers. *)

\* One event is stopped at most, or one is started, but not while a tick is processed.
Paces(m, k) == Disarms(m, k) \/ (~k.ticking /\ Retimes(m, k))

LEMMA RetimesReturns ==
  ASSUME Core(kernel), NEW service, InTask(service), NEW n, Retimes(n, kernel), Returns(n)
  PROVE  Paces(kernel', kernel)
<1>1. PICK m : m = kernel'
  OBVIOUS
<1>2. m = Dispatched(n)
  BY <1>1 DEF Returns
<1>3. Timeless(m, n)
  BY <1>2, RetimesMade, DispatchedTimeless
<1>4. Timeless(kernel, kernel)
  BY SoundMade, TimelessSelf DEF Core
<1>5. Retimes(m, kernel)
  BY <1>3, <1>4, RetimesBetween
<1>6. ~kernel.ticking
  BY DEF Core, Control, InTask, TaskContext
<1> QED BY <1>1, <1>5, <1>6 DEF Paces

LEMMA DisarmsReturns ==
  ASSUME Core(kernel), NEW service, InTask(service), NEW n, Disarms(n, kernel), Returns(n)
  PROVE  Paces(kernel', kernel)
BY DisarmsRetimes, RetimesReturns

LEMMA TimelessReturns ==
  ASSUME Core(kernel), NEW service, InTask(service), NEW n, Timeless(n, kernel), Returns(n)
  PROVE  Paces(kernel', kernel)
BY TimelessDisarms, RetimesReturns

LEMMA DisarmsLeaves ==
  ASSUME Core(kernel), NEW n, Disarms(n, kernel), Leaves(n)
  PROVE  Paces(kernel', kernel)
<1>1. PICK m : m = kernel'
  OBVIOUS
<1>2. m = Requested(n)
  BY <1>1 DEF Leaves
<1>3. Timeless(m, n)
  BY <1>2, DisarmsRetimes, RetimesMade, RequestedTimeless
<1>4. Timeless(kernel, kernel)
  BY SoundMade, TimelessSelf DEF Core
<1>5. Disarms(m, kernel)
  BY <1>3, <1>4, DisarmsBetween
<1> QED BY <1>1, <1>5 DEF Paces

LEMMA TimelessLeaves ==
  ASSUME Core(kernel), NEW n, Timeless(n, kernel), Leaves(n)
  PROVE  Paces(kernel', kernel)
BY TimelessDisarms, DisarmsLeaves

LEMMA TimeoutsShort ==
  ASSUME Core(kernel)
  PROVE  /\ \A tmout \in kernel.cfg.tmouts : tmout \in Int /\ tmout <= TMAX_RELTIM
         /\ \A time \in kernel.cfg.dlytims : time \in 0 .. TMAX_RELTIM
         /\ TMO_POL \in Int /\ TMO_POL <= TMAX_RELTIM
<1>1. Shape(kernel)
  BY SoundShape DEF Core
<1>2. PICK T, D : T = kernel.cfg.tmouts /\ D = kernel.cfg.dlytims
  OBVIOUS
<1>3. T \subseteq {TMO_FEVR} \cup 1 .. TMAX_RELTIM /\ D \subseteq 0 .. TMAX_RELTIM
  BY <1>1, <1>2, Configuration
<1>4. PICK H : H = 2 ^ (EVTTIM_BITS - 1)
  OBVIOUS
<1>5. H \in Nat \ {0} /\ TMAX_RELTIM = H - 1
  BY <1>4, WordSize DEF TMAX_RELTIM
<1>6. TMAX_RELTIM \in Nat
  BY <1>5
<1>7. TMO_FEVR = -1 /\ TMO_POL = 0
  BY DEF TMO_FEVR, TMO_POL
<1>8. \A tmout \in T : tmout \in Int /\ tmout <= TMAX_RELTIM
  BY <1>3, <1>6, <1>7
<1> QED BY <1>2, <1>3, <1>6, <1>7, <1>8

LEMMA ActsPace ==
  ASSUME Core(kernel), ActTsk \/ IactTsk \/ CanAct \/ ExtTsk \/ TerTsk \/ ChgPri
  PROVE  Paces(kernel', kernel)
<1>1. CASE ActTsk
  <2>1. PICK t \in Task :
           InTask("act_tsk") /\ Returns(act_tsk(kernel, t))
    BY <1>1 DEF ActTsk
  <2>2. PICK n : n = act_tsk(kernel, t)
    OBVIOUS
  <2>3. Timeless(n, kernel)
    BY <2>1, <2>2, MayCall, ActRetimes
  <2>4. Returns(n)
    BY <2>1, <2>2 DEF Returns
  <2> QED BY <2>1, <2>3, <2>4, TimelessReturns
<1>2. CASE IactTsk
  <2>1. PICK t \in Task :
           InHandler("iact_tsk") /\ Leaves(act_tsk(kernel, t))
    BY <1>2 DEF IactTsk
  <2>2. PICK n : n = act_tsk(kernel, t)
    OBVIOUS
  <2>3. Timeless(n, kernel)
    BY <2>1, <2>2, Handling, ActRetimes
  <2>4. Leaves(n)
    BY <2>1, <2>2 DEF Leaves
  <2> QED BY <2>1, <2>3, <2>4, TimelessLeaves
<1>3. CASE CanAct
  <2>1. PICK t \in Task :
           InTask("can_act") /\ Returns(can_act(kernel, t))
    BY <1>3 DEF CanAct
  <2>2. PICK n : n = can_act(kernel, t)
    OBVIOUS
  <2>3. Timeless(n, kernel)
    BY <2>1, <2>2, MayCall, ActRetimes
  <2>4. Returns(n)
    BY <2>1, <2>2 DEF Returns
  <2> QED BY <2>1, <2>3, <2>4, TimelessReturns
<1>4. CASE ExtTsk
  <2>1. PICK m : m = kernel'
    OBVIOUS
  <2>2. m = ext_tsk(kernel)
    BY <1>4, <2>1 DEF ExtTsk
  <2>3. Timeless(m, kernel)
    BY <2>2, SoundMade, ExtTskTimeless DEF Core
  <2> QED BY <2>1, <2>3, TimelessDisarms DEF Paces
<1>5. CASE TerTsk
  <2>1. PICK t \in Task :
           InTask("ter_tsk") /\ Returns(ter_tsk(kernel, t))
    BY <1>5 DEF TerTsk, Others
  <2>2. PICK n : n = ter_tsk(kernel, t)
    OBVIOUS
  <2>3. Disarms(n, kernel)
    BY <2>1, <2>2, MayCall, TerTskDisarms
  <2>4. Returns(n)
    BY <2>1, <2>2 DEF Returns
  <2> QED BY <2>1, <2>3, <2>4, DisarmsReturns
<1>6. CASE ChgPri
  <2>1. PICK t \in Task, pri \in kernel.cfg.pris :
           InTask("chg_pri") /\ Returns(chg_pri(kernel, t, pri))
    BY <1>6 DEF ChgPri
  <2>2. PICK n : n = chg_pri(kernel, t, pri)
    OBVIOUS
  <2>3. Timeless(n, kernel)
    BY <2>1, <2>2, MayCall, ChgPriTimeless
  <2>4. Returns(n)
    BY <2>1, <2>2 DEF Returns
  <2> QED BY <2>1, <2>3, <2>4, TimelessReturns
<1> QED BY <1>1, <1>2, <1>3, <1>4, <1>5, <1>6

LEMMA WaitsPace ==
  ASSUME Core(kernel), TslpTsk \/ DlyTsk \/ WupTsk \/ IwupTsk \/ CanWup \/ RelWai \/ IrelWai
         \/ SusTsk \/ RsmTsk
  PROVE  Paces(kernel', kernel)
<1>1. CASE TslpTsk
  <2>1. PICK tmout \in kernel.cfg.tmouts :
           InTask("tslp_tsk") /\ Returns(tslp_tsk(kernel, tmout))
    BY <1>1 DEF TslpTsk, MayWait
  <2>2. PICK n : n = tslp_tsk(kernel, tmout)
    OBVIOUS
  <2>3. Retimes(n, kernel)
    BY <2>1, <2>2, MayCall, TimeoutsShort, SleepRetimes
  <2>4. Returns(n)
    BY <2>1, <2>2 DEF Returns
  <2> QED BY <2>1, <2>3, <2>4, RetimesReturns
<1>2. CASE DlyTsk
  <2>1. PICK time \in kernel.cfg.dlytims :
           InTask("dly_tsk") /\ Returns(dly_tsk(kernel, time))
    BY <1>2 DEF DlyTsk, MayWait
  <2>2. PICK n : n = dly_tsk(kernel, time)
    OBVIOUS
  <2>3. Retimes(n, kernel)
    BY <2>1, <2>2, MayCall, TimeoutsShort, DelayRetimes
  <2>4. Returns(n)
    BY <2>1, <2>2 DEF Returns
  <2> QED BY <2>1, <2>3, <2>4, RetimesReturns
<1>3. CASE WupTsk
  <2>1. PICK t \in Task :
           InTask("wup_tsk") /\ Returns(wup_tsk(kernel, t))
    BY <1>3 DEF WupTsk
  <2>2. PICK n : n = wup_tsk(kernel, t)
    OBVIOUS
  <2>3. Disarms(n, kernel)
    BY <2>1, <2>2, MayCall, WakeupDisarms
  <2>4. Returns(n)
    BY <2>1, <2>2 DEF Returns
  <2> QED BY <2>1, <2>3, <2>4, DisarmsReturns
<1>4. CASE IwupTsk
  <2>1. PICK t \in Task :
           InHandler("iwup_tsk") /\ Leaves(wup_tsk(kernel, t))
    BY <1>4 DEF IwupTsk
  <2>2. PICK n : n = wup_tsk(kernel, t)
    OBVIOUS
  <2>3. Disarms(n, kernel)
    BY <2>1, <2>2, Handling, WakeupDisarms
  <2>4. Leaves(n)
    BY <2>1, <2>2 DEF Leaves
  <2> QED BY <2>1, <2>3, <2>4, DisarmsLeaves
<1>5. CASE CanWup
  <2>1. PICK t \in Task :
           InTask("can_wup") /\ Returns(can_wup(kernel, t))
    BY <1>5 DEF CanWup
  <2>2. PICK n : n = can_wup(kernel, t)
    OBVIOUS
  <2>3. Disarms(n, kernel)
    BY <2>1, <2>2, MayCall, WakeupDisarms
  <2>4. Returns(n)
    BY <2>1, <2>2 DEF Returns
  <2> QED BY <2>1, <2>3, <2>4, DisarmsReturns
<1>6. CASE RelWai
  <2>1. PICK t \in Task :
           InTask("rel_wai") /\ TSTAT_WAITING(kernel, t) /\ Returns(wait_release(kernel, t))
    BY <1>6 DEF RelWai
  <2>2. PICK n : n = wait_release(kernel, t)
    OBVIOUS
  <2>3. Disarms(n, kernel)
    BY <2>1, <2>2, MayCall, ReleaseDisarms
  <2>4. Returns(n)
    BY <2>1, <2>2 DEF Returns
  <2> QED BY <2>1, <2>3, <2>4, DisarmsReturns
<1>7. CASE IrelWai
  <2>1. PICK t \in Task :
           InHandler("irel_wai") /\ TSTAT_WAITING(kernel, t) /\ Leaves(wait_release(kernel, t))
    BY <1>7 DEF IrelWai
  <2>2. PICK n : n = wait_release(kernel, t)
    OBVIOUS
  <2>3. Disarms(n, kernel)
    BY <2>1, <2>2, Handling, ReleaseDisarms
  <2>4. Leaves(n)
    BY <2>1, <2>2 DEF Leaves
  <2> QED BY <2>1, <2>3, <2>4, DisarmsLeaves
<1>8. CASE SusTsk
  <2>1. PICK t \in Task :
           InTask("sus_tsk") /\ Returns(sus_tsk(kernel, t))
    BY <1>8 DEF SusTsk
  <2>2. PICK n : n = sus_tsk(kernel, t)
    OBVIOUS
  <2>3. Timeless(n, kernel)
    BY <2>1, <2>2, MayCall, SuspendTimeless
  <2>4. Returns(n)
    BY <2>1, <2>2 DEF Returns
  <2> QED BY <2>1, <2>3, <2>4, TimelessReturns
<1>9. CASE RsmTsk
  <2>1. PICK t \in Task :
           InTask("rsm_tsk") /\ Returns(rsm_tsk(kernel, t))
    BY <1>9 DEF RsmTsk, Others
  <2>2. PICK n : n = rsm_tsk(kernel, t)
    OBVIOUS
  <2>3. Timeless(n, kernel)
    BY <2>1, <2>2, MayCall, SuspendTimeless
  <2>4. Returns(n)
    BY <2>1, <2>2 DEF Returns
  <2> QED BY <2>1, <2>3, <2>4, TimelessReturns
<1> QED BY <1>1, <1>2, <1>3, <1>4, <1>5, <1>6, <1>7, <1>8, <1>9

LEMMA SwitchesPace ==
  ASSUME Core(kernel), RasTex \/ IrasTex \/ DisTex \/ EnaTex \/ TexReturn \/ RotRdq \/ IrotRdq
         \/ LocCpu \/ UnlCpu \/ DisDsp \/ EnaDsp
  PROVE  Paces(kernel', kernel)
<1>1. CASE RasTex
  <2>1. PICK t \in Task :
           InTask("ras_tex") /\ Returns(ras_tex(kernel, t))
    BY <1>1 DEF RasTex
  <2>2. PICK n : n = ras_tex(kernel, t)
    OBVIOUS
  <2>3. Timeless(n, kernel)
    BY <2>1, <2>2, MayCall, SoundMade, RaisedTimeless
  <2>4. Returns(n)
    BY <2>1, <2>2 DEF Returns
  <2> QED BY <2>1, <2>3, <2>4, TimelessReturns
<1>2. CASE IrasTex
  <2>1. PICK t \in Task :
           InHandler("ras_tex") /\ Leaves(iras_tex(kernel, t))
    BY <1>2 DEF IrasTex
  <2>2. PICK n : n = iras_tex(kernel, t)
    OBVIOUS
  <2>3. Timeless(n, kernel)
    BY <2>1, <2>2, Handling, SoundMade, RaisedTimeless
  <2>4. Leaves(n)
    BY <2>1, <2>2 DEF Leaves
  <2> QED BY <2>1, <2>3, <2>4, TimelessLeaves
<1>3. CASE DisTex
  <2>1. InTask("ras_tex") /\ Returns(dis_tex(kernel))
    BY <1>3 DEF DisTex
  <2>2. PICK n : n = dis_tex(kernel)
    OBVIOUS
  <2>3. Timeless(n, kernel)
    BY <2>1, <2>2, MayCall, SoundMade, EnatexTimeless
  <2>4. Returns(n)
    BY <2>1, <2>2 DEF Returns
  <2> QED BY <2>1, <2>3, <2>4, TimelessReturns
<1>4. CASE EnaTex
  <2>1. InTask("ras_tex") /\ Returns(ena_tex(kernel))
    BY <1>4 DEF EnaTex
  <2>2. PICK n : n = ena_tex(kernel)
    OBVIOUS
  <2>3. Timeless(n, kernel)
    BY <2>1, <2>2, MayCall, SoundMade, EnatexTimeless
  <2>4. Returns(n)
    BY <2>1, <2>2 DEF Returns
  <2> QED BY <2>1, <2>3, <2>4, TimelessReturns
<1>5. CASE TexReturn
  <2>1. PICK m : m = kernel'
    OBVIOUS
  <2>2. m = [TexReturned(kernel) EXCEPT !.locked = FALSE]
    BY <1>5, <2>1 DEF TexReturn
  <2>3. Timeless(m, kernel)
    BY <2>2, SoundMade, TexReturnedTimeless DEF Core
  <2> QED BY <2>1, <2>3, TimelessDisarms DEF Paces
<1>6. CASE RotRdq
  <2>1. PICK pri \in Priority :
           InTask("rot_rdq") /\ Returns(rot_rdq(kernel, pri))
    BY <1>6 DEF RotRdq
  <2>2. PICK n : n = rot_rdq(kernel, pri)
    OBVIOUS
  <2>3. Timeless(n, kernel)
    BY <2>1, <2>2, MayCall, SoundMade, RotateTimeless DEF rot_rdq
  <2>4. Returns(n)
    BY <2>1, <2>2 DEF Returns
  <2> QED BY <2>1, <2>3, <2>4, TimelessReturns
<1>7. CASE IrotRdq
  <2>1. PICK pri \in Priority :
           InHandler("irot_rdq") /\ Leaves(rot_rdq(kernel, pri))
    BY <1>7 DEF IrotRdq
  <2>2. PICK n : n = rot_rdq(kernel, pri)
    OBVIOUS
  <2>3. Timeless(n, kernel)
    BY <2>1, <2>2, Handling, SoundMade, RotateTimeless DEF rot_rdq
  <2>4. Leaves(n)
    BY <2>1, <2>2 DEF Leaves
  <2> QED BY <2>1, <2>3, <2>4, TimelessLeaves
<1>8. CASE LocCpu
  <2>1. InTask("loc_cpu") /\ Returns(loc_cpu(kernel))
    BY <1>8 DEF LocCpu
  <2>2. PICK n : n = loc_cpu(kernel)
    OBVIOUS
  <2>3. Timeless(n, kernel)
    BY <2>1, <2>2, MayCall, SoundMade, SwitchTimeless
  <2>4. Returns(n)
    BY <2>1, <2>2 DEF Returns
  <2> QED BY <2>1, <2>3, <2>4, TimelessReturns
<1>9. CASE UnlCpu
  <2>1. PICK m, n : m = kernel' /\ n = unl_cpu(kernel)
    OBVIOUS
  <2>2. m = Dispatched(n)
    BY <1>9, <2>1 DEF UnlCpu, Returns
  <2>3. Timeless(n, kernel)
    BY <2>1, SoundMade, SwitchTimeless DEF Core
  <2>4. Timeless(m, n)
    BY <2>2, <2>3, DispatchedTimeless DEF Timeless
  <2>5. Timeless(m, kernel)
    BY <2>3, <2>4, TimelessTimeless
  <2> QED BY <2>1, <2>5, TimelessDisarms DEF Paces
<1>10. CASE DisDsp
  <2>1. InTask("dis_dsp") /\ Returns(dis_dsp(kernel))
    BY <1>10 DEF DisDsp
  <2>2. PICK n : n = dis_dsp(kernel)
    OBVIOUS
  <2>3. Timeless(n, kernel)
    BY <2>1, <2>2, MayCall, SoundMade, SwitchTimeless
  <2>4. Returns(n)
    BY <2>1, <2>2 DEF Returns
  <2> QED BY <2>1, <2>3, <2>4, TimelessReturns
<1>11. CASE EnaDsp
  <2>1. InTask("dis_dsp") /\ Returns(ena_dsp(kernel))
    BY <1>11 DEF EnaDsp
  <2>2. PICK n : n = ena_dsp(kernel)
    OBVIOUS
  <2>3. Timeless(n, kernel)
    BY <2>1, <2>2, MayCall, SoundMade, SwitchTimeless
  <2>4. Returns(n)
    BY <2>1, <2>2 DEF Returns
  <2> QED BY <2>1, <2>3, <2>4, TimelessReturns
<1> QED BY <1>1, <1>2, <1>3, <1>4, <1>5, <1>6, <1>7, <1>8, <1>9, <1>10, <1>11

LEMMA SemFlgPace ==
  ASSUME Core(kernel), SigSem \/ IsigSem \/ WaiSem \/ PolSem \/ SetFlg \/ IsetFlg \/ ClrFlg
         \/ WaiFlg \/ PolFlg
  PROVE  Paces(kernel', kernel)
<1>1. CASE SigSem
  <2>1. InTask("sem") /\ Returns(sig_sem(kernel))
    BY <1>1 DEF SigSem
  <2>2. PICK n : n = sig_sem(kernel)
    OBVIOUS
  <2>3. Disarms(n, kernel)
    BY <2>1, <2>2, MayCall, SignalDisarms
  <2>4. Returns(n)
    BY <2>1, <2>2 DEF Returns
  <2> QED BY <2>1, <2>3, <2>4, DisarmsReturns
<1>2. CASE IsigSem
  <2>1. InHandler("isig_sem") /\ Leaves(sig_sem(kernel))
    BY <1>2 DEF IsigSem
  <2>2. PICK n : n = sig_sem(kernel)
    OBVIOUS
  <2>3. Disarms(n, kernel)
    BY <2>1, <2>2, Handling, SignalDisarms
  <2>4. Leaves(n)
    BY <2>1, <2>2 DEF Leaves
  <2> QED BY <2>1, <2>3, <2>4, DisarmsLeaves
<1>3. CASE WaiSem
  <2>1. PICK tmout \in kernel.cfg.tmouts :
           InTask("sem") /\ Returns(twai_sem(kernel, tmout))
    BY <1>3 DEF WaiSem, MayWait
  <2>2. PICK n : n = twai_sem(kernel, tmout)
    OBVIOUS
  <2>3. Retimes(n, kernel)
    BY <2>1, <2>2, MayCall, TimeoutsShort, WaiSemRetimes
  <2>4. Returns(n)
    BY <2>1, <2>2 DEF Returns
  <2> QED BY <2>1, <2>3, <2>4, RetimesReturns
<1>4. CASE PolSem
  <2>1. InTask("sem") /\ Returns(twai_sem(kernel, TMO_POL))
    BY <1>4 DEF PolSem
  <2>2. PICK n : n = twai_sem(kernel, TMO_POL)
    OBVIOUS
  <2>3. Retimes(n, kernel)
    BY <2>1, <2>2, MayCall, TimeoutsShort, WaiSemRetimes
  <2>4. Returns(n)
    BY <2>1, <2>2 DEF Returns
  <2> QED BY <2>1, <2>3, <2>4, RetimesReturns
<1>5. CASE SetFlg
  <2>1. PICK ptn \in kernel.cfg.ptns :
           InTask("flg") /\ Returns(set_flg(kernel, ptn))
    BY <1>5 DEF SetFlg
  <2>2. PICK n : n = set_flg(kernel, ptn)
    OBVIOUS
  <2>3. Disarms(n, kernel)
    BY <2>1, <2>2, MayCall, SetFlgDisarms
  <2>4. Returns(n)
    BY <2>1, <2>2 DEF Returns
  <2> QED BY <2>1, <2>3, <2>4, DisarmsReturns
<1>6. CASE IsetFlg
  <2>1. PICK ptn \in kernel.cfg.ptns :
           InHandler("iset_flg") /\ Leaves(set_flg(kernel, ptn))
    BY <1>6 DEF IsetFlg
  <2>2. PICK n : n = set_flg(kernel, ptn)
    OBVIOUS
  <2>3. Disarms(n, kernel)
    BY <2>1, <2>2, Handling, SetFlgDisarms
  <2>4. Leaves(n)
    BY <2>1, <2>2 DEF Leaves
  <2> QED BY <2>1, <2>3, <2>4, DisarmsLeaves
<1>7. CASE ClrFlg
  <2>1. PICK ptn \in kernel.cfg.ptns :
           InTask("flg") /\ Returns(clr_flg(kernel, ptn))
    BY <1>7 DEF ClrFlg
  <2>2. PICK n : n = clr_flg(kernel, ptn)
    OBVIOUS
  <2>3. Disarms(n, kernel)
    BY <2>1, <2>2, MayCall, SetFlgDisarms
  <2>4. Returns(n)
    BY <2>1, <2>2 DEF Returns
  <2> QED BY <2>1, <2>3, <2>4, DisarmsReturns
<1>8. CASE WaiFlg
  <2>1. PICK ptn \in kernel.cfg.ptns, mode \in {"TWF_ANDW", "TWF_ORW"}, tmout \in kernel.cfg.tmouts :
           InTask("flg") /\ Returns(twai_flg(kernel, ptn, mode, tmout))
    BY <1>8 DEF WaiFlg, MayWait
  <2>2. PICK n : n = twai_flg(kernel, ptn, mode, tmout)
    OBVIOUS
  <2>3. Retimes(n, kernel)
    BY <2>1, <2>2, MayCall, TimeoutsShort, WaiFlgRetimes
  <2>4. Returns(n)
    BY <2>1, <2>2 DEF Returns
  <2> QED BY <2>1, <2>3, <2>4, RetimesReturns
<1>9. CASE PolFlg
  <2>1. PICK ptn \in kernel.cfg.ptns, mode \in {"TWF_ANDW", "TWF_ORW"} :
           InTask("flg") /\ Returns(twai_flg(kernel, ptn, mode, TMO_POL))
    BY <1>9 DEF PolFlg
  <2>2. PICK n : n = twai_flg(kernel, ptn, mode, TMO_POL)
    OBVIOUS
  <2>3. Retimes(n, kernel)
    BY <2>1, <2>2, MayCall, TimeoutsShort, WaiFlgRetimes
  <2>4. Returns(n)
    BY <2>1, <2>2 DEF Returns
  <2> QED BY <2>1, <2>3, <2>4, RetimesReturns
<1> QED BY <1>1, <1>2, <1>3, <1>4, <1>5, <1>6, <1>7, <1>8, <1>9

LEMMA DtqPace ==
  ASSUME Core(kernel), SndDtq \/ PsndDtq \/ IpsndDtq \/ FsndDtq \/ IfsndDtq \/ RcvDtq
         \/ PrcvDtq
  PROVE  Paces(kernel', kernel)
<1>1. CASE SndDtq
  <2>1. PICK tmout \in kernel.cfg.tmouts :
           InTask("dtq") /\ Returns(tsnd_dtq(kernel, tmout))
    BY <1>1 DEF SndDtq, MayWait
  <2>2. PICK n : n = tsnd_dtq(kernel, tmout)
    OBVIOUS
  <2>3. Retimes(n, kernel)
    BY <2>1, <2>2, MayCall, TimeoutsShort, SendDtqRetimes
  <2>4. Returns(n)
    BY <2>1, <2>2 DEF Returns
  <2> QED BY <2>1, <2>3, <2>4, RetimesReturns
<1>2. CASE PsndDtq
  <2>1. InTask("dtq") /\ Returns(tsnd_dtq(kernel, TMO_POL))
    BY <1>2 DEF PsndDtq
  <2>2. PICK n : n = tsnd_dtq(kernel, TMO_POL)
    OBVIOUS
  <2>3. Retimes(n, kernel)
    BY <2>1, <2>2, MayCall, TimeoutsShort, SendDtqRetimes
  <2>4. Returns(n)
    BY <2>1, <2>2 DEF Returns
  <2> QED BY <2>1, <2>3, <2>4, RetimesReturns
<1>3. CASE IpsndDtq
  <2>1. InHandler("ipsnd_dtq") /\ (kernel.obj.rwait_queue # << >> \/ HasRoom(kernel)) /\ Leaves(tsnd_dtq(kernel, TMO_POL))
    BY <1>3 DEF IpsndDtq, CanSend
  <2>2. PICK n : n = tsnd_dtq(kernel, TMO_POL)
    OBVIOUS
  <2>3. Disarms(n, kernel)
    BY <2>1, <2>2, Handling, SendDtqDisarms
  <2>4. Leaves(n)
    BY <2>1, <2>2 DEF Leaves
  <2> QED BY <2>1, <2>3, <2>4, DisarmsLeaves
<1>4. CASE FsndDtq
  <2>1. InTask("fsnd_dtq") /\ Returns(fsnd_dtq(kernel))
    BY <1>4 DEF FsndDtq
  <2>2. PICK n : n = fsnd_dtq(kernel)
    OBVIOUS
  <2>3. Disarms(n, kernel)
    BY <2>1, <2>2, MayCall, ForceDisarms
  <2>4. Returns(n)
    BY <2>1, <2>2 DEF Returns
  <2> QED BY <2>1, <2>3, <2>4, DisarmsReturns
<1>5. CASE IfsndDtq
  <2>1. InHandler("fsnd_dtq") /\ Leaves(fsnd_dtq(kernel))
    BY <1>5 DEF IfsndDtq
  <2>2. PICK n : n = fsnd_dtq(kernel)
    OBVIOUS
  <2>3. Disarms(n, kernel)
    BY <2>1, <2>2, Handling, ForceDisarms
  <2>4. Leaves(n)
    BY <2>1, <2>2 DEF Leaves
  <2> QED BY <2>1, <2>3, <2>4, DisarmsLeaves
<1>6. CASE RcvDtq
  <2>1. PICK tmout \in kernel.cfg.tmouts :
           InTask("dtq") /\ Returns(trcv_dtq(kernel, tmout))
    BY <1>6 DEF RcvDtq, MayWait
  <2>2. PICK n : n = trcv_dtq(kernel, tmout)
    OBVIOUS
  <2>3. Retimes(n, kernel)
    BY <2>1, <2>2, MayCall, TimeoutsShort, RcvDtqRetimes
  <2>4. Returns(n)
    BY <2>1, <2>2 DEF Returns
  <2> QED BY <2>1, <2>3, <2>4, RetimesReturns
<1>7. CASE PrcvDtq
  <2>1. InTask("dtq") /\ Returns(trcv_dtq(kernel, TMO_POL))
    BY <1>7 DEF PrcvDtq
  <2>2. PICK n : n = trcv_dtq(kernel, TMO_POL)
    OBVIOUS
  <2>3. Retimes(n, kernel)
    BY <2>1, <2>2, MayCall, TimeoutsShort, RcvDtqRetimes
  <2>4. Returns(n)
    BY <2>1, <2>2 DEF Returns
  <2> QED BY <2>1, <2>3, <2>4, RetimesReturns
<1> QED BY <1>1, <1>2, <1>3, <1>4, <1>5, <1>6, <1>7

LEMMA MbxMpfPace ==
  ASSUME Core(kernel), SndMbx \/ RcvMbx \/ PrcvMbx \/ GetMpf \/ PgetMpf \/ RelMpf
  PROVE  Paces(kernel', kernel)
<1>1. CASE SndMbx
  <2>1. InTask("mbx") /\ Returns(snd_mbx(kernel))
    BY <1>1 DEF SndMbx
  <2>2. PICK n : n = snd_mbx(kernel)
    OBVIOUS
  <2>3. Disarms(n, kernel)
    BY <2>1, <2>2, MayCall, SndMbxDisarms
  <2>4. Returns(n)
    BY <2>1, <2>2 DEF Returns
  <2> QED BY <2>1, <2>3, <2>4, DisarmsReturns
<1>2. CASE RcvMbx
  <2>1. PICK tmout \in kernel.cfg.tmouts :
           InTask("mbx") /\ Returns(trcv_mbx(kernel, tmout))
    BY <1>2 DEF RcvMbx, MayWait
  <2>2. PICK n : n = trcv_mbx(kernel, tmout)
    OBVIOUS
  <2>3. Retimes(n, kernel)
    BY <2>1, <2>2, MayCall, TimeoutsShort, RcvMbxRetimes
  <2>4. Returns(n)
    BY <2>1, <2>2 DEF Returns
  <2> QED BY <2>1, <2>3, <2>4, RetimesReturns
<1>3. CASE PrcvMbx
  <2>1. InTask("mbx") /\ Returns(trcv_mbx(kernel, TMO_POL))
    BY <1>3 DEF PrcvMbx
  <2>2. PICK n : n = trcv_mbx(kernel, TMO_POL)
    OBVIOUS
  <2>3. Retimes(n, kernel)
    BY <2>1, <2>2, MayCall, TimeoutsShort, RcvMbxRetimes
  <2>4. Returns(n)
    BY <2>1, <2>2 DEF Returns
  <2> QED BY <2>1, <2>3, <2>4, RetimesReturns
<1>4. CASE GetMpf
  <2>1. PICK tmout \in kernel.cfg.tmouts :
           InTask("mpf") /\ Returns(tget_mpf(kernel, tmout))
    BY <1>4 DEF GetMpf, MayWait
  <2>2. PICK n : n = tget_mpf(kernel, tmout)
    OBVIOUS
  <2>3. Retimes(n, kernel)
    BY <2>1, <2>2, MayCall, TimeoutsShort, GetMpfRetimes
  <2>4. Returns(n)
    BY <2>1, <2>2 DEF Returns
  <2> QED BY <2>1, <2>3, <2>4, RetimesReturns
<1>5. CASE PgetMpf
  <2>1. InTask("mpf") /\ Returns(tget_mpf(kernel, TMO_POL))
    BY <1>5 DEF PgetMpf
  <2>2. PICK n : n = tget_mpf(kernel, TMO_POL)
    OBVIOUS
  <2>3. Retimes(n, kernel)
    BY <2>1, <2>2, MayCall, TimeoutsShort, GetMpfRetimes
  <2>4. Returns(n)
    BY <2>1, <2>2 DEF Returns
  <2> QED BY <2>1, <2>3, <2>4, RetimesReturns
<1>6. CASE RelMpf
  <2>1. PICK t \in Task, blk \in UNION {kernel.held[u] : u \in Task} :
           InTask("mpf") /\ Returns(rel_mpf(kernel, t, blk))
    BY <1>6 DEF RelMpf
  <2>2. PICK n : n = rel_mpf(kernel, t, blk)
    OBVIOUS
  <2>3. Disarms(n, kernel)
    BY <2>1, <2>2, MayCall, RelMpfDisarms
  <2>4. Returns(n)
    BY <2>1, <2>2 DEF Returns
  <2> QED BY <2>1, <2>3, <2>4, DisarmsReturns
<1> QED BY <1>1, <1>2, <1>3, <1>4, <1>5, <1>6

--------------------------------------------------------------------------------
(* Steps of the time. *)

\* The period of a handler, as a distance that the clock can tell.
LEMMA PeriodFacts ==
  ASSUME NEW k, Shape(k), NEW c \in Cyclic, NEW p, p = k.cfg.cyctim[c]
  PROVE  p \in 1 .. TMAX_RELTIM /\ p \in Int
<1>1. PICK f : f = k.cfg.cyctim
  OBVIOUS
<1>2. f \in [Cyclic -> 1 .. TMAX_RELTIM] /\ p = f[c]
  BY <1>1, Configuration
<1> QED BY <1>2

LEMMA StaCycAlters ==
  ASSUME NEW k, Sound(k), NEW c \in Cyclic, NEW m, m = sta_cyc(k, c)
  PROVE  /\ Alters(m, k, c) /\ OnTime(m, c)
         /\ SetTo(m, c, Wrap(k.next_time + k.cfg.cyctim[c]))
<1>1. PICK s : s = StopCyclic(k, c)
  OBVIOUS
<1>2. Alters(s, k, c) /\ Nodes(s, c) = {} /\ Sound(s)
  BY <1>1, StopCycAlters
<1>3. PICK p, e, time : p = k.cfg.cyctim[c] /\ e = k.next_time /\ time = Wrap(e + p)
  OBVIOUS
<1>4. time \in EVTTIM
  <2>1. p \in Int
    BY <1>3, SoundShape, PeriodFacts
  <2>2. e \in EVTTIM
    BY <1>3, SoundMade DEF Heaped
  <2>3. e \in Int
    BY <2>2, Times
  <2>4. e + p \in Int
    BY <2>1, <2>3
  <2> QED BY <1>3, <2>4, Times
<1>5. m = tmevtb_enqueue_cyc([s EXCEPT !.cycsta[c] = TRUE], c, time)
  BY <1>1, <1>3 DEF sta_cyc, base_time
<1>6. Alters(m, s, c) /\ SetTo(m, c, time) /\ OnTime(m, c)
  BY <1>2, <1>4, <1>5, StartedAlters
<1>7. Alters(m, k, c)
  BY <1>2, <1>6, AltersTwice
<1> QED BY <1>3, <1>6, <1>7

LEMMA TimeoutTimeless ==
  ASSUME NEW k, Made(k), NEW t, NEW m, m = wait_tmout(k, t) \/ m = wait_tmout_ok(k, t)
  PROVE  Timeless(m, k)
<1>1. PICK out : out = IF "WAIT_WOBJ" \in k.tcb[t].tstat THEN LeaveQueues(k, t) ELSE k
  OBVIOUS
<1>2. Timeless(out, k) /\ Timeless(k, k)
  BY <1>1, LeaveTimeless, TimelessSelf
<1>3. PICK a, b : /\ a = make_non_wait([out EXCEPT !.tcb[t].winfo = "E_TMOUT"], t)
                  /\ b = make_non_wait([k EXCEPT !.tcb[t].winfo = Zero], t)
  OBVIOUS
<1>4. Timeless(a, out)
  BY <1>2, <1>3, EndTimeless DEF Timeless
<1>5. Timeless(b, k)
  BY <1>3, EndTimeless
<1>6. Timeless(a, k)
  BY <1>2, <1>4, TimelessTimeless
<1>7. m = Requested(a) \/ m = Requested(b)
  BY <1>1, <1>3 DEF wait_tmout, wait_tmout_ok
<1>8. CASE m = Requested(a)
  <2>1. Timeless(m, a)
    BY <1>6, <1>8, RequestedTimeless DEF Timeless
  <2> QED BY <1>6, <2>1, TimelessTimeless
<1>9. CASE m = Requested(b)
  <2>1. Timeless(m, b)
    BY <1>5, <1>9, RequestedTimeless DEF Timeless
  <2> QED BY <1>5, <2>1, TimelessTimeless
<1> QED BY <1>7, <1>8, <1>9

LEMMA DeliversAlters ==
  ASSUME NEW k, Sound(k), EventDue(k), NEW m, m = DeliverEvent(k), NEW o, o = k.heap[1].owner
  PROVE  /\ o \in EventOwner /\ Alters(m, k, o)
         /\ o \in Task => Nodes(m, o) = {}
         /\ o \in Cyclic =>
              OnTime(m, o) /\ SetTo(m, o, Wrap(k.evttim[o] + k.cfg.cyctim[o]))
<1>1. PICK R, C, S : Fits(k, R, C, S)
  BY DEF Sound
<1>2. Heaped(k) /\ Made(k) /\ Shape(k)
  BY SoundMade, SoundShape
<1>3. PICK node : node = k.heap[1]
  OBVIOUS
<1>4. node \in Node /\ node \in Nodes(k, o)
  BY <1>2, <1>3, RootEvent
<1>5. o \in EventOwner /\ (o \in Task \/ o \in Cyclic) /\ Nodes(k, o) # {}
  BY <1>3, <1>4 DEF Node, EventOwner
<1>6. PICK rest : rest = tmevtb_delete(k, o)
  OBVIOUS
<1>7. m = CASE node.callback = "wait_tmout"    -> wait_tmout(rest, o)
            [] node.callback = "wait_tmout_ok" -> wait_tmout_ok(rest, o)
            [] node.callback = "call_cychdr"   -> call_cychdr(rest, o)
  BY <1>3, <1>6 DEF DeliverEvent, tmevtb_delete_top
<1>8. Frees(rest, k, o) /\ Nodes(rest, o) = {} /\ Heaped(rest)
  BY <1>2, <1>5, <1>6, DeleteFrees
<1>9. Alters(rest, k, o) /\ Made(rest) /\ rest.evttim = k.evttim
  BY <1>8, TouchesAlters, TouchesMade DEF Frees
<1>10. CASE o \in Task
  <2>1. TaskFits(k, o, R, C, S)
    BY <1>1, <1>10 DEF Fits
  <2>2. node.callback \in {"wait_tmout", "wait_tmout_ok"}
    BY <1>4, <2>1 DEF TaskFits, Watched
  <2>3. m = wait_tmout(rest, o) \/ m = wait_tmout_ok(rest, o)
    BY <1>7, <2>2
  <2>4. Timeless(m, rest)
    BY <1>9, <2>3, TimeoutTimeless
  <2>5. Alters(m, k, o) /\ Nodes(m, o) = {}
    BY <1>8, <1>9, <2>4, AltersAfter
  <2> QED BY <1>5, <1>10, <2>5, Owners
<1>11. CASE o \in Cyclic
  <2>1. CyclicFits(k, o)
    BY <1>1, <1>11 DEF Fits
  <2>2. node.callback = "call_cychdr"
    BY <1>4, <2>1 DEF CyclicFits, Handled
  <2>3. m = call_cychdr(rest, o)
    BY <1>7, <2>2
  <2>4. rest.cfg = k.cfg
    BY <1>9 DEF Alters
  <2>5. PICK p, e, evttim, time : /\ p = k.cfg.cyctim[o] /\ evttim = rest.evttim /\ e = evttim[o]
                                  /\ time = Wrap(e + p)
    OBVIOUS
  <2>6. evttim \in [Cyclic -> EVTTIM]
    BY <1>1, <1>9, <2>5 DEF Fits, Base, Events
  <2>7. time \in EVTTIM
    <3>1. p \in Int
      BY <1>2, <1>11, <2>5, PeriodFacts
    <3>2. e \in EVTTIM
      BY <1>11, <2>5, <2>6
    <3>3. e \in Int
      BY <3>2, Times
    <3>4. e + p \in Int
      BY <3>1, <3>3
    <3> QED BY <2>5, <3>4, Times
  <2>8. m = tmevtb_enqueue_cyc(rest, o, time)
    BY <2>3, <2>4, <2>5 DEF call_cychdr
  <2>9. Alters(m, rest, o) /\ SetTo(m, o, time) /\ OnTime(m, o)
    BY <1>8, <1>9, <1>11, <2>5, <2>6, <2>7, <2>8, SetsCyc
  <2>10. Alters(m, k, o)
    BY <1>9, <2>9, AltersTwice
  <2>11. time = Wrap(k.evttim[o] + k.cfg.cyctim[o])
    BY <1>9, <2>5
  <2> QED BY <1>5, <1>11, <2>9, <2>10, <2>11, Owners
<1> QED BY <1>5, <1>10, <1>11

--------------------------------------------------------------------------------
(* The time that is left. *)

LEMMA DoubleWord == 2 * 2 ^ (EVTTIM_BITS - 1) <= 2 ^ EVTTIM_BITS
<1>1. PICK n \in Nat : n = EVTTIM_BITS - 1 /\ EVTTIM_BITS = n + 1
  BY TickFitsWord
<1>2. PICK X, Y, e : X = 1 .. n /\ Y = 1 .. n + 1 /\ e = n + 1
  OBVIOUS
<1>3. X \subseteq Y /\ e \in Y /\ e \notin X
  BY <1>2
<1>4. PICK A, B, D : A = SUBSET X /\ B = SUBSET Y /\ D = {S \cup {e} : S \in A}
  OBVIOUS
<1>5. /\ IsFiniteSet(A) /\ Cardinality(A) = 2 ^ n
      /\ IsFiniteSet(B) /\ Cardinality(B) = 2 ^ (n + 1)
  <2>1. IsFiniteSet(1 .. n) /\ Cardinality(1 .. n) = n
    BY FS_Interval
  <2>2. IsFiniteSet(1 .. n + 1) /\ Cardinality(1 .. n + 1) = n + 1
    <3>1. n + 1 \in Nat
      OBVIOUS
    <3> QED BY <3>1, FS_Interval
  <2> QED BY <1>2, <1>4, <2>1, <2>2, FS_SUBSET
<1>6. ASSUME NEW S \in A, NEW T \in A, S \cup {e} = T \cup {e} PROVE S = T
  <2>1. e \notin S /\ e \notin T
    BY <1>3, <1>4, <1>6
  <2> QED BY <1>6, <2>1
<1>7. IsFiniteSet(D) /\ Cardinality(D) = Cardinality(A)
  <2>1. PICK f : f = [S \in A |-> S \cup {e}]
    OBVIOUS
  <2>2. f \in Bijection(A, D)
    <3>1. f \in [A -> D] /\ \A S \in A : f[S] = S \cup {e}
      BY <1>4, <2>1
    <3>2. f \in Injection(A, D)
      BY <1>6, <3>1 DEF Injection, IsInjective
    <3>3. f \in Surjection(A, D)
      BY <1>4, <3>1 DEF Surjection
    <3> QED BY <3>2, <3>3 DEF Bijection
  <2>3. ExistsBijection(A, D)
    BY <2>2 DEF ExistsBijection
  <2> QED BY <1>5, <2>3, FS_Bijection
<1>8. A \cap D = {} /\ A \cup D \subseteq B
  BY <1>3, <1>4
<1>9. Cardinality(A \cup D) = Cardinality(A) + Cardinality(D) - Cardinality(A \cap D)
  BY <1>5, <1>7, FS_Union
<1>10. Cardinality(A \cap D) = 0
  BY <1>8, FS_EmptySet
<1>11. Cardinality(A \cup D) <= Cardinality(B)
  BY <1>5, <1>8, FS_Subset
<1>12. Cardinality(A) \in Nat /\ Cardinality(B) \in Nat
  BY <1>5, FS_CardinalityType
<1>13. 2 * Cardinality(A) <= Cardinality(B)
  BY <1>7, <1>9, <1>10, <1>11, <1>12
<1> QED BY <1>1, <1>5, <1>13

\* A time is as far ahead of another as the clock was told.
LEMMA Further ==
  ASSUME NEW c \in EVTTIM, NEW x \in EVTTIM, NEW d \in 0 .. TMAX_RELTIM, Wrap(x - c) <= TIC_NUME,
         NEW y, y = Wrap(x + d)
  PROVE  Wrap(y - c) = Wrap(x - c) + d
<1>1. PICK M, H, t : M = 2 ^ EVTTIM_BITS /\ H = 2 ^ (EVTTIM_BITS - 1) /\ t = TIC_NUME
  OBVIOUS
<1>2. /\ M \in Nat \ {0} /\ H \in Nat /\ 2 * H <= M /\ c \in Nat /\ c < M
      /\ x \in Nat /\ x < M /\ t \in Nat /\ t <= H /\ d \in Nat /\ d < H
  <2>1. M \in Nat \ {0} /\ H \in Nat /\ t \in Nat
    BY <1>1, WordSize, Times
  <2>2. c \in 0 .. M - 1 /\ x \in 0 .. M - 1
    BY <1>1 DEF EVTTIM
  <2>3. t <= H /\ 2 * H <= M
    BY <1>1, <2>1, TickFitsWord, DoubleWord
  <2>4. d \in 0 .. H - 1
    BY <1>1 DEF TMAX_RELTIM
  <2> QED BY <2>1, <2>2, <2>3, <2>4
<1>3. \A n \in Int : Wrap(n) = n % M
  BY <1>1 DEF Wrap
<1>4. ASSUME NEW z \in Int, 0 - M <= z, z < 2 * M
      PROVE  Wrap(z) = IF z < 0 THEN z + M ELSE IF z < M THEN z ELSE z - M
  BY <1>2, <1>3, <1>4, ShortMod
<1>5. y \in Nat /\ y < M /\ (y = x + d \/ y = x + d - M)
  <2>1. PICK z : z = x + d
    OBVIOUS
  <2>2. z \in Int /\ 0 - M <= z /\ z < 2 * M /\ z >= 0
    BY <1>2, <2>1
  <2>3. y = Wrap(z)
    BY <2>1
  <2>4. y = IF z < M THEN z ELSE z - M
    BY <1>2, <1>4, <2>2, <2>3
  <2> QED BY <1>2, <2>1, <2>2, <2>4
<1>6. PICK u, v : u = x - c /\ v = y - c
  OBVIOUS
<1>7. u \in Int /\ 0 - M <= u /\ u < M /\ v \in Int /\ 0 - M <= v /\ v < M
  BY <1>2, <1>5, <1>6
<1>8. Wrap(u) = (IF u < 0 THEN u + M ELSE u) /\ Wrap(v) = (IF v < 0 THEN v + M ELSE v)
  BY <1>2, <1>4, <1>7
<1>9. Wrap(u) <= t
  BY <1>1, <1>6
<1>10. Wrap(v) = Wrap(u) + d
  BY <1>2, <1>5, <1>6, <1>7, <1>8, <1>9
<1> QED BY <1>6, <1>10

\* The timers that run and the time that is left of each, as the nodes say it.
LeftOf(k) ==
  [o \in {k.heap[i].owner : i \in DOMAIN k.heap} |->
     Ahead(k, k.heap[CHOOSE i \in DOMAIN k.heap : k.heap[i].owner = o].time)]

Tells(left, k) ==
  /\ left = [o \in DOMAIN left |-> left[o]] /\ DOMAIN left \subseteq EventOwner
  /\ \A o \in EventOwner : o \in DOMAIN left <=> Nodes(k, o) # {}
  /\ \A o \in EventOwner : \A node \in Nodes(k, o) : left[o] = Ahead(k, node.time)

LEMMA OneNode ==
  ASSUME NEW k, Heaped(k), NEW o, NEW a \in Nodes(k, o), NEW b \in Nodes(k, o)
  PROVE  a = b
<1>1. PICK i \in 1 .. Len(k.heap) : a = k.heap[i]
  BY DEF Nodes, Elements
<1>2. PICK j \in 1 .. Len(k.heap) : b = k.heap[j]
  BY DEF Nodes, Elements
<1>3. k.index[o] = i /\ k.index[o] = j
  BY <1>1, <1>2 DEF Heaped, Indexed, Nodes
<1> QED BY <1>1, <1>2, <1>3

LEMMA LeftTells ==
  ASSUME NEW k, Heaped(k), NEW left, left = LeftOf(k)
  PROVE  Tells(left, k)
<1>1. PICK h : h = k.heap
  OBVIOUS
<1>2. h \in Seq(Node) /\ DOMAIN h = 1 .. Len(h)
  BY <1>1 DEF Heaped
<1>3. DOMAIN left = {h[i].owner : i \in DOMAIN h}
  BY <1>1 DEF LeftOf
<1>4. DOMAIN left \subseteq EventOwner
  <2>1. \A i \in 1 .. Len(h) : h[i] \in Node
    BY <1>2
  <2>2. \A i \in 1 .. Len(h) : h[i].owner \in EventOwner
    BY <2>1 DEF Node
  <2> QED BY <1>2, <1>3, <2>2
<1>5. ASSUME NEW o \in EventOwner PROVE o \in DOMAIN left <=> Nodes(k, o) # {}
  BY <1>1, <1>2, <1>3 DEF Nodes, Elements
<1>6. ASSUME NEW o \in EventOwner, NEW node \in Nodes(k, o) PROVE left[o] = Ahead(k, node.time)
  <2>1. PICK i : i = CHOOSE j \in DOMAIN h : h[j].owner = o
    OBVIOUS
  <2>2. \E j \in DOMAIN h : h[j].owner = o
    BY <1>1, <1>2, <1>6 DEF Nodes, Elements
  <2>3. i \in DOMAIN h /\ h[i].owner = o
    BY <2>1, <2>2
  <2>4. h[i] \in Nodes(k, o)
    BY <1>1, <1>2, <2>3 DEF Nodes, Elements
  <2>5. h[i] = node
    BY <1>6, <2>4, OneNode
  <2>6. o \in DOMAIN left
    BY <1>3, <2>3
  <2>7. left[o] = Ahead(k, h[i].time)
    BY <1>1, <1>3, <2>1, <2>6 DEF LeftOf
  <2> QED BY <2>5, <2>7
<1>7. left = [o \in DOMAIN left |-> left[o]]
  BY DEF LeftOf
<1> QED BY <1>4, <1>5, <1>6, <1>7 DEF Tells

LEMMA EqualMaps ==
  ASSUME NEW f, NEW g, f = [x \in DOMAIN f |-> f[x]], g = [x \in DOMAIN g |-> g[x]],
         DOMAIN f = DOMAIN g, \A x \in DOMAIN f : f[x] = g[x]
  PROVE  f = g
OBVIOUS

\* What the others' nodes say has not changed.
LEMMA OthersTell ==
  ASSUME NEW k, NEW m, NEW o, Alters(m, k, o), NEW f, Tells(f, k), NEW g, Tells(g, m)
  PROVE  /\ \A u \in EventOwner \ {o} : u \in DOMAIN g <=> u \in DOMAIN f
         /\ \A u \in DOMAIN g \ {o} : g[u] = f[u]
<1>1. ASSUME NEW u \in EventOwner \ {o} PROVE u \in DOMAIN g <=> u \in DOMAIN f
  BY DEF Alters, Tells
<1>2. ASSUME NEW u \in DOMAIN g \ {o} PROVE g[u] = f[u]
  <2>1. u \in EventOwner \ {o}
    BY DEF Tells
  <2>2. PICK node : node \in Nodes(m, u)
    BY <2>1 DEF Tells
  <2>3. node \in Nodes(k, u)
    BY <2>1, <2>2 DEF Alters
  <2>4. g[u] = Ahead(m, node.time) /\ f[u] = Ahead(k, node.time)
    BY <2>1, <2>2, <2>3 DEF Tells
  <2> QED BY <2>4 DEF Ahead, Alters
<1> QED BY <1>1, <1>2

LEMMA TellsSame ==
  ASSUME NEW k, NEW m, NEW o, Alters(m, k, o), Nodes(m, o) = Nodes(k, o),
         NEW f, Tells(f, k), NEW g, Tells(g, m)
  PROVE  g = f
<1>1. /\ \A u \in EventOwner \ {o} : u \in DOMAIN g <=> u \in DOMAIN f
      /\ \A u \in DOMAIN g \ {o} : g[u] = f[u]
  BY OthersTell
<1>2. o \in EventOwner => (o \in DOMAIN g <=> o \in DOMAIN f)
  BY DEF Tells
<1>3. DOMAIN g = DOMAIN f
  BY <1>1, <1>2 DEF Tells
<1>4. ASSUME o \in DOMAIN g PROVE g[o] = f[o]
  <2>1. o \in EventOwner
    BY <1>4 DEF Tells
  <2>2. PICK node : node \in Nodes(m, o)
    BY <1>4, <2>1 DEF Tells
  <2>3. g[o] = Ahead(m, node.time) /\ f[o] = Ahead(k, node.time)
    BY <2>1, <2>2 DEF Tells
  <2> QED BY <2>3 DEF Ahead, Alters
<1> QED BY <1>1, <1>3, <1>4, EqualMaps DEF Tells

LEMMA TellsStopped ==
  ASSUME NEW k, NEW m, NEW o \in EventOwner, Alters(m, k, o), Nodes(m, o) = {}, Nodes(k, o) # {},
         NEW f, Tells(f, k), NEW g, Tells(g, m)
  PROVE  o \in DOMAIN f /\ g = Restrict(f, DOMAIN f \ {o})
<1>1. /\ \A u \in EventOwner \ {o} : u \in DOMAIN g <=> u \in DOMAIN f
      /\ \A u \in DOMAIN g \ {o} : g[u] = f[u]
  BY OthersTell
<1>2. o \notin DOMAIN g /\ o \in DOMAIN f
  BY DEF Tells
<1>3. DOMAIN g = DOMAIN f \ {o}
  BY <1>1, <1>2 DEF Tells
<1>4. PICK r : r = Restrict(f, DOMAIN f \ {o})
  OBVIOUS
<1>5. DOMAIN r = DOMAIN f \ {o} /\ r = [u \in DOMAIN r |-> r[u]]
      /\ \A u \in DOMAIN r : r[u] = f[u]
  BY <1>4 DEF Restrict
<1>6. g = r
  BY <1>1, <1>3, <1>5, EqualMaps DEF Tells
<1> QED BY <1>2, <1>4, <1>6

LEMMA SetTells ==
  ASSUME NEW k, NEW m, NEW o \in EventOwner, Alters(m, k, o), NEW time, SetTo(m, o, time),
         NEW g, Tells(g, m)
  PROVE  o \in DOMAIN g /\ g[o] = Ahead(k, time)
<1>1. PICK node : Nodes(m, o) = {node} /\ node.time = time
  BY DEF SetTo
<1>2. o \in DOMAIN g /\ g[o] = Ahead(m, time)
  BY <1>1 DEF Tells
<1> QED BY <1>2 DEF Ahead, Alters

Put(f, o, n) == [u \in DOMAIN f \cup {o} |-> IF u = o THEN n ELSE f[u]]

LEMMA TellsSet ==
  ASSUME NEW k, NEW m, NEW o \in EventOwner, Alters(m, k, o), NEW time, SetTo(m, o, time),
         NEW f, Tells(f, k), NEW g, Tells(g, m), NEW n, n = g[o]
  PROVE  g = Put(f, o, n)
<1>1. /\ \A u \in EventOwner \ {o} : u \in DOMAIN g <=> u \in DOMAIN f
      /\ \A u \in DOMAIN g \ {o} : g[u] = f[u]
  BY OthersTell
<1>2. o \in DOMAIN g
  BY SetTells
<1>3. DOMAIN g = DOMAIN f \cup {o}
  BY <1>1, <1>2 DEF Tells
<1>4. PICK r : r = Put(f, o, n)
  OBVIOUS
<1>5. DOMAIN r = DOMAIN g /\ r = [u \in DOMAIN r |-> r[u]] /\ \A u \in DOMAIN r : g[u] = r[u]
  BY <1>1, <1>3, <1>4 DEF Put
<1>6. g = r
  BY <1>5, EqualMaps DEF Tells
<1> QED BY <1>4, <1>6

--------------------------------------------------------------------------------
(* The steps of the timers. *)

LEMMA TimeLeftTells ==
  /\ Core(kernel) => Tells(TimeLeft, kernel)
  /\ Core(kernel') => Tells(TimeLeft', kernel')
<1>1. TimeLeft = LeftOf(kernel) /\ TimeLeft' = LeftOf(kernel')
  BY DEF TimeLeft, LeftOf
<1>2. \A k : Core(k) => Heaped(k)
  BY SoundMade DEF Core
<1> QED BY <1>1, <1>2, LeftTells

PeriodsNow == [t \in EventOwner |-> PeriodOf(t)]

LEMMA PeriodsKept ==
  ASSUME kernel'.cfg = kernel.cfg
  PROVE  PeriodsNow' = PeriodsNow
BY DEF PeriodsNow, PeriodOf

LEMMA Stutters ==
  ASSUME Core(kernel), Core(kernel'), NEW o, Alters(kernel', kernel, o),
         Nodes(kernel', o) = Nodes(kernel, o)
  PROVE  UNCHANGED Timers!vars
<1>1. TimeLeft' = TimeLeft
  BY TimeLeftTells, TellsSame
<1>2. PeriodsNow' = PeriodsNow /\ kernel'.ticking = kernel.ticking
  BY PeriodsKept DEF Alters
<1> QED BY <1>1, <1>2 DEF Timers!vars, PeriodsNow

LEMMA StopsTimer ==
  ASSUME Core(kernel), Core(kernel'), NEW o \in EventOwner, Alters(kernel', kernel, o),
         Nodes(kernel', o) = {}, Nodes(kernel, o) # {}
  PROVE  Timers!Next
<1>1. o \in DOMAIN TimeLeft /\ TimeLeft' = Restrict(TimeLeft, DOMAIN TimeLeft \ {o})
  BY TimeLeftTells, TellsStopped
<1>2. PeriodsNow' = PeriodsNow /\ kernel'.ticking = kernel.ticking
  BY PeriodsKept DEF Alters
<1>3. Timers!Stop(o)
  BY <1>1, <1>2 DEF Timers!Stop, Timers!Without, Timers!Restrict, Restrict, PeriodsNow
<1> QED BY <1>1, <1>3 DEF Timers!Next

LEMMA MayStop ==
  ASSUME Core(kernel), Core(kernel'), NEW o \in EventOwner, Alters(kernel', kernel, o),
         Nodes(kernel', o) \subseteq Nodes(kernel, o)
  PROVE  [Timers!Next]_Timers!vars
<1>1. CASE Nodes(kernel', o) = Nodes(kernel, o)
  BY <1>1, Stutters
<1>2. CASE Nodes(kernel', o) # Nodes(kernel, o)
  <2>1. PICK node \in Nodes(kernel, o) : node \notin Nodes(kernel', o)
    BY <1>2
  <2>2. Heaped(kernel)
    BY SoundMade DEF Core
  <2>3. \A other \in Nodes(kernel, o) : other = node
    BY <2>1, <2>2, OneNode
  <2>4. Nodes(kernel', o) = {} /\ Nodes(kernel, o) # {}
    BY <2>1, <2>3
  <2> QED BY <2>4, StopsTimer
<1> QED BY <1>1, <1>2

\* The times from which the clock counts.
LEMMA ClockFacts ==
  ASSUME NEW k, Core(k)
  PROVE  /\ k.current_time \in EVTTIM /\ k.next_time \in EVTTIM /\ Heaped(k) /\ Shape(k) /\ Made(k)
         /\ Ahead(k, k.next_time) = TIC_NUME /\ k.next_time = Wrap(k.current_time + TIC_NUME)
         /\ k.evttim \in [Cyclic -> EVTTIM]
<1>1. PICK R, C, S : Fits(k, R, C, S)
  BY DEF Core, Sound
<1>2. Events(k) /\ Shape(k)
  BY <1>1 DEF Fits, Base
<1>3. /\ k.current_time \in EVTTIM /\ k.next_time \in EVTTIM /\ Heaped(k)
      /\ k.next_time = Wrap(k.current_time + TIC_NUME) /\ k.evttim \in [Cyclic -> EVTTIM]
  BY <1>2 DEF Events, Heaped
<1>4. Wrap(k.next_time - k.current_time) = TIC_NUME
  BY <1>3, TickShift
<1> QED BY <1>2, <1>3, <1>4, SoundMade DEF Ahead, Core

LEMMA LaterBy ==
  ASSUME NEW k, Core(k), NEW x \in EVTTIM, NEW d \in 0 .. TMAX_RELTIM, Ahead(k, x) <= TIC_NUME
  PROVE  Ahead(k, Wrap(x + d)) = Ahead(k, x) + d
<1>1. k.current_time \in EVTTIM
  BY ClockFacts
<1> QED BY <1>1, Further DEF Ahead

LEMMA StartsTimer ==
  ASSUME Core(kernel), Core(kernel'), ~kernel.ticking, NEW o \in EventOwner,
         Alters(kernel', kernel, o), NEW d \in 0 .. TMAX_RELTIM,
         SetTo(kernel', o, Wrap(kernel.next_time + d))
  PROVE  Timers!Next
<1>1. PICK left, left2 : left = TimeLeft /\ left2 = TimeLeft'
  OBVIOUS
<1>2. PICK time : time = Wrap(kernel.next_time + d)
  OBVIOUS
<1>3. /\ o \in DOMAIN left2 /\ left2[o] = Ahead(kernel, time)
      /\ left2 = Put(left, o, left2[o])
  <2>1. PICK m : m = kernel'
    OBVIOUS
  <2>2. Tells(left, kernel) /\ Tells(left2, m)
    BY <1>1, <2>1, TimeLeftTells
  <2>3. SetTo(m, o, time) /\ Alters(m, kernel, o)
    BY <1>2, <2>1
  <2>4. o \in DOMAIN left2 /\ left2[o] = Ahead(kernel, time)
    BY <2>2, <2>3, SetTells
  <2>5. left2 = Put(left, o, left2[o])
    <3>1. PICK n : n = left2[o]
      OBVIOUS
    <3> QED BY <2>2, <2>3, <3>1, TellsSet
  <2> QED BY <2>4, <2>5
<1>4. Ahead(kernel, kernel.next_time) = TIC_NUME /\ kernel.next_time \in EVTTIM /\ TIC_NUME \in Nat
  BY ClockFacts, Times
<1>5. Ahead(kernel, time) = TIC_NUME + d
  BY <1>2, <1>4, LaterBy
<1>6. left2[o] - TIC_NUME \in 0 .. TMAX_RELTIM
  BY <1>3, <1>4, <1>5
<1>7. PeriodsNow' = PeriodsNow /\ kernel'.ticking = kernel.ticking
  BY PeriodsKept DEF Alters
<1>8. Timers!Start(o)
  BY <1>1, <1>3, <1>6, <1>7 DEF Timers!Start, Timers!With, Put, PeriodsNow
<1> QED BY <1>1, <1>3, <1>8 DEF Timers!Next

LEMMA PacesTimers ==
  ASSUME Core(kernel), Core(kernel'), Paces(kernel', kernel)
  PROVE  [Timers!Next]_Timers!vars /\ (Punctual(kernel) => Punctual(kernel'))
<1>1. PICK t \in Task : Frees(kernel', kernel, t) \/ (~kernel.ticking /\ Arms(kernel', kernel, t))
  BY DEF Paces, Disarms, Retimes
<1>2. t \in EventOwner /\ t \notin Cyclic
  BY Owners
<1>3. Alters(kernel', kernel, t)
  BY <1>1, TouchesAlters DEF Frees, Arms
<1>4. Punctual(kernel) => Punctual(kernel')
  BY <1>2, <1>3, AltersPunctual
<1>5. CASE Nodes(kernel', t) \subseteq Nodes(kernel, t)
  BY <1>2, <1>3, <1>4, <1>5, MayStop
<1>6. CASE ~(Nodes(kernel', t) \subseteq Nodes(kernel, t))
  <2>1. ~kernel.ticking /\ Arms(kernel', kernel, t)
    BY <1>1, <1>6 DEF Frees
  <2>2. PICK d \in 0 .. TMAX_RELTIM : DueAfter(Nodes(kernel', t), kernel, d)
    BY <1>6, <2>1 DEF Arms
  <2>3. SetTo(kernel', t, Wrap(kernel.next_time + d))
    BY <2>2 DEF DueAfter, SetTo
  <2> QED BY <1>2, <1>3, <1>4, <2>1, <2>3, StartsTimer
<1> QED BY <1>5, <1>6

LEMMA PeriodOfCyclic ==
  ASSUME NEW o \in EventOwner
  PROVE  PeriodsNow[o] = IF o \in Cyclic THEN kernel.cfg.cyctim[o] ELSE 0
BY DEF PeriodsNow, PeriodOf

LEMMA DeliversTimers ==
  ASSUME Core(kernel), Core(kernel'), Punctual(kernel), TickDelivers
  PROVE  Timers!Next /\ Punctual(kernel')
<1>1. kernel.ticking /\ EventDue(kernel) /\ Sound(kernel)
  BY DEF TickDelivers, Core
<1>2. PICK o : o = kernel.heap[1].owner
  OBVIOUS
<1>3. PICK m : m = kernel'
  OBVIOUS
<1>4. m = DeliverEvent(kernel)
  BY <1>3 DEF TickDelivers
<1>5. /\ o \in EventOwner /\ Alters(m, kernel, o)
      /\ o \in Task => Nodes(m, o) = {}
      /\ o \in Cyclic =>
           OnTime(m, o) /\ SetTo(m, o, Wrap(kernel.evttim[o] + kernel.cfg.cyctim[o]))
  BY <1>1, <1>2, <1>4, DeliversAlters
<1>6. PICK left, left2 : left = TimeLeft /\ left2 = TimeLeft'
  OBVIOUS
<1>7. Tells(left, kernel) /\ Tells(left2, m)
  BY <1>3, <1>6, TimeLeftTells
<1>8. PICK node : node = kernel.heap[1]
  OBVIOUS
<1>9. Heaped(kernel) /\ Ahead(kernel, kernel.next_time) = TIC_NUME /\ Shape(kernel)
  BY ClockFacts
<1>10. node \in Node /\ node \in Nodes(kernel, o) /\ node.time \in EVTTIM
  <2>1. node \in Node /\ node \in Nodes(kernel, o)
    BY <1>1, <1>2, <1>8, <1>9, RootEvent
  <2> QED BY <2>1 DEF Node
<1>11. left[o] = Ahead(kernel, node.time) /\ left[o] <= TIC_NUME /\ o \in DOMAIN left
  <2>1. left[o] = Ahead(kernel, node.time) /\ o \in DOMAIN left
    BY <1>5, <1>7, <1>10 DEF Tells
  <2>2. Ahead(kernel, node.time) <= Ahead(kernel, kernel.next_time)
    BY <1>1, <1>8 DEF EventDue, EVTTIM_LE
  <2> QED BY <1>9, <2>1, <2>2
<1>12. PeriodsNow' = PeriodsNow /\ kernel'.ticking = kernel.ticking
  BY <1>3, <1>5, PeriodsKept DEF Alters
<1>13. PICK p : p = PeriodsNow[o]
  OBVIOUS
<1>14. p = IF o \in Cyclic THEN kernel.cfg.cyctim[o] ELSE 0
  BY <1>5, <1>13, PeriodOfCyclic
<1>15. CASE o \in Task
  <2>1. p = 0 /\ Nodes(m, o) = {}
    BY <1>5, <1>14, <1>15, Owners
  <2>2. left2 = Restrict(left, DOMAIN left \ {o})
    BY <1>5, <1>7, <1>10, <2>1, TellsStopped
  <2>3. Timers!GoOff(o)
    BY <1>1, <1>6, <1>11, <1>12, <1>13, <2>1, <2>2 DEF Timers!GoOff, Timers!Without,
      Timers!Restrict, Restrict, PeriodsNow
  <2>4. Punctual(m)
    BY <1>5, <1>15, Owners, AltersPunctual
  <2> QED BY <1>3, <1>6, <1>11, <2>3, <2>4 DEF Timers!Next
<1>16. CASE o \in Cyclic
  <2>1. p = kernel.cfg.cyctim[o]
    BY <1>14, <1>16
  <2>2. p \in 1 .. TMAX_RELTIM /\ p \in Int
    BY <1>9, <1>16, <2>1, PeriodFacts
  <2>3. p \in 0 .. TMAX_RELTIM /\ p # 0
    <3>1. TMAX_RELTIM \in Int
      BY WordSize DEF TMAX_RELTIM
    <3> QED BY <2>2, <3>1
  <2>4. kernel.evttim[o] = node.time
    BY <1>10, <1>16 DEF Punctual, OnTime
  <2>5. PICK time : time = Wrap(node.time + p)
    OBVIOUS
  <2>6. SetTo(m, o, time) /\ OnTime(m, o)
    BY <1>5, <1>16, <2>1, <2>4, <2>5
  <2>7. left2[o] = Ahead(kernel, time)
    BY <1>5, <1>7, <2>6, SetTells
  <2>8. Ahead(kernel, time) = left[o] + p
    BY <1>10, <1>11, <2>3, <2>5, LaterBy
  <2>9. left2 = Put(left, o, left[o] + p)
    <3>1. PICK n : n = left2[o]
      OBVIOUS
    <3>2. left2 = Put(left, o, n)
      BY <1>5, <1>7, <2>6, <3>1, TellsSet
    <3> QED BY <2>7, <2>8, <3>1, <3>2
  <2>10. Timers!GoOff(o)
    BY <1>1, <1>6, <1>11, <1>12, <1>13, <2>3, <2>9 DEF Timers!GoOff, Timers!With, Put, PeriodsNow
  <2>11. Punctual(m)
    BY <1>5, <2>6, AltersPunctual
  <2> QED BY <1>3, <1>6, <1>11, <2>10, <2>11 DEF Timers!Next
<1> QED BY <1>5, <1>15, <1>16 DEF EventOwner

LEMMA HandlersCyclic ==
  ASSUME Core(kernel)
  PROVE  kernel.cfg.handlers \subseteq Cyclic
BY Timeouts

LEMMA StartsCyclicTimer ==
  ASSUME Core(kernel), Core(kernel'), Punctual(kernel), StaCyc
  PROVE  [Timers!Next]_Timers!vars /\ Punctual(kernel')
<1>1. PICK c \in kernel.cfg.handlers : InTask("sta_cyc") /\ Returns(sta_cyc(kernel, c))
  BY DEF StaCyc
<1>2. c \in Cyclic /\ c \in EventOwner /\ Sound(kernel) /\ ~kernel.ticking
  BY <1>1, HandlersCyclic, Owners DEF Core, Control, InTask, TaskContext
<1>3. PICK m, n : m = kernel' /\ n = sta_cyc(kernel, c)
  OBVIOUS
<1>4. m = Dispatched(n)
  BY <1>1, <1>3 DEF Returns
<1>5. PICK p : p = kernel.cfg.cyctim[c]
  OBVIOUS
<1>6. Alters(n, kernel, c) /\ OnTime(n, c) /\ SetTo(n, c, Wrap(kernel.next_time + p))
  BY <1>2, <1>3, <1>5, StaCycAlters
<1>7. Timeless(m, n)
  BY <1>4, <1>6, DispatchedTimeless DEF Alters
<1>8. Alters(m, kernel, c) /\ Nodes(m, c) = Nodes(n, c) /\ m.evttim = n.evttim
  BY <1>6, <1>7, AltersAfter
<1>9. OnTime(m, c) /\ SetTo(m, c, Wrap(kernel.next_time + p))
  BY <1>6, <1>8 DEF OnTime, SetTo
<1>10. p \in 0 .. TMAX_RELTIM
  <2>1. p \in 1 .. TMAX_RELTIM
    BY <1>2, <1>5, ClockFacts, PeriodFacts
  <2>2. TMAX_RELTIM \in Int
    BY WordSize DEF TMAX_RELTIM
  <2> QED BY <2>1, <2>2
<1>11. Timers!Next
  BY <1>2, <1>3, <1>8, <1>9, <1>10, StartsTimer
<1>12. Punctual(m)
  BY <1>8, <1>9, AltersPunctual
<1> QED BY <1>3, <1>11, <1>12

LEMMA StopsCyclicTimer ==
  ASSUME Core(kernel), Core(kernel'), Punctual(kernel), StpCyc
  PROVE  [Timers!Next]_Timers!vars /\ Punctual(kernel')
<1>1. PICK c \in kernel.cfg.handlers : Returns(StopCyclic(kernel, c))
  BY DEF StpCyc
<1>2. c \in Cyclic /\ c \in EventOwner /\ Sound(kernel)
  BY <1>1, HandlersCyclic, Owners DEF Core
<1>3. PICK m, n : m = kernel' /\ n = StopCyclic(kernel, c)
  OBVIOUS
<1>4. m = Dispatched(n)
  BY <1>1, <1>3 DEF Returns
<1>5. Alters(n, kernel, c) /\ Nodes(n, c) = {}
  BY <1>2, <1>3, StopCycAlters
<1>6. Timeless(m, n)
  BY <1>4, <1>5, DispatchedTimeless DEF Alters
<1>7. Alters(m, kernel, c) /\ Nodes(m, c) = {}
  BY <1>5, <1>6, AltersAfter
<1>8. Punctual(m)
  <2>1. OnTime(m, c)
    BY <1>7 DEF OnTime
  <2> QED BY <1>7, <2>1, AltersPunctual
<1>9. [Timers!Next]_Timers!vars
  BY <1>2, <1>3, <1>7, MayStop
<1> QED BY <1>3, <1>8, <1>9

\* The interrupt of a device and the end of one do not bear on time.
LEMMA InterruptsPace ==
  ASSUME Core(kernel), Interrupt \/ InterruptReturns
  PROVE  Paces(kernel', kernel)
<1>1. PICK m : m = kernel'
  OBVIOUS
<1>2. Made(kernel)
  BY ClockFacts
<1>3. CASE Interrupt
  <2>1. m = [kernel EXCEPT !.interrupt = TRUE]
    BY <1>1, <1>3 DEF Interrupt
  <2>2. Timeless(m, kernel)
    BY <1>2, <2>1 DEF Made, Timeless, Same, Fields, Untimed
  <2> QED BY <1>1, <2>2, TimelessDisarms DEF Paces
<1>4. CASE InterruptReturns
  <2>1. PICK a : a = [kernel EXCEPT !.interrupt = FALSE]
    OBVIOUS
  <2>2. m = ret_int(a)
    BY <1>1, <1>4, <2>1 DEF InterruptReturns
  <2>3. Timeless(a, kernel)
    BY <1>2, <2>1 DEF Made, Timeless, Same, Fields, Untimed
  <2>4. Timeless(m, a)
    BY <2>2, <2>3, RetIntTimeless DEF Timeless
  <2>5. Timeless(m, kernel)
    BY <2>3, <2>4, TimelessTimeless
  <2> QED BY <1>1, <2>5, TimelessDisarms DEF Paces
<1> QED BY <1>3, <1>4

LEMMA BeginsTick ==
  ASSUME Core(kernel), Core(kernel'), Punctual(kernel), TimerInterrupt
  PROVE  Timers!Next /\ Punctual(kernel')
<1>1. PICK m : m = kernel'
  OBVIOUS
<1>2. ~kernel.interrupt /\ m = [kernel EXCEPT !.interrupt = TRUE, !.ticking = TRUE]
  BY <1>1 DEF TimerInterrupt
<1>3. ~kernel.ticking /\ Made(kernel)
  BY <1>2, ClockFacts DEF Core, Control
<1>4. /\ m.heap = kernel.heap /\ m.current_time = kernel.current_time /\ m.cfg = kernel.cfg
      /\ m.evttim = kernel.evttim /\ m.ticking = TRUE
  BY <1>2, <1>3 DEF Made, Fields
<1>5. TimeLeft' = TimeLeft
  BY <1>1, <1>4 DEF TimeLeft, Ahead
<1>6. PeriodsNow' = PeriodsNow
  BY <1>1, <1>4, PeriodsKept
<1>7. Timers!BeginTick
  BY <1>1, <1>3, <1>4, <1>5, <1>6 DEF Timers!BeginTick, PeriodsNow
<1>8. Punctual(m)
  BY <1>4 DEF Punctual, OnTime, Nodes
<1> QED BY <1>1, <1>7, <1>8 DEF Timers!Next

LEMMA EndsTick ==
  ASSUME Core(kernel), Core(kernel'), Punctual(kernel), TickEnds
  PROVE  Timers!Next /\ Punctual(kernel')
<1>1. PICK m, a : m = kernel' /\ a = NextTick(kernel)
  OBVIOUS
<1>2. kernel.ticking /\ ~EventDue(kernel) /\ m = [a EXCEPT !.ticking = FALSE]
  BY <1>1 DEF TickEnds
<1>3. Made(kernel) /\ Heaped(kernel) /\ kernel.next_time = Wrap(kernel.current_time + TIC_NUME)
      /\ Ahead(kernel, kernel.next_time) = TIC_NUME
  BY ClockFacts
<1>4. \A i \in 1 .. Len(kernel.heap) :
        Ahead(a, kernel.heap[i].time) = Ahead(kernel, kernel.heap[i].time) - TIC_NUME
  BY <1>1, <1>2, <1>3, MadeClock, TickHeaped
<1>5. /\ m.heap = kernel.heap /\ m.current_time = a.current_time /\ m.cfg = kernel.cfg
      /\ m.evttim = kernel.evttim /\ m.ticking = FALSE
  BY <1>1, <1>2, <1>3 DEF Made, Fields, NextTick
<1>6. PICK left, left2 : left = TimeLeft /\ left2 = TimeLeft'
  OBVIOUS
<1>7. Tells(left, kernel) /\ Tells(left2, m)
  BY <1>1, <1>6, TimeLeftTells
<1>8. \A o : Nodes(m, o) = Nodes(kernel, o)
  BY <1>5 DEF Nodes
<1>9. DOMAIN left2 = DOMAIN left
  BY <1>7, <1>8 DEF Tells
<1>10. ASSUME NEW o \in DOMAIN left PROVE left[o] > TIC_NUME /\ left2[o] = left[o] - TIC_NUME
  <2>1. o \in EventOwner
    BY <1>7 DEF Tells
  <2>2. PICK node : node \in Nodes(kernel, o)
    BY <1>7, <2>1 DEF Tells
  <2>3. left[o] = Ahead(kernel, node.time) /\ left2[o] = Ahead(m, node.time)
    BY <1>7, <1>8, <2>1, <2>2 DEF Tells
  <2>4. PICK i \in 1 .. Len(kernel.heap) : node = kernel.heap[i]
    BY <2>2 DEF Nodes, Elements
  <2>5. Ahead(m, node.time) = Ahead(a, node.time)
    BY <1>5 DEF Ahead
  <2>6. left2[o] = left[o] - TIC_NUME
    BY <1>4, <2>3, <2>4, <2>5
  <2>7. Ahead(kernel, kernel.heap[1].time) <= Ahead(kernel, node.time)
    BY <1>3, <2>4, RootFirst
  <2>8. ~(Ahead(kernel, kernel.heap[1].time) <= TIC_NUME)
    <3>1. kernel.heap # << >>
      BY <2>4
    <3> QED BY <1>2, <1>3, <3>1 DEF EventDue, EVTTIM_LE
  <2>9. /\ Ahead(kernel, kernel.heap[1].time) \in Nat /\ Ahead(kernel, node.time) \in Nat
        /\ TIC_NUME \in Nat
    <3>1. PICK h : h = kernel.heap
      OBVIOUS
    <3>2. h \in Seq(Node) /\ kernel.current_time \in EVTTIM
      BY <1>3, <3>1 DEF Heaped
    <3>3. 1 \in 1 .. Len(h) /\ i \in 1 .. Len(h)
      BY <2>4, <3>1, <3>2
    <3>4. h[1] \in Node /\ h[i] \in Node
      BY <3>2, <3>3
    <3>5. h[1].time \in EVTTIM /\ h[i].time \in EVTTIM
      BY <3>4 DEF Node
    <3> QED BY <2>4, <3>1, <3>2, <3>5, DueFacts, Times
  <2>10. left[o] > TIC_NUME
    BY <2>3, <2>7, <2>8, <2>9
  <2> QED BY <2>6, <2>10
<1>11. left2 = [o \in DOMAIN left |-> left[o] - TIC_NUME]
  <2>1. PICK r : r = [o \in DOMAIN left |-> left[o] - TIC_NUME]
    OBVIOUS
  <2>2. left2 = r
    BY <1>7, <1>9, <1>10, <2>1, EqualMaps DEF Tells
  <2> QED BY <2>1, <2>2
<1>12. PeriodsNow' = PeriodsNow
  BY <1>1, <1>5, PeriodsKept
<1>13. Timers!EndTick
  BY <1>1, <1>2, <1>5, <1>6, <1>10, <1>11, <1>12 DEF Timers!EndTick, PeriodsNow
<1>14. Punctual(m)
  BY <1>5, <1>8 DEF Punctual, OnTime
<1> QED BY <1>1, <1>13, <1>14 DEF Timers!Next

LEMMA TimersStep ==
  ASSUME Core(kernel), Punctual(kernel), [Next]_kernel
  PROVE  [Timers!Next]_Timers!vars /\ Punctual(kernel')
<1>1. Core(kernel')
  BY NextCore
<1>2. CASE TaskNext
  <2>1. Paces(kernel', kernel)
    BY <1>2, ActsPace, WaitsPace, SwitchesPace DEF TaskNext
  <2> QED BY <1>1, <2>1, PacesTimers
<1>3. CASE ObjectNext
  <2>1. Paces(kernel', kernel)
    BY <1>3, SemFlgPace, DtqPace, MbxMpfPace DEF ObjectNext
  <2> QED BY <1>1, <2>1, PacesTimers
<1>4. CASE TimeNext
  <2>1. CASE StaCyc
    BY <1>1, <2>1, StartsCyclicTimer
  <2>2. CASE StpCyc
    BY <1>1, <2>2, StopsCyclicTimer
  <2>3. CASE Interrupt \/ InterruptReturns
    <3>1. Paces(kernel', kernel)
      BY <2>3, InterruptsPace
    <3> QED BY <1>1, <3>1, PacesTimers
  <2>4. CASE TimerInterrupt
    BY <1>1, <2>4, BeginsTick
  <2>5. CASE TickDelivers
    BY <1>1, <2>5, DeliversTimers
  <2>6. CASE TickEnds
    BY <1>1, <2>6, EndsTick
  <2> QED BY <1>4, <2>1, <2>2, <2>3, <2>4, <2>5, <2>6 DEF TimeNext
<1>5. CASE UNCHANGED kernel
  <2>1. Timeless(kernel', kernel)
    <3>1. Made(kernel)
      BY ClockFacts
    <3> QED BY <1>5, <3>1, TimelessSelf
  <2>2. Paces(kernel', kernel)
    BY <2>1, TimelessDisarms DEF Paces
  <2> QED BY <1>1, <2>2, PacesTimers
<1> QED BY <1>2, <1>3, <1>4, <1>5 DEF Next

LEMMA TimersInit ==
  ASSUME Init
  PROVE  Core(kernel) /\ Punctual(kernel) /\ Timers!Init
<1>1. PICK cfg \in Configurations : kernel = dispatch(Initialized(cfg))
  BY DEF Init
<1>2. PICK m : m = kernel
  OBVIOUS
<1>3. Core(m) /\ Timely(m) /\ ~m.ticking
  BY <1>1, <1>2, InitCore
<1>4. PICK left : left = TimeLeft
  OBVIOUS
<1>5. Tells(left, m)
  BY <1>2, <1>3, <1>4, TimeLeftTells
<1>6. ASSUME NEW o \in DOMAIN left PROVE left[o] \in 0 .. TMAX_RELTIM
  <2>1. o \in EventOwner
    BY <1>5 DEF Tells
  <2>2. PICK node : node \in Nodes(m, o)
    BY <1>5, <2>1 DEF Tells
  <2>3. left[o] = Ahead(m, node.time)
    BY <1>5, <2>1, <2>2 DEF Tells
  <2>4. node.time \in 0 .. TMAX_RELTIM /\ m.current_time = 0
    BY <1>3, <2>1, <2>2 DEF Timely
  <2>5. PICK x, M, H : x = node.time /\ M = 2 ^ EVTTIM_BITS /\ H = 2 ^ (EVTTIM_BITS - 1)
    OBVIOUS
  <2>6. M \in Nat \ {0} /\ H \in Nat /\ H < M /\ x \in 0 .. H - 1
    BY <2>4, <2>5, WordSize, HalfWord DEF TMAX_RELTIM
  <2>7. x - 0 = x /\ x % M = x
    BY <2>6, ShortMod
  <2>8. left[o] = x
    BY <2>3, <2>4, <2>5, <2>7 DEF Ahead, Wrap
  <2> QED BY <2>4, <2>5, <2>8
<1>7. \E running \in SUBSET EventOwner : left \in [running -> 0 .. TMAX_RELTIM]
  <2>1. left \in [DOMAIN left -> 0 .. TMAX_RELTIM] /\ DOMAIN left \subseteq EventOwner
    BY <1>5, <1>6 DEF Tells
  <2> QED BY <2>1
<1>8. PeriodsNow \in [EventOwner -> 0 .. TMAX_RELTIM]
  <2>1. ASSUME NEW o \in EventOwner PROVE PeriodOf(o) \in 0 .. TMAX_RELTIM
    <3>1. TMAX_RELTIM \in Nat
      BY WordSize DEF TMAX_RELTIM
    <3>2. CASE o \in Cyclic
      <4>1. PICK p : p = kernel.cfg.cyctim[o]
        OBVIOUS
      <4>2. p \in 1 .. TMAX_RELTIM
        BY <1>2, <1>3, <3>2, <4>1, ClockFacts, PeriodFacts
      <4> QED BY <3>1, <3>2, <4>1, <4>2 DEF PeriodOf
    <3>3. CASE o \notin Cyclic
      BY <3>1, <3>3 DEF PeriodOf
    <3> QED BY <3>2, <3>3
  <2> QED BY <2>1 DEF PeriodsNow
<1>9. m.ticking = FALSE
  <2>1. m.ticking \in BOOLEAN
    BY <1>3, ClockFacts DEF Shape, Flags
  <2> QED BY <1>3, <2>1
<1>10. Timers!Init
  BY <1>2, <1>4, <1>7, <1>8, <1>9 DEF Timers!Init, PeriodsNow
<1> QED BY <1>2, <1>3, <1>10 DEF Timely

\* The heap and its wrapping times implement timers that know no clock: a timeout or a cyclic
\* handler goes off in the tick it was set for and no tick ends before, for any width of the
\* event times, any tick and every configuration, whatever services start and stop between the
\* handlers of a tick.
THEOREM TimersKept == Spec => GoesOffInTime
<1>1. Init => Core(kernel) /\ Punctual(kernel)
  BY TimersInit
<1>2. Core(kernel) /\ Punctual(kernel) /\ [Next]_kernel => Core(kernel)' /\ Punctual(kernel)'
  BY NextCore, TimersStep
<1>3. Init => Timers!Init
  BY TimersInit
<1>4. Core(kernel) /\ Punctual(kernel) /\ [Next]_kernel => [Timers!Next]_Timers!vars
  BY TimersStep
<1> QED BY <1>1, <1>2, <1>3, <1>4, PTL DEF Spec, GoesOffInTime, Timers!Spec

================================================================================
