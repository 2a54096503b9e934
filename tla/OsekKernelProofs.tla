--------------------------- MODULE OsekKernelProofs ----------------------------
(***************************************************************************)
(* Theorems about OsekKernel for every task table, resource table and set  *)
(* of interrupts: the processor runs the task the scheduler chose, the     *)
(* scheduler data are exact, no task waits for an event that is set, no    *)
(* recorded activation is lost; the resources a task holds are the chain   *)
(* of its control blocks, and no task finds a resource it may take in the  *)
(* hands of another.                                                       *)
(*                                                                         *)
(* First what the functions of task.c do to the ready queues, for any      *)
(* number of tasks and priorities, and what bitmap_search finds in a map.  *)
(* Then that the kernel implements PriorityOrder: the ready queues and     *)
(* schedtsk are one order of the runnable tasks.                           *)
(*                                                                         *)
(* The last part is about OsekReadyList, for any number of tasks and       *)
(* priorities: the linked lists and the 16-bit map of task.c implement     *)
(* SchedulerQueues.  Its state is not that of OsekKernel.                  *)
(***************************************************************************)
EXTENDS OsekPrecedence, OsekReadyList, OsekBitmap, WellFoundedInduction, SequenceTheorems,
        FiniteSetTheorems, TLAPS

\* TSKID_NULL is not the number of a task.
LEMMA NullIsNoTask ==
  ASSUME TaskTable
  PROVE  TSKID_NULL \notin TaskType
BY DEF TaskTable, TaskType, TSKID_NULL

\* The fields of the scheduler data, and the priorities as numbers.
LEMMA SchedulerFields ==
  ASSUME TaskTable
  PROVE  /\ TaskPri \in SUBSET Nat /\ TPRI_MINTASK \in TaskPri
         /\ \A p \in TaskPri : TPRI_MINTASK <= p
         /\ \A p \in TaskPri, n \in Nat : n <= p => n \in TaskPri
         /\ \A r \in Scheduler :
              /\ r.queue \in [TaskPri -> Seq(TaskType)] /\ r.primap \in SUBSET TaskPri
              /\ r.nextpri \in TaskPri /\ r.schedtsk \in TaskType \cup {TSKID_NULL}
<1>1. /\ TaskPri \in SUBSET Nat /\ TPRI_MINTASK \in TaskPri
      /\ \A p \in TaskPri : TPRI_MINTASK <= p
      /\ \A p \in TaskPri, n \in Nat : n <= p => n \in TaskPri
  BY DEF TaskTable, TaskPri, TPRI_MINTASK, TPRI_MAXTASK
<1>2. \A r \in Scheduler :
        /\ r.queue \in [TaskPri -> Seq(TaskType)] /\ r.primap \in SUBSET TaskPri
        /\ r.nextpri \in TaskPri /\ r.schedtsk \in TaskType \cup {TSKID_NULL}
  BY DEF Scheduler
<1> QED BY <1>1, <1>2

\* A task put in front of a queue (ready_insert_first) becomes its first.
LEMMA ConsFacts ==
  ASSUME NEW S, NEW s \in Seq(S), NEW t \in S
  PROVE  LET c == <<t>> \o s IN
         /\ c \in Seq(S) /\ c # << >> /\ c[1] = t
         /\ Elements(c) = Elements(s) \cup {t}
         /\ Distinct(s) /\ t \notin Elements(s) => Distinct(c)
<1> DEFINE c == <<t>> \o s
<1>1. /\ c \in Seq(S) /\ Len(c) = Len(s) + 1 /\ c # << >> /\ c[1] = t /\ Len(s) \in Nat
      /\ \A i \in 1 .. Len(s) : c[i + 1] = s[i]
      /\ \A i \in 1 .. Len(c) : i # 1 => i - 1 \in 1 .. Len(s) /\ c[i] = s[i - 1]
  OBVIOUS
<1> HIDE DEF c
<1>2. \A x \in Elements(c) : x \in Elements(s) \cup {t}
  <2> TAKE x \in Elements(c)
  <2>1. PICK i \in 1 .. Len(c) : x = c[i]
    BY DEF Elements
  <2>2. CASE i = 1
    BY <1>1, <2>1, <2>2
  <2>3. CASE i # 1
    BY <1>1, <2>1, <2>3 DEF Elements
  <2> QED BY <2>2, <2>3
<1>3. \A i \in 1 .. Len(s) : i + 1 \in 1 .. Len(c)
  BY <1>1
<1>4. \A x \in Elements(s) : x \in Elements(c)
  BY <1>1, <1>3 DEF Elements
<1>5. t \in Elements(c)
  BY <1>1 DEF Elements
<1>6. ASSUME Distinct(s), t \notin Elements(s) PROVE Distinct(c)
  <2> SUFFICES ASSUME NEW i \in 1 .. Len(c), NEW j \in 1 .. Len(c), c[i] = c[j]
               PROVE  i = j
    BY DEF Distinct
  <2>1. \A a \in 1 .. Len(s) : s[a] # t
    BY <1>6 DEF Elements
  <2>2. CASE i = 1 \/ j = 1
    BY <1>1, <2>1, <2>2
  <2>3. CASE i # 1 /\ j # 1
    <3>1. i - 1 = j - 1
      BY <1>1, <1>6, <2>3 DEF Distinct
    <3> QED BY <3>1
  <2> QED BY <2>2, <2>3
<1> QED BY <1>1, <1>2, <1>4, <1>5, <1>6 DEF c

\* A task put at the end of a queue (ready_insert_last) moves nobody.
LEMMA AppendFacts ==
  ASSUME NEW S, NEW s \in Seq(S), NEW t \in S
  PROVE  LET c == Append(s, t) IN
         /\ c \in Seq(S) /\ c # << >> /\ (s # << >> => c[1] = s[1])
         /\ Elements(c) = Elements(s) \cup {t}
         /\ Distinct(s) /\ t \notin Elements(s) => Distinct(c)
<1> DEFINE c == Append(s, t)
           n == Len(s) + 1
<1>1. /\ c \in Seq(S) /\ Len(c) = n /\ c # << >> /\ c[n] = t /\ Len(s) \in Nat
      /\ \A i \in 1 .. Len(s) : c[i] = s[i] /\ i \in 1 .. Len(c)
      /\ \A i \in 1 .. Len(c) : i # n => i \in 1 .. Len(s) /\ c[i] = s[i]
      /\ n \in 1 .. Len(c) /\ (s # << >> => c[1] = s[1])
  <2>1. /\ c \in Seq(S) /\ Len(c) = n /\ c # << >> /\ c[n] = t /\ Len(s) \in Nat
        /\ \A i \in 1 .. Len(s) : c[i] = s[i]
    OBVIOUS
  <2>2. s # << >> => 1 \in 1 .. Len(s)
    OBVIOUS
  <2> HIDE DEF c
  <2> QED BY <2>1, <2>2
<1> HIDE DEF c, n
<1>2. \A x \in Elements(c) : x \in Elements(s) \cup {t}
  BY <1>1 DEF Elements
<1>3. \A x \in Elements(s) : x \in Elements(c)
  BY <1>1 DEF Elements
<1>4. t \in Elements(c)
  BY <1>1 DEF Elements
<1>5. ASSUME Distinct(s), t \notin Elements(s) PROVE Distinct(c)
  <2>1. \A a \in 1 .. Len(s) : s[a] # t
    BY <1>5 DEF Elements
  <2> QED BY <1>1, <1>5, <2>1 DEF Distinct
<1> QED BY <1>1, <1>2, <1>3, <1>4, <1>5 DEF c

\* Taking the first task of a non-empty queue (ready_delete_first).
LEMMA TailFacts ==
  ASSUME NEW S, NEW s \in Seq(S), s # << >>
  PROVE  /\ Head(s) \in S /\ Head(s) = s[1] /\ Tail(s) \in Seq(S)
         /\ Head(s) \in Elements(s)
         /\ Distinct(s) => /\ Distinct(Tail(s))
                           /\ Elements(Tail(s)) = Elements(s) \ {Head(s)}
<1> DEFINE c == Tail(s)
           h == Head(s)
<1>1. /\ h \in S /\ h = s[1] /\ c \in Seq(S) /\ 1 \in 1 .. Len(s)
      /\ \A i \in 1 .. Len(c) : c[i] = s[i + 1] /\ i + 1 \in 1 .. Len(s) /\ i + 1 # 1
      /\ \A i \in 1 .. Len(s) : i # 1 => i - 1 \in 1 .. Len(c) /\ c[i - 1] = s[i]
  OBVIOUS
<1> HIDE DEF c, h
<1>2. h \in Elements(s)
  BY <1>1 DEF Elements
<1>3. ASSUME Distinct(s) PROVE Distinct(c)
  <2> SUFFICES ASSUME NEW i \in 1 .. Len(c), NEW j \in 1 .. Len(c), c[i] = c[j]
               PROVE  i = j
    BY DEF Distinct
  <2>1. i + 1 = j + 1
    BY <1>1, <1>3 DEF Distinct
  <2> QED BY <2>1
<1>4. ASSUME Distinct(s) PROVE \A x \in Elements(c) : x \in Elements(s) \ {h}
  <2>1. \A i \in 1 .. Len(c) : s[i + 1] # s[1]
    BY <1>1, <1>4 DEF Distinct
  <2> QED BY <1>1, <2>1 DEF Elements
<1>5. \A x \in Elements(s) \ {h} : x \in Elements(c)
  <2> TAKE x \in Elements(s) \ {h}
  <2>1. PICK i \in 1 .. Len(s) : s[i] = x
    BY DEF Elements
  <2>2. i - 1 \in 1 .. Len(c) /\ c[i - 1] = x
    BY <1>1, <2>1
  <2> QED BY <2>2 DEF Elements
<1> QED BY <1>1, <1>2, <1>3, <1>4, <1>5 DEF c, h

\* A non-empty set of task priorities has a highest member.
LEMMA HighestFacts ==
  ASSUME TaskTable, NEW P \in SUBSET TaskPri, P # {}
  PROVE  Highest(P) \in P /\ \A q \in P : q <= Highest(P)
<1> DEFINE T == {n \in Nat : \E p \in P : n = TPRI_MAXTASK - p}
           R == {ss \in Nat \X Nat : ss[1] < ss[2]}
<1>1. T \subseteq Nat /\ T # {}
  <2>1. PICK p \in P : TRUE
    OBVIOUS
  <2>2. TPRI_MAXTASK - p \in T
    BY <2>1 DEF TaskPri, TPRI_MAXTASK, TPRI_MINTASK, TaskTable
  <2> QED BY <2>2
<1>2. IsWellFoundedOn(R, Nat)
  BY NatLessThanWellFounded DEF OpToRel
<1>3. PICK x \in T : \A y \in T : ~ (<<y, x>> \in R)
  <2> HIDE DEF T, R
  <2> QED BY <1>1, <1>2, WFMin
<1>4. \A y \in T : x <= y
  <2>1. \A y \in T : x \in Nat /\ y \in Nat
    BY <1>1
  <2>2. \A y \in T : ~ (y < x)
    BY <1>3, <2>1
  <2> QED BY <2>1, <2>2
<1>5. PICK p \in P : x = TPRI_MAXTASK - p
  OBVIOUS
<1>6. \A q \in P : q <= p
  BY <1>4, <1>5 DEF TaskPri, TPRI_MAXTASK, TPRI_MINTASK, TaskTable
<1> QED BY <1>5, <1>6 DEF Highest

--------------------------------------------------------------------------------
\* A queue function whose queue p0 gains the task t.
LEMMA QueueGains ==
  ASSUME NEW q \in [TaskPri -> Seq(TaskType)], NEW pri, NEW X \in SUBSET TaskType,
         QueuesHold(q, pri, X), NEW t \in TaskType, t \notin X, pri[t] \in TaskPri,
         NEW s \in Seq(TaskType), Elements(s) = Elements(q[pri[t]]) \cup {t}, Distinct(s)
  PROVE  QueuesHold([q EXCEPT ![pri[t]] = s], pri, X \cup {t})
<1> DEFINE q2 == [q EXCEPT ![pri[t]] = s]
<1>1. \A p \in TaskPri : q2[p] = IF p = pri[t] THEN s ELSE q[p]
  OBVIOUS
<1> HIDE DEF q2
<1>2. \A p \in TaskPri : Distinct(q2[p])
  BY <1>1 DEF QueuesHold
<1>3. ASSUME NEW p \in TaskPri
      PROVE  Elements(q2[p]) = {x \in X \cup {t} : pri[x] = p}
  <2>1. Elements(q[p]) = {x \in X : pri[x] = p}
    BY DEF QueuesHold
  <2>2. CASE p = pri[t]
    BY <1>1, <2>1, <2>2
  <2>3. CASE p # pri[t]
    BY <1>1, <2>1, <2>3
  <2> QED BY <2>2, <2>3
<1>4. \A x \in X \cup {t} : pri[x] \in TaskPri
  BY DEF QueuesHold
<1> QED BY <1>2, <1>3, <1>4 DEF QueuesHold, q2

\* A queue function whose queue n loses its first task.
LEMMA QueueLoses ==
  ASSUME NEW q \in [TaskPri -> Seq(TaskType)], NEW pri, NEW X \in SUBSET TaskType,
         QueuesHold(q, pri, X), NEW n \in TaskPri, q[n] # << >>
  PROVE  /\ Head(q[n]) \in X /\ pri[Head(q[n])] = n
         /\ QueuesHold([q EXCEPT ![n] = Tail(@)], pri, X \ {Head(q[n])})
<1> DEFINE s == q[n]
           c == Tail(s)
           h == Head(s)
           q2 == [q EXCEPT ![n] = c]
<1>0. s \in Seq(TaskType) /\ s # << >>
  OBVIOUS
<1>1. \A p \in TaskPri : q2[p] = IF p = n THEN c ELSE q[p]
  OBVIOUS
<1>2. Distinct(s) /\ Elements(s) = {x \in X : pri[x] = n}
  BY DEF QueuesHold
<1>3. h \in Elements(s) /\ Distinct(c) /\ Elements(c) = Elements(s) \ {h}
  BY <1>0, <1>2, TailFacts
<1>4. [q EXCEPT ![n] = Tail(@)] = q2
  OBVIOUS
<1> HIDE DEF q2, s, c, h
<1>5. h \in X /\ pri[h] = n
  BY <1>2, <1>3
<1>6. \A p \in TaskPri : Distinct(q2[p])
  BY <1>1, <1>3 DEF QueuesHold
<1>7. ASSUME NEW p \in TaskPri
      PROVE  Elements(q2[p]) = {x \in X \ {h} : pri[x] = p}
  <2>1. Elements(q[p]) = {x \in X : pri[x] = p}
    BY DEF QueuesHold
  <2>2. CASE p = n
    BY <1>1, <1>2, <1>3, <2>2
  <2>3. CASE p # n
    BY <1>1, <1>5, <2>1, <2>3
  <2> QED BY <2>2, <2>3
<1>8. QueuesHold(q2, pri, X \ {h})
  BY <1>6, <1>7 DEF QueuesHold
<1> QED BY <1>4, <1>5, <1>8 DEF s, h

\* With the bitmap exact, nextpri bounds the priority of every ready task.
LEMMA NextpriBounds ==
  ASSUME NEW r \in Scheduler, NEW pri, NEW X, QueuesHold(r.queue, pri, X), MapExact(r)
  PROVE  /\ \A t \in X : pri[t] \in r.primap /\ pri[t] <= r.nextpri
         /\ r.primap = {} <=> X = {}
<1>1. ASSUME NEW t \in X PROVE pri[t] \in r.primap /\ pri[t] <= r.nextpri
  <2>1. pri[t] \in TaskPri /\ t \in Elements(r.queue[pri[t]])
    BY DEF QueuesHold
  <2>2. r.queue[pri[t]] # << >>
    BY <2>1 DEF Elements
  <2> QED BY <2>1, <2>2 DEF MapExact
<1>2. ASSUME NEW p \in r.primap PROVE X # {}
  <2>1. p \in TaskPri /\ r.queue[p] \in Seq(TaskType) /\ r.queue[p] # << >>
    BY DEF MapExact, Scheduler
  <2>2. Head(r.queue[p]) \in Elements(r.queue[p])
    BY <2>1, TailFacts
  <2> QED BY <2>1, <2>2 DEF QueuesHold
<1> QED BY <1>1, <1>2

--------------------------------------------------------------------------------
(* The scheduler data between two functions of task.c: r is consistent and its queues *)
(* hold the tasks X, schedtsk not among them.                                         *)
Sound(r, pri, X) == r \in Scheduler /\ QueuesHold(r.queue, pri, X) /\ MapExact(r)

\* What search_schedtsk returns for r.
Searched(S, r, pri, X) ==
  /\ Sound(S, pri, X \ {S.schedtsk}) /\ BestChosen(S, pri)
  /\ X = {} <=> S.schedtsk = TSKID_NULL
  /\ X # {} => /\ S.schedtsk \in X /\ pri[S.schedtsk] = r.nextpri
               /\ r.nextpri \in TaskPri /\ S.schedtsk = r.queue[r.nextpri][1]
  /\ \A p \in TaskPri : p # r.nextpri => S.queue[p] = r.queue[p]

\* search_schedtsk takes the first task of the highest priority off the queues, and the
\* queues, the bitmap and nextpri stay consistent.
LEMMA SearchFacts ==
  ASSUME TaskTable, NEW r, NEW pri \in [TaskType -> Nat],
         NEW X \in SUBSET TaskType, Sound(r, pri, X)
  PROVE  Searched(SearchSchedtsk(r), r, pri, X)
<1>0. PICK S : S = SearchSchedtsk(r)
  OBVIOUS
<1> DEFINE n == r.nextpri
           m == r.primap \ {n}
<1>1. /\ r.queue \in [TaskPri -> Seq(TaskType)] /\ r.primap \in SUBSET TaskPri
      /\ n \in TaskPri /\ TPRI_MINTASK \in TaskPri /\ TaskPri \in SUBSET Nat
      /\ r \in Scheduler /\ QueuesHold(r.queue, pri, X) /\ MapExact(r)
  BY SchedulerFields DEF Sound
<1>2. /\ \A t \in X : pri[t] \in r.primap /\ pri[t] <= n
      /\ r.primap = {} <=> X = {}
  BY <1>1, NextpriBounds
<1>3. CASE r.primap = {}
  <2>1. S = [r EXCEPT !.schedtsk = TSKID_NULL]
    BY <1>0, <1>3 DEF SearchSchedtsk
  <2>2. S \in Scheduler /\ S.schedtsk = TSKID_NULL /\ S.queue = r.queue
        /\ S.primap = r.primap /\ S.nextpri = n
    BY <1>1, <2>1 DEF Scheduler
  <2>3. X = {} /\ X \ {S.schedtsk} = X
    BY <1>2, <1>3
  <2>4. MapExact(S) /\ BestChosen(S, pri)
    BY <1>1, <1>3, <2>2 DEF MapExact, BestChosen
  <2>5. QueuesHold(S.queue, pri, X \ {S.schedtsk})
    BY <1>1, <2>2, <2>3
  <2>6. Searched(S, r, pri, X)
    BY <2>2, <2>3, <2>4, <2>5 DEF Searched, Sound
  <2> QED BY <1>0, <2>6
<1>4. CASE r.primap # {}
  <2> DEFINE s == r.queue[n]
             rest == Tail(s)
             h == Head(s)
  <2>1. n \in r.primap /\ s # << >> /\ s \in Seq(TaskType)
    BY <1>4, <1>1 DEF MapExact
  <2>2. h \in TaskType /\ h = s[1] /\ rest \in Seq(TaskType)
    BY <2>1, TailFacts
  <2>3. h \in X /\ pri[h] = n /\ QueuesHold([r.queue EXCEPT ![n] = Tail(@)], pri, X \ {h})
    BY <1>1, <2>1, QueueLoses
  <2>4. /\ S = [queue |-> S.queue, primap |-> S.primap, nextpri |-> S.nextpri,
                schedtsk |-> S.schedtsk]
        /\ S.schedtsk = h
        /\ S.queue = [r.queue EXCEPT ![n] = Tail(@)]
        /\ S.primap = IF rest # << >> THEN r.primap ELSE m
        /\ S.nextpri = IF rest # << >> THEN n ELSE IF m = {} THEN TPRI_MINTASK ELSE Highest(m)
    BY <1>0, <1>4, <1>1, <2>1 DEF SearchSchedtsk, Scheduler
  <2>5. m # {} => Highest(m) \in m /\ \A q \in m : q <= Highest(m)
    BY <1>1, TaskTable, HighestFacts
  <2>6. /\ S.queue \in [TaskPri -> Seq(TaskType)] /\ S.queue[n] = rest
        /\ \A p \in TaskPri : p # n => S.queue[p] = r.queue[p]
    <3>1. S.queue = [r.queue EXCEPT ![n] = rest]
      BY <2>4
    <3> HIDE DEF h, rest, n
    <3> QED BY <1>1, <2>2, <3>1
  <2>7. h # TSKID_NULL
    BY <2>2, NullIsNoTask
  <2> HIDE DEF h, rest, s, n, m
  <2>8. S.primap \in SUBSET TaskPri /\ S.nextpri \in TaskPri
    BY <1>1, <2>4, <2>5 DEF m
  <2>9. S \in Scheduler
    BY <2>2, <2>4, <2>6, <2>8 DEF Scheduler
  <2>10. S.primap = {p \in TaskPri : S.queue[p] # << >>}
    <3>1. r.primap = {p \in TaskPri : r.queue[p] # << >>}
      BY <1>1 DEF MapExact
    <3>2. n \in S.primap <=> rest # << >>
      BY <2>1, <2>4 DEF m
    <3>3. \A p \in TaskPri : p # n => (p \in S.primap <=> p \in r.primap)
      BY <2>4 DEF m
    <3>4. \A p \in TaskPri : p \in S.primap <=> S.queue[p] # << >>
      BY <2>6, <3>1, <3>2, <3>3
    <3> QED BY <2>8, <3>4
  <2>11. \A p \in r.primap : p <= n
    BY <1>1 DEF MapExact, n
  <2>12. MapExact(S)
    <3>1. S.primap # {} => S.nextpri \in S.primap
      BY <2>1, <2>4, <2>5
    <3>2. \A p \in S.primap : p <= S.nextpri
      BY <2>4, <2>5, <2>11
    <3>3. S.primap = {} => S.nextpri = TPRI_MINTASK
      BY <2>1, <2>4
    <3> QED BY <2>10, <3>1, <3>2, <3>3 DEF MapExact
  <2>13. BestChosen(S, pri)
    <3>1. S.primap # {} => n >= S.nextpri
      BY <1>1, <2>1, <2>4, <2>5, <2>11 DEF m
    <3> QED BY <2>3, <2>4, <2>7, <3>1 DEF BestChosen
  <2>14. QueuesHold(S.queue, pri, X \ {S.schedtsk})
    BY <2>3, <2>4
  <2>15. Sound(S, pri, X \ {S.schedtsk})
    BY <2>9, <2>12, <2>14 DEF Sound
  <2>16. Searched(S, r, pri, X)
    BY <1>1, <2>2, <2>3, <2>4, <2>6, <2>7, <2>13, <2>15 DEF Searched, n, s
  <2> QED BY <1>0, <2>16
<1> QED BY <1>3, <1>4

\* What putting t into the queue p0 of r leaves.
Inserted(f, r, pri, X, t, p0) ==
  /\ f \in Scheduler /\ f.schedtsk = r.schedtsk /\ f.nextpri = r.nextpri
  /\ f.primap = r.primap \cup {p0}
  /\ f.primap = {p \in TaskPri : f.queue[p] # << >>}
  /\ QueuesHold(f.queue, pri, X \cup {t})
  /\ \A p \in TaskPri : p # p0 => f.queue[p] = r.queue[p]

WithQueue(r, p0, s) == [r EXCEPT !.queue[p0] = s, !.primap = @ \cup {p0}]

\* The update of ready_primap that goes with either insertion keeps the bitmap exact.
LEMMA InsertFacts ==
  ASSUME NEW r, NEW pri, NEW X \in SUBSET TaskType, Sound(r, pri, X),
         NEW t \in TaskType, t \notin X, NEW p0 \in TaskPri, pri[t] = p0,
         NEW s \in Seq(TaskType), s # << >>,
         Elements(s) = Elements(r.queue[p0]) \cup {t}, Distinct(s)
  PROVE  /\ Inserted(WithQueue(r, p0, s), r, pri, X, t, p0)
         /\ WithQueue(r, p0, s).queue[p0] = s
<1>8. PICK f : f = WithQueue(r, p0, s)
  OBVIOUS
<1>0. r \in Scheduler /\ QueuesHold(r.queue, pri, X) /\ MapExact(r)
  BY DEF Sound
<1>1. r.queue \in [TaskPri -> Seq(TaskType)] /\ r.primap \in SUBSET TaskPri
  BY <1>0 DEF Scheduler
<1>2. /\ f = [queue |-> f.queue, primap |-> f.primap, nextpri |-> r.nextpri,
              schedtsk |-> r.schedtsk]
      /\ f.queue = [r.queue EXCEPT ![p0] = s] /\ f.primap = r.primap \cup {p0}
      /\ f.schedtsk = r.schedtsk /\ f.nextpri = r.nextpri
  BY <1>8, <1>0, <1>1 DEF Scheduler, WithQueue
<1>3. QueuesHold([r.queue EXCEPT ![pri[t]] = s], pri, X \cup {t})
  BY <1>0, <1>1, QueueGains
<1>4. /\ f.queue \in [TaskPri -> Seq(TaskType)] /\ f.queue[p0] = s
      /\ \A p \in TaskPri : p # p0 => f.queue[p] = r.queue[p]
  BY <1>1, <1>2
<1>5. f \in Scheduler
  BY <1>0, <1>1, <1>2, <1>4 DEF Scheduler
<1>6. f.primap = {p \in TaskPri : f.queue[p] # << >>}
  BY <1>0, <1>1, <1>2, <1>4 DEF MapExact
<1>7. Inserted(f, r, pri, X, t, p0)
  BY <1>2, <1>3, <1>4, <1>5, <1>6 DEF Inserted
<1> QED BY <1>8, <1>4, <1>7

LEMMA InsertFirstFacts ==
  ASSUME NEW r, NEW pri, NEW X \in SUBSET TaskType, Sound(r, pri, X),
         NEW t \in TaskType, t \notin X, NEW p0 \in TaskPri, pri[t] = p0
  PROVE  /\ Inserted(InsertFirst(r, p0, t), r, pri, X, t, p0)
         /\ InsertFirst(r, p0, t).queue[p0] # << >>
         /\ InsertFirst(r, p0, t).queue[p0][1] = t
<1> DEFINE s == <<t>> \o r.queue[p0]
<1>1. r.queue[p0] \in Seq(TaskType) /\ Distinct(r.queue[p0]) /\ t \notin Elements(r.queue[p0])
  BY DEF Sound, QueuesHold, Scheduler
<1>2. /\ s \in Seq(TaskType) /\ s # << >> /\ s[1] = t /\ Distinct(s)
      /\ Elements(s) = Elements(r.queue[p0]) \cup {t}
  BY <1>1, ConsFacts
<1>3. InsertFirst(r, p0, t) = WithQueue(r, p0, s)
  BY DEF InsertFirst, WithQueue
<1> HIDE DEF s
<1>4. /\ Inserted(WithQueue(r, p0, s), r, pri, X, t, p0)
      /\ WithQueue(r, p0, s).queue[p0] = s
  BY <1>2, InsertFacts
<1> QED BY <1>2, <1>3, <1>4

LEMMA InsertLastFacts ==
  ASSUME NEW r, NEW pri, NEW X \in SUBSET TaskType, Sound(r, pri, X),
         NEW t \in TaskType, t \notin X, NEW p0 \in TaskPri, pri[t] = p0
  PROVE  /\ Inserted(InsertLast(r, p0, t), r, pri, X, t, p0)
         /\ InsertLast(r, p0, t).queue[p0] # << >>
         /\ r.queue[p0] # << >> => InsertLast(r, p0, t).queue[p0][1] = r.queue[p0][1]
<1> DEFINE s == Append(r.queue[p0], t)
<1>1. r.queue[p0] \in Seq(TaskType) /\ Distinct(r.queue[p0]) /\ t \notin Elements(r.queue[p0])
  BY DEF Sound, QueuesHold, Scheduler
<1>2. /\ s \in Seq(TaskType) /\ s # << >> /\ Distinct(s)
      /\ Elements(s) = Elements(r.queue[p0]) \cup {t}
      /\ r.queue[p0] # << >> => s[1] = r.queue[p0][1]
  BY <1>1, AppendFacts
<1>3. InsertLast(r, p0, t) = WithQueue(r, p0, s)
  BY DEF InsertLast, WithQueue
<1> HIDE DEF s
<1>4. /\ Inserted(WithQueue(r, p0, s), r, pri, X, t, p0)
      /\ WithQueue(r, p0, s).queue[p0] = s
  BY <1>2, InsertFacts
<1> QED BY <1>2, <1>3, <1>4

\* What make_runnable leaves of r, for the new task t and the old schedtsk u.
MadeRunnable(m, r, pri, X, t, u) ==
  /\ BestChosen(m, pri)
  /\ m.schedtsk = IF u = TSKID_NULL \/ pri[t] > pri[u] THEN t ELSE u
  /\ Sound(m, pri, (X \cup {t} \cup ({u} \ {TSKID_NULL})) \ {m.schedtsk})
  /\ \A p \in TaskPri : r.queue[p] # << >> =>
       \/ m.queue[p] # << >> /\ m.queue[p][1] = r.queue[p][1]
       \/ m.schedtsk = t /\ u # TSKID_NULL /\ p = pri[u]
  /\ m.schedtsk = t /\ u # TSKID_NULL =>
       /\ pri[u] \in TaskPri /\ m.queue[pri[u]] # << >> /\ m.queue[pri[u]][1] = u

\* make_runnable adds one task and keeps the queues, the bitmap, nextpri and the choice
\* of schedtsk right; the only other task it moves is schedtsk, to the front of its queue,
\* when the new task has a strictly higher priority.
LEMMA MakeRunnableFacts ==
  ASSUME TaskTable, NEW r, NEW pri \in [TaskType -> Nat],
         NEW X \in SUBSET TaskType, Sound(r, pri, X), BestChosen(r, pri),
         NEW u, u = r.schedtsk, u \notin X,
         NEW t \in TaskType, t \notin X, t # u, pri[t] \in TaskPri
  PROVE  MadeRunnable(MakeRunnable(r, pri, t), r, pri, X, t, u)
<1>0. PICK m : m = MakeRunnable(r, pri, t)
  OBVIOUS
<1> DEFINE p0 == pri[t]
<1>1. /\ r \in Scheduler /\ QueuesHold(r.queue, pri, X) /\ MapExact(r)
      /\ r.primap \in SUBSET TaskPri /\ r.nextpri \in TaskPri /\ TPRI_MINTASK \in TaskPri
      /\ TaskPri \in SUBSET Nat /\ u \in TaskType \cup {TSKID_NULL}
      /\ \A p \in TaskPri : TPRI_MINTASK <= p
  BY SchedulerFields DEF Sound
<1>2. t # TSKID_NULL
  BY NullIsNoTask
<1>3. /\ r.primap # {} => r.nextpri \in r.primap
      /\ \A p \in r.primap : p <= r.nextpri
      /\ r.primap = {} => r.nextpri = TPRI_MINTASK
  BY <1>1 DEF MapExact
<1>4. CASE u # TSKID_NULL /\ p0 <= pri[u]
  <2> DEFINE np == IF p0 > r.nextpri THEN p0 ELSE r.nextpri
  <2>0. PICK f : f = InsertLast(r, p0, t)
    OBVIOUS
  <2>1. /\ Inserted(f, r, pri, X, t, p0) /\ f.queue[p0] # << >>
        /\ r.queue[p0] # << >> => f.queue[p0][1] = r.queue[p0][1]
    BY <2>0, InsertLastFacts
  <2>2. m = [f EXCEPT !.nextpri = np]
    BY <1>0, <1>4, <2>0, <2>1 DEF MakeRunnable, Inserted
  <2>3. np \in TaskPri /\ pri[u] \in Nat /\ r.nextpri \in Nat /\ p0 \in TaskPri /\ p0 \in Nat
    BY <1>1, <1>4
  <2>4. r.nextpri <= np /\ p0 <= np /\ (np = p0 \/ (np = r.nextpri /\ p0 <= r.nextpri))
    BY <2>3
  <2> HIDE DEF np, p0
  <2>5. m \in Scheduler /\ m.schedtsk = u /\ m.queue = f.queue /\ m.primap = f.primap
        /\ m.nextpri = np
    BY <2>1, <2>2, <2>3 DEF Scheduler, Inserted
  <2>6. m.primap = r.primap \cup {p0} /\ m.primap = {p \in TaskPri : m.queue[p] # << >>}
        /\ QueuesHold(m.queue, pri, X \cup {t})
    BY <2>1, <2>5 DEF Inserted
  <2>7. np \in m.primap
    BY <1>1, <1>3, <2>3, <2>4, <2>6
  <2>8. \A p \in m.primap : p <= np
    <3>1. \A p \in r.primap : p \in Nat /\ p <= r.nextpri
      BY <1>1, <1>3
    <3>2. np \in Nat
      BY <1>1, <2>3
    <3> QED BY <2>3, <2>4, <2>6, <3>1, <3>2
  <2>9. MapExact(m)
    BY <2>5, <2>6, <2>7, <2>8 DEF MapExact
  <2>10. BestChosen(m, pri)
    <3>1. pri[u] >= np
      BY <1>1, <1>3, <1>4, <2>3, <2>4 DEF BestChosen, p0
    <3> QED BY <1>4, <2>5, <3>1 DEF BestChosen
  <2>11. (X \cup {t} \cup ({u} \ {TSKID_NULL})) \ {m.schedtsk} = X \cup {t}
    BY <1>4, <2>5
  <2>12. ~ (u = TSKID_NULL \/ pri[t] > pri[u])
    BY <1>4, <2>3 DEF p0
  <2>13. Sound(m, pri, X \cup {t})
    BY <2>5, <2>6, <2>9 DEF Sound
  <2>14. \A p \in TaskPri : r.queue[p] # << >> =>
           m.queue[p] # << >> /\ m.queue[p][1] = r.queue[p][1]
    BY <2>1, <2>5 DEF Inserted
  <2>15. MadeRunnable(m, r, pri, X, t, u)
    BY <2>5, <2>10, <2>11, <2>12, <2>13, <2>14 DEF MadeRunnable
  <2> QED BY <1>0, <2>15
<1>5. CASE u = TSKID_NULL
  <2>1. m = [r EXCEPT !.schedtsk = t]
    BY <1>0, <1>5 DEF MakeRunnable
  <2>2. m.queue = r.queue /\ m.primap = r.primap /\ m.nextpri = r.nextpri /\ m.schedtsk = t
        /\ m \in Scheduler
    BY <1>1, <2>1 DEF Scheduler
  <2>3. r.primap = {}
    BY <1>5 DEF BestChosen
  <2>4. MapExact(m) /\ BestChosen(m, pri)
    BY <1>1, <1>2, <2>2, <2>3 DEF MapExact, BestChosen
  <2>5. (X \cup {t} \cup ({u} \ {TSKID_NULL})) \ {m.schedtsk} = X
    BY <1>5, <2>2
  <2>6. Sound(m, pri, X)
    BY <1>1, <2>2, <2>4 DEF Sound
  <2>7. MadeRunnable(m, r, pri, X, t, u)
    BY <1>5, <2>2, <2>4, <2>5, <2>6 DEF MadeRunnable
  <2> QED BY <1>0, <2>7
<1>6. ASSUME u # TSKID_NULL, NEW p1 \in Nat, p1 = pri[u], p0 > p1
      PROVE  MadeRunnable(m, r, pri, X, t, u)
  <2>0. PICK f : f = InsertFirst(r, p1, u)
    OBVIOUS
  <2>1. u \in TaskType /\ p1 \in TaskPri /\ p0 \in Nat
    <3>1. p0 \in TaskPri /\ p0 \in Nat /\ p1 <= p0
      BY <1>1, <1>6
    <3> QED BY <1>1, <1>6, <3>1, SchedulerFields
  <2>2. Inserted(f, r, pri, X, u, p1) /\ f.queue[p1] # << >> /\ f.queue[p1][1] = u
    BY <1>6, <2>0, <2>1, InsertFirstFacts
  <2>3. m = [f EXCEPT !.nextpri = p1, !.schedtsk = t]
    <3>1. ~ (pri[t] <= pri[u])
      BY <1>6, <2>1
    <3> QED BY <1>0, <1>6, <2>0, <3>1 DEF MakeRunnable
  <2>4. m \in Scheduler /\ m.schedtsk = t /\ m.queue = f.queue /\ m.primap = f.primap
        /\ m.nextpri = p1
    BY <2>1, <2>2, <2>3 DEF Scheduler, Inserted
  <2>5. m.primap = r.primap \cup {p1} /\ m.primap = {p \in TaskPri : m.queue[p] # << >>}
        /\ QueuesHold(m.queue, pri, X \cup {u})
        /\ \A p \in TaskPri : p # p1 => m.queue[p] = r.queue[p]
    BY <2>2, <2>4 DEF Inserted
  <2>6. \A p \in r.primap : p <= p1
    <3>1. r.primap # {} => p1 >= r.nextpri
      BY <1>6 DEF BestChosen
    <3>2. \A p \in r.primap : p \in Nat /\ p <= r.nextpri /\ r.nextpri \in Nat
      BY <1>1, <1>3
    <3> QED BY <1>6, <3>1, <3>2
  <2>7. \A p \in m.primap : p <= p1
    BY <1>6, <2>5, <2>6
  <2>8. MapExact(m)
    BY <2>4, <2>5, <2>7 DEF MapExact
  <2>9. BestChosen(m, pri)
    BY <1>2, <1>6, <2>1, <2>4 DEF BestChosen
  <2>10. (X \cup {t} \cup ({u} \ {TSKID_NULL})) \ {m.schedtsk} = X \cup {u}
    BY <1>6, <2>4
  <2>11. Sound(m, pri, X \cup {u})
    BY <2>4, <2>5, <2>8 DEF Sound
  <2> HIDE DEF p0
  <2>12. /\ p1 \in TaskPri /\ m.queue[p1] # << >> /\ m.queue[p1][1] = u
         /\ \A p \in TaskPri : p # p1 => m.queue[p] = r.queue[p]
    BY <2>1, <2>2, <2>4, <2>5
  <2> QED BY <1>6, <2>4, <2>9, <2>10, <2>11, <2>12 DEF MadeRunnable, p0
<1>7. CASE u # TSKID_NULL
  <2>1. pri[u] \in Nat /\ p0 \in Nat
    BY <1>1, <1>7
  <2>2. p0 <= pri[u] \/ p0 > pri[u]
    BY <2>1
  <2>3. CASE p0 > pri[u]
    BY <1>0, <1>6, <1>7, <2>1, <2>3
  <2> QED BY <1>4, <1>7, <2>2, <2>3
<1> QED BY <1>5, <1>7

\* What preempt leaves of r, for the old schedtsk u with priority p0.
Preempted(m, r, pri, X, u, p0) ==
  /\ BestChosen(m, pri)
  /\ m.schedtsk \in X /\ pri[m.schedtsk] = r.nextpri
  /\ Sound(m, pri, (X \cup {u}) \ {m.schedtsk})
  /\ p0 \in TaskPri /\ m.queue[p0] # << >> /\ m.queue[p0][1] = u
  /\ m.schedtsk = r.queue[r.nextpri][1] /\ r.nextpri \in TaskPri
  /\ \A p \in TaskPri : p # r.nextpri /\ p # p0 => m.queue[p] = r.queue[p]

\* preempt, for schedtsk with a priority below nextpri: another ready task is chosen and
\* the old schedtsk is the first of its queue.
LEMMA PreemptFacts ==
  ASSUME TaskTable, NEW r, NEW pri \in [TaskType -> Nat],
         NEW X \in SUBSET TaskType, Sound(r, pri, X),
         NEW u \in TaskType, u = r.schedtsk, u \notin X,
         NEW p0 \in Nat, p0 = pri[u], p0 < r.nextpri
  PROVE  Preempted(Preempt(r, pri), r, pri, X, u, p0)
<1>0. PICK f, m : f = InsertFirst(r, p0, u) /\ m = Preempt(r, pri)
  OBVIOUS
<1>1. /\ r.primap \in SUBSET TaskPri /\ r.nextpri \in TaskPri /\ TaskPri \in SUBSET Nat
      /\ p0 \in TaskPri /\ p0 # r.nextpri /\ MapExact(r)
  <2>1. /\ r.primap \in SUBSET TaskPri /\ r.nextpri \in TaskPri /\ TaskPri \in SUBSET Nat
        /\ MapExact(r)
    BY SchedulerFields DEF Sound
  <2>2. PICK n \in Nat : n = r.nextpri
    BY <2>1
  <2>3. p0 <= n /\ p0 # n
    BY <2>2
  <2> QED BY <2>1, <2>2, <2>3, SchedulerFields
<1>2. Inserted(f, r, pri, X, u, p0) /\ f.queue[p0] # << >> /\ f.queue[p0][1] = u
  BY <1>0, <1>1, InsertFirstFacts
<1>3. m = SearchSchedtsk(f)
  BY <1>0 DEF Preempt
<1>4. Sound(f, pri, X \cup {u})
  <2>1. r.primap # {}
    <3>1. r.primap = {} => r.nextpri = TPRI_MINTASK
      BY <1>1 DEF MapExact
    <3>2. TPRI_MINTASK <= p0 /\ TPRI_MINTASK \in Nat /\ r.nextpri \in Nat
      BY <1>1, SchedulerFields
    <3> QED BY <3>1, <3>2
  <2>2. f.primap = r.primap \cup {p0} /\ f.nextpri = r.nextpri
    BY <1>2 DEF Inserted
  <2>3. r.nextpri \in r.primap /\ \A p \in r.primap : p <= r.nextpri
    BY <1>1, <2>1 DEF MapExact
  <2>4. p0 <= r.nextpri
    <3>1. r.nextpri \in Nat
      BY <1>1
    <3> QED BY <3>1
  <2>5. f.nextpri \in f.primap /\ \A p \in f.primap : p <= f.nextpri
    BY <2>2, <2>3, <2>4
  <2>6. MapExact(f)
    BY <1>2, <2>5 DEF MapExact, Inserted
  <2> QED BY <1>2, <2>6 DEF Sound, Inserted
<1>5. Searched(m, f, pri, X \cup {u})
  <2>1. X \cup {u} \in SUBSET TaskType
    OBVIOUS
  <2> QED BY <1>3, <1>4, <2>1, SearchFacts
<1>6. /\ m.schedtsk \in X \cup {u} /\ pri[m.schedtsk] = r.nextpri /\ BestChosen(m, pri)
      /\ m.schedtsk = f.queue[r.nextpri][1]
      /\ \A p \in TaskPri : p # r.nextpri => m.queue[p] = f.queue[p]
      /\ Sound(m, pri, (X \cup {u}) \ {m.schedtsk})
  BY <1>2, <1>5 DEF Searched, Inserted
<1>7. /\ f.queue[r.nextpri] = r.queue[r.nextpri] /\ m.queue[p0] = f.queue[p0]
      /\ \A p \in TaskPri : p # r.nextpri /\ p # p0 => m.queue[p] = r.queue[p]
  BY <1>1, <1>2, <1>6 DEF Inserted
<1>8. m.schedtsk \in X
  BY <1>1, <1>6
<1>9. Preempted(m, r, pri, X, u, p0)
  BY <1>1, <1>2, <1>6, <1>7, <1>8 DEF Preempted
<1> QED BY <1>0, <1>9

--------------------------------------------------------------------------------
(* bitmap_search is right for every map of 16 bits. *)

\* The maps that are not empty: two bytes, the upper one below 256.
BitMaps   == {m \in Nat : 0 < m /\ m \div 256 < 256}
NibbleMap == 1 .. 15

\* The powers the shifts and masks stand for.
LEMMA Bits ==
  /\ PRIMAP_BIT(0) = 1 /\ PRIMAP_BIT(1) = 2 /\ PRIMAP_BIT(2) = 4 /\ PRIMAP_BIT(3) = 8
  /\ PRIMAP_BIT(4) = 16 /\ PRIMAP_BIT(5) = 32 /\ PRIMAP_BIT(6) = 64 /\ PRIMAP_BIT(7) = 128
  /\ PRIMAP_BIT(8) = 256 /\ PRIMAP_BIT(9) = 512 /\ PRIMAP_BIT(10) = 1024
  /\ PRIMAP_BIT(11) = 2048 /\ PRIMAP_BIT(12) = 4096 /\ PRIMAP_BIT(13) = 8192
  /\ PRIMAP_BIT(14) = 16384 /\ PRIMAP_BIT(15) = 32768
BY DEF PRIMAP_BIT

\* The table finds the highest bit of a nibble.
LEMMA Table ==
  ASSUME NEW n \in NibbleMap
  PROVE  \/ search_table[n] = 0 /\ n = 1
         \/ search_table[n] = 1 /\ n \in 2 .. 3
         \/ search_table[n] = 2 /\ n \in 4 .. 7
         \/ search_table[n] = 3 /\ n \in 8 .. 15
<1>1. n = 1 \/ n \in 2 .. 3 \/ n \in 4 .. 7 \/ n \in 8 .. 15
  BY DEF NibbleMap
<1>2. CASE n = 1
  BY <1>2 DEF search_table
<1>3. CASE n \in 2 .. 3
  BY <1>3 DEF search_table
<1>4. CASE n \in 4 .. 7
  BY <1>4 DEF search_table
<1>5. CASE n \in 8 .. 15
  BY <1>5 DEF search_table
<1> QED BY <1>1, <1>2, <1>3, <1>4, <1>5

\* The halvings cut out a nibble that is not zero and holds the highest bit.
LEMMA Halvings ==
  ASSUME NEW b \in BitMaps
  PROVE  \E n \in NibbleMap :
           /\ n = Nibble(b)
           /\ \/ High(b) /\ Upper(b) /\ 4096 * n <= b /\ b < 4096 * n + 4096
              \/ High(b) /\ ~Upper(b) /\ 256 * n <= b /\ b < 256 * n + 256
              \/ ~High(b) /\ Upper(b) /\ 16 * n <= b /\ b < 16 * n + 16
              \/ ~High(b) /\ ~Upper(b) /\ b = n
<1>0. b \in Int /\ 1 <= b /\ b \div 256 < 256 /\ NibbleMap = 1 .. 15
  <2>1. b \in Int /\ 1 <= b /\ b \div 256 < 256
    BY DEF BitMaps
  <2>2. NibbleMap = 1 .. 15
    BY DEF NibbleMap
  <2> QED BY <2>1, <2>2
<1>1. CASE b >= 256 /\ b \div 256 >= 16
  <2>1. /\ (b \div 256) \div 16 \in 1 .. 15
        /\ 4096 * ((b \div 256) \div 16) <= b /\ b < 4096 * ((b \div 256) \div 16) + 4096
    BY <1>0, <1>1
  <2>2. Nibble(b) = (b \div 256) \div 16 /\ High(b) /\ Upper(b)
    BY <1>1 DEF Nibble, High, Upper, Byte
  <2> QED BY <1>0, <2>1, <2>2
<1>2. CASE b >= 256 /\ ~(b \div 256 >= 16)
  <2>1. b \div 256 \in 1 .. 15 /\ 256 * (b \div 256) <= b /\ b < 256 * (b \div 256) + 256
    BY <1>0, <1>2
  <2>2. Nibble(b) = b \div 256 /\ High(b) /\ ~Upper(b)
    BY <1>2 DEF Nibble, High, Upper, Byte
  <2> QED BY <1>0, <2>1, <2>2
<1>3. CASE ~(b >= 256) /\ b >= 16
  <2>1. b \div 16 \in 1 .. 15 /\ 16 * (b \div 16) <= b /\ b < 16 * (b \div 16) + 16
    BY <1>0, <1>3
  <2>2. Nibble(b) = b \div 16 /\ ~High(b) /\ Upper(b)
    BY <1>3 DEF Nibble, High, Upper, Byte
  <2> QED BY <1>0, <2>1, <2>2
<1>4. CASE ~(b >= 256) /\ ~(b >= 16)
  <2>1. Nibble(b) = b /\ ~High(b) /\ ~Upper(b)
    BY <1>4 DEF Nibble, High, Upper, Byte
  <2>2. b \in 1 .. 15
    BY <1>0, <1>4
  <2> QED BY <1>0, <2>1, <2>2
<1> QED BY <1>1, <1>2, <1>3, <1>4

\* bitmap_search returns the number of the highest 1 bit: search_schedtsk, which puts the
\* result into nextpri, never passes over a ready task of higher priority.
THEOREM SearchIsHighest ==
  ASSUME NEW b \in BitMaps
  PROVE  /\ bitmap_search(b) \in 0 .. 15
         /\ PRIMAP_BIT(bitmap_search(b)) <= b /\ b < 2 * PRIMAP_BIT(bitmap_search(b))
<1>8. b \in Int /\ NibbleMap = 1 .. 15
  <2>1. b \in Int
    BY DEF BitMaps
  <2>2. NibbleMap = 1 .. 15
    BY DEF NibbleMap
  <2> QED BY <2>1, <2>2
<1>1. PICK n \in NibbleMap :
        /\ n = Nibble(b)
        /\ \/ High(b) /\ Upper(b) /\ 4096 * n <= b /\ b < 4096 * n + 4096
           \/ High(b) /\ ~Upper(b) /\ 256 * n <= b /\ b < 256 * n + 256
           \/ ~High(b) /\ Upper(b) /\ 16 * n <= b /\ b < 16 * n + 16
           \/ ~High(b) /\ ~Upper(b) /\ b = n
  BY Halvings
<1>0. PICK s : s = search_table[n]
  OBVIOUS
<1>2. \/ s = 0 /\ n = 1
      \/ s = 1 /\ n \in 2 .. 3
      \/ s = 2 /\ n \in 4 .. 7
      \/ s = 3 /\ n \in 8 .. 15
  BY <1>0, Table
<1>3. bitmap_search(b) = (IF High(b) THEN 8 ELSE 0) + (IF Upper(b) THEN 4 ELSE 0) + s
  BY <1>0, <1>1 DEF bitmap_search
<1>4. CASE High(b) /\ Upper(b)
  BY <1>1, <1>2, <1>3, <1>4, <1>8, Bits
<1>5. CASE High(b) /\ ~Upper(b)
  BY <1>1, <1>2, <1>3, <1>5, <1>8, Bits
<1>6. CASE ~High(b) /\ Upper(b)
  BY <1>1, <1>2, <1>3, <1>6, <1>8, Bits
<1>7. CASE ~High(b) /\ ~Upper(b)
  BY <1>1, <1>2, <1>3, <1>7, <1>8, Bits
<1> QED BY <1>4, <1>5, <1>6, <1>7

--------------------------------------------------------------------------------
(* Recorded activations.  They depend on tcb_tstat and tcb_actcnt alone. *)

CountTypes ==
  /\ tcb_tstat \in [TaskType -> TaskState]
  /\ tcb_actcnt \in [TaskType -> 0 .. 255]

\* A step that does not touch the two arrays.
LEMMA CountsKept ==
  CountTypes /\ NoLostActivation /\ UNCHANGED <<tcb_tstat, tcb_actcnt>>
    => (CountTypes /\ NoLostActivation)'
  BY DEF CountTypes, NoLostActivation

\* A step that keeps the counters and makes no task dormant.
LEMMA NoneEnds ==
  ASSUME CountTypes, NoLostActivation, tcb_actcnt' = tcb_actcnt,
         tcb_tstat' \in [TaskType -> TaskState],
         \A t \in TaskType : tcb_tstat'[t] = "DORMANT" => tcb_tstat[t] = "DORMANT"
  PROVE  (CountTypes /\ NoLostActivation)'
  BY DEF CountTypes, NoLostActivation

\* NoLostActivation is inductive: the task that ends serves its own recorded activation
\* in the same step.
LEMMA CountsStep ==
  ASSUME CountTypes, NoLostActivation, [Next]_vars
  PROVE  (CountTypes /\ NoLostActivation)'
<1>0. /\ tcb_tstat \in [TaskType -> {"DORMANT", "RUNNABLE", "WAITING"}]
      /\ tcb_actcnt \in [TaskType -> 0 .. 255]
  BY DEF CountTypes, TaskState
<1>1. CASE InitializeTask
  <2>1. CASE boot \in Autostart
    BY <1>0, <1>1, <2>1, NoneEnds DEF InitializeTask, TaskState
  <2>2. CASE boot \notin Autostart
    BY <1>1, <2>2, CountsKept DEF InitializeTask, tcb
  <2> QED BY <2>1, <2>2
<1>2. CASE StartOS
  BY <1>2, CountsKept DEF StartOS
<1>3. ASSUME NEW t \in TaskType, ActivateTask(t)
      PROVE  (CountTypes /\ NoLostActivation)'
  <2>1. CASE ActivateDormant(t)
    BY <1>0, <1>3, <2>1, NoneEnds DEF ActivateDormant, TaskState
  <2>2. CASE ActivateAgain(t)
    <3>1. /\ tcb_tstat' = tcb_tstat /\ tcb_tstat[t] # "DORMANT"
          /\ tcb_actcnt' = [tcb_actcnt EXCEPT ![t] = @ + 1]
      BY <2>2 DEF ActivateAgain
    <3>4. tcb_actcnt[t] < tinib_maxact[t]
      BY <2>2 DEF ActivateAgain
    <3>2. /\ tinib_maxact[t] \in Int /\ tcb_actcnt[t] \in Int
          /\ tinib_maxact[t] <= 255 /\ 0 <= tcb_actcnt[t]
      <4>1. tcb_actcnt[t] \in 0 .. 255
        BY <1>0, <1>3
      <4>2. tinib_maxact[t] \in 0 .. 255
        BY <1>3, TaskTable
      <4> QED BY <4>1, <4>2
    <3>3. tcb_actcnt[t] + 1 \in 0 .. 255 /\ tcb_actcnt[t] + 1 <= tinib_maxact[t]
      BY <3>4, <3>2
    <3> QED BY <1>0, <1>3, <3>1, <3>3 DEF NoLostActivation, CountTypes, TaskState
  <2> QED BY <1>3, <2>1, <2>2 DEF ActivateTask
<1>4. CASE TerminateTask
  <2>1. /\ tcb_tstat' = [x \in TaskType |->
              IF x \in {y \in TaskType : y = TSKID_NULL \/ (tcb_actcnt[runtsk] > 0 /\ y = runtsk)}
              THEN "RUNNABLE" ELSE IF x = runtsk THEN "DORMANT" ELSE tcb_tstat[x]]
        /\ tcb_actcnt' = [tcb_actcnt EXCEPT ![runtsk] = IF @ > 0 THEN @ - 1 ELSE @]
    BY <1>4 DEF TerminateTask, EndTask
  <2>2. ASSUME NEW x \in TaskType
        PROVE  /\ tcb_actcnt'[x] \in 0 .. 255 /\ tcb_actcnt'[x] <= tinib_maxact[x]
               /\ tcb_actcnt'[x] > 0 => tcb_tstat'[x] # "DORMANT"
    <3>1. /\ tcb_actcnt[x] \in Int /\ tinib_maxact[x] \in Int
          /\ 0 <= tcb_actcnt[x] /\ tcb_actcnt[x] <= 255 /\ tinib_maxact[x] <= 255
      <4>1. tcb_actcnt[x] \in 0 .. 255
        BY <1>0
      <4>2. tinib_maxact[x] \in 0 .. 255
        BY TaskTable
      <4> QED BY <4>1, <4>2
    <3>2. tcb_actcnt[x] <= tinib_maxact[x] /\ (tcb_actcnt[x] > 0 => tcb_tstat[x] # "DORMANT")
      BY <1>0 DEF NoLostActivation
    <3>3. CASE x = runtsk
      BY <2>1, <3>1, <3>2, <3>3
    <3>4. CASE x # runtsk
      BY <2>1, <3>1, <3>2, <3>4
    <3> QED BY <3>3, <3>4
  <2>3. tcb_tstat' \in [TaskType -> TaskState] /\ tcb_actcnt' \in [TaskType -> 0 .. 255]
    BY <1>0, <2>1, <2>2 DEF TaskState
  <2> QED BY <2>2, <2>3 DEF NoLostActivation, CountTypes
<1>5. CASE ChainSelf
  <2>1. /\ tcb_tstat' = [x \in TaskType |->
              IF x \in {y \in TaskType : y = TSKID_NULL \/ y = runtsk}
              THEN "RUNNABLE" ELSE IF x = runtsk THEN "DORMANT" ELSE tcb_tstat[x]]
        /\ tcb_actcnt' = tcb_actcnt
    BY <1>5 DEF ChainSelf, EndTask
  <2> QED BY <1>0, <2>1, NoneEnds DEF TaskState
<1>6. ASSUME NEW t \in TaskType, ChainOther(t)
      PROVE  (CountTypes /\ NoLostActivation)'
  <2> DEFINE u == IF tcb_tstat[t] = "DORMANT" THEN t ELSE TSKID_NULL
  <2>1. /\ t # runtsk
        /\ tcb_tstat[t] = "DORMANT" \/ tcb_actcnt[t] < tinib_maxact[t]
        /\ tcb_tstat' = [x \in TaskType |->
              IF x \in {y \in TaskType : y = u \/ (tcb_actcnt[runtsk] > 0 /\ y = runtsk)}
              THEN "RUNNABLE" ELSE IF x = runtsk THEN "DORMANT" ELSE tcb_tstat[x]]
        /\ tcb_actcnt' = [x \in TaskType |->
              IF x = runtsk /\ tcb_actcnt[x] > 0 THEN tcb_actcnt[x] - 1
              ELSE IF x = t /\ tcb_tstat[t] # "DORMANT" THEN tcb_actcnt[x] + 1
              ELSE tcb_actcnt[x]]
    BY <1>6 DEF ChainOther, EndTask
  <2>2. tinib_maxact[t] \in 0 .. 255
    BY <1>6, TaskTable
  <2>3. tcb_actcnt' \in [TaskType -> 0 .. 255]
    BY <1>0, <2>1, <2>2
  <2>4. tcb_tstat' \in [TaskType -> TaskState]
    BY <1>0, <2>1 DEF TaskState
  <2>5. ASSUME NEW x \in TaskType
        PROVE  /\ tcb_actcnt'[x] <= tinib_maxact[x]
               /\ tcb_actcnt'[x] > 0 => tcb_tstat'[x] # "DORMANT"
    <3>1. /\ tcb_actcnt[x] \in Int /\ tinib_maxact[x] \in Int
          /\ 0 <= tcb_actcnt[x] /\ tcb_actcnt[x] <= 255 /\ tinib_maxact[x] <= 255
      <4>1. tcb_actcnt[x] \in 0 .. 255
        BY <1>0
      <4>2. tinib_maxact[x] \in 0 .. 255
        BY TaskTable
      <4> QED BY <4>1, <4>2
    <3>2. tcb_actcnt[x] <= tinib_maxact[x] /\ (tcb_actcnt[x] > 0 => tcb_tstat[x] # "DORMANT")
      BY <1>0 DEF NoLostActivation
    <3>3. CASE x = runtsk
      BY <2>1, <3>1, <3>2, <3>3
    <3>4. CASE x = t /\ x # runtsk
      BY <2>1, <3>1, <3>2, <3>4
    <3>5. CASE x # t /\ x # runtsk
      BY <2>1, <3>1, <3>2, <3>5
    <3> QED BY <3>3, <3>4, <3>5
  <2> QED BY <2>3, <2>4, <2>5 DEF NoLostActivation, CountTypes
<1>7. CASE Schedule
  BY <1>7, CountsKept DEF Schedule
<1>8. ASSUME NEW res \in ResourceType, GetResource(res) \/ ReleaseResource(res)
      PROVE  (CountTypes /\ NoLostActivation)'
  BY <1>8, CountsKept DEF GetResource, ReleaseResource
<1>9. ASSUME NEW t \in ExtTask, NEW mask \in Mask, SetEvent(t, mask)
      PROVE  (CountTypes /\ NoLostActivation)'
  <2>1. tcb_actcnt' = tcb_actcnt
        /\ (tcb_tstat' = [tcb_tstat EXCEPT ![t] = "RUNNABLE"] \/ tcb_tstat' = tcb_tstat)
    BY <1>9 DEF SetEvent
  <2> QED BY <1>0, <2>1, NoneEnds DEF TaskState
<1>10. ASSUME NEW mask \in Mask, ClearEvent(mask) \/ WaitEvent(mask)
       PROVE  (CountTypes /\ NoLostActivation)'
  <2>1. tcb_actcnt' = tcb_actcnt
        /\ (tcb_tstat' = [tcb_tstat EXCEPT ![runtsk] = "WAITING"] \/ tcb_tstat' = tcb_tstat)
    BY <1>10 DEF ClearEvent, WaitEvent
  <2> QED BY <1>0, <2>1, NoneEnds DEF TaskState
<1>11. ASSUME NEW i \in IsrType, Interrupt(i)
       PROVE  (CountTypes /\ NoLostActivation)'
  BY <1>11, CountsKept DEF Interrupt, tcb
<1>12. CASE InterruptReturn
  BY <1>12, CountsKept DEF InterruptReturn
<1>13. CASE LeaveIdle
  BY <1>13, CountsKept DEF LeaveIdle
<1>14. CASE UNCHANGED vars
  BY <1>14, CountsKept DEF vars, tcb
<1> QED
  BY <1>1, <1>2, <1>3, <1>4, <1>5, <1>6, <1>7, <1>8, <1>9, <1>10, <1>11, <1>12, <1>13,
     <1>14 DEF Next

LEMMA InitCounts == Init => CountTypes /\ NoLostActivation
<1>1. ASSUME NEW t \in TaskType PROVE tinib_maxact[t] \in Int /\ 0 <= tinib_maxact[t]
  BY TaskTable
<1> QED BY <1>1 DEF Init, CountTypes, TaskState, NoLostActivation

\* In every execution a recorded activation belongs to an active task, and no more are
\* recorded than ACTIVATION allows (TerminateTask, ChainTask and ActivateTask in
\* task_manage.c).
THEOREM ActivationsKept == Spec => []NoLostActivation
<1>1. Init => CountTypes /\ NoLostActivation
  BY InitCounts
<1>2. CountTypes /\ NoLostActivation /\ [Next]_vars => (CountTypes /\ NoLostActivation)'
  BY CountsStep
<1> QED BY <1>1, <1>2, PTL DEF Spec

--------------------------------------------------------------------------------
(* The scheduler data, the dispatcher and events. *)

\* Continuations from which a task takes its execution priority when it is dispatched.
Fresh == {"activate_r", "dispatcher_r_exepri"}

\* The types the proofs need; priorities are only numbers here.
BlockTypes ==
  /\ tcb_tstat \in [TaskType -> TaskState]
  /\ tcb_curevt \in [ExtTask -> SUBSET Event]
  /\ tcb_waievt \in [ExtTask -> SUBSET Event]
  /\ rescb_prevpri \in [ResourceType -> Nat]

DispatchTypes ==
  /\ rdy \in Scheduler
  /\ runtsk \in TaskType \cup {TSKID_NULL}
  /\ tcb_curpri \in [TaskType -> Nat]
  /\ tcxb_pc \in [TaskType -> Continuation]

\* A task runs only between handlers; the context a handler will return to is a task only
\* for the outermost one, and then runtsk is that task.
Stacked == [callevel : {"TCL_TASK", "TCL_ISR2"}, runisr : IsrType \cup {0, ISRID_NULL}]

Context ==
  /\ boot \in Int /\ runisr \in IsrType \cup {0, ISRID_NULL}
  /\ isrstk \in Seq(Stacked)
  /\ isrstk # << >> =>
       /\ callevel = "TCL_ISR2" /\ boot = tnum_task + 1
       /\ isrstk[1].callevel = "TCL_TASK" => runtsk # TSKID_NULL
       /\ \A i \in 2 .. Len(isrstk) : isrstk[i].callevel = "TCL_ISR2"
  /\ boot = tnum_task + 1 => callevel \in {"TCL_TASK", "TCL_ISR2"}

\* Before the first dispatch no task runs and those not yet initialized are dormant.
Booting ==
  boot # tnum_task + 1 =>
    /\ runtsk = TSKID_NULL /\ callevel = "TCL_NULL" /\ isrstk = << >>
    /\ 0 <= boot /\ boot <= tnum_task
    /\ \A t \in TaskType : boot <= t => tcb_tstat[t] = "DORMANT"

\* Of the active tasks but u, one that is to take its execution priority has its initial
\* priority until then, and so has a task that waits.
AtInitial(u, tstat, pri, k) ==
  \A t \in TaskType :
    /\ t # u /\ tstat[t] # "DORMANT" /\ k[t] \in Fresh => pri[t] = tinib_inipri[t]
    /\ tstat[t] = "WAITING" => pri[t] \in TaskPri

FreshAtInitial == AtInitial(runtsk, tcb_tstat, tcb_curpri, tcxb_pc)

DispatchInv ==
  /\ BlockTypes
  /\ DispatchTypes
  /\ Context
  /\ Booting
  /\ FreshAtInitial
  /\ RunningIsScheduled
  /\ SchedulerConsistent
  /\ NoLostWakeup

--------------------------------------------------------------------------------
(* The scheduler data r for the priorities pri and the set R of runnable tasks *)

Consistent(r, pri, R) ==
  /\ Sound(r, pri, R \ {r.schedtsk}) /\ BestChosen(r, pri)
  /\ r.schedtsk # TSKID_NULL => r.schedtsk \in R

\* The tables of the generator, as numbers.
LEMMA Tables ==
  /\ TaskPri \in SUBSET Nat /\ TSKID_NULL \notin TaskType /\ tnum_task \in Nat
  /\ tinib_inipri \in [TaskType -> TaskPri] /\ tinib_exepri \in [TaskType -> Nat]
  /\ \A t \in TaskType : tinib_inipri[t] <= tinib_exepri[t] /\ tinib_inipri[t] \in Nat
  /\ resinib_ceilpri \in [ResourceType -> Nat]
<1>1. TaskPri \in SUBSET Nat /\ TSKID_NULL \notin TaskType
  BY TaskTable, SchedulerFields, NullIsNoTask
<1>2. tnum_task \in Nat
  BY TaskTable
<1>3. tinib_inipri \in [TaskType -> TaskPri]
  BY TaskTable
<1>4. \A t \in TaskType : tinib_inipri[t] <= tinib_exepri[t] /\ tinib_inipri[t] \in Nat
  BY <1>1, <1>3, TaskTable
<1>5. tinib_exepri \in [TaskType -> Nat]
  <2>1. TaskPri \cup {TPRI_SCHEDULER} \in SUBSET Nat
    BY <1>1 DEF TPRI_SCHEDULER
  <2>2. tinib_exepri \in [TaskType -> TaskPri \cup {TPRI_SCHEDULER}]
    BY TaskTable
  <2> QED BY <2>1, <2>2
<1>6. resinib_ceilpri \in [ResourceType -> Nat]
  <2>1. CurPri \in SUBSET Nat
    BY <1>1 DEF CurPri, TPRI_SCHEDULER
  <2> QED BY <2>1, KernelTable
<1> QED BY <1>1, <1>2, <1>3, <1>4, <1>5, <1>6

LEMMA SoundOther ==
  ASSUME NEW r, NEW pri, NEW pri2, NEW X, Sound(r, pri, X), \A t \in X : pri2[t] = pri[t]
  PROVE  Sound(r, pri2, X)
BY DEF Sound, QueuesHold

\* Priorities of tasks that are not runnable do not matter.
LEMMA OtherPriorities ==
  ASSUME NEW r, NEW pri, NEW pri2, NEW R \in SUBSET TaskType, Consistent(r, pri, R),
         \A t \in R : pri2[t] = pri[t]
  PROVE  Consistent(r, pri2, R) /\ Sound(r, pri2, R \ {r.schedtsk})
<1>1. QueuesHold(r.queue, pri2, R \ {r.schedtsk})
  BY DEF Consistent, Sound, QueuesHold
<1>2. BestChosen(r, pri2)
  BY DEF Consistent, BestChosen
<1> QED BY <1>1, <1>2 DEF Consistent, Sound

\* The scheduled task may be raised, or lowered to nextpri.
LEMMA ScheduledPriority ==
  ASSUME NEW r, NEW pri, NEW pri2, NEW R \in SUBSET TaskType,
         Sound(r, pri, R \ {r.schedtsk}), r.schedtsk \in R, TSKID_NULL \notin R,
         \A t \in R : t # r.schedtsk => pri2[t] = pri[t],
         r.primap # {} => pri2[r.schedtsk] >= r.nextpri
  PROVE  Consistent(r, pri2, R)
<1>1. QueuesHold(r.queue, pri2, R \ {r.schedtsk})
  BY DEF Sound, QueuesHold
<1>2. BestChosen(r, pri2)
  BY DEF BestChosen
<1> QED BY <1>1, <1>2 DEF Consistent, Sound

\* search_schedtsk when the scheduled task leaves.
LEMMA ScheduledLeaves ==
  ASSUME NEW r, NEW pri \in [TaskType -> Nat], NEW R \in SUBSET TaskType, Consistent(r, pri, R)
  PROVE  Consistent(SearchSchedtsk(r), pri, R \ {r.schedtsk})
<1>0. PICK X, m : X = R \ {r.schedtsk} /\ m = SearchSchedtsk(r)
  OBVIOUS
<1>1. X \in SUBSET TaskType /\ Sound(r, pri, X)
  BY <1>0 DEF Consistent
<1>2. Searched(m, r, pri, X)
  BY <1>0, <1>1, TaskTable, SearchFacts
<1>3. Consistent(m, pri, X)
  BY <1>2 DEF Searched, Consistent
<1> QED BY <1>0, <1>3

\* make_runnable for a task that is not runnable.
LEMMA TaskArrives ==
  ASSUME NEW r, NEW pri \in [TaskType -> Nat], NEW R \in SUBSET TaskType, Consistent(r, pri, R),
         NEW t \in TaskType, t \notin R, pri[t] \in TaskPri
  PROVE  /\ Consistent(MakeRunnable(r, pri, t), pri, R \cup {t})
         /\ MakeRunnable(r, pri, t).schedtsk \in {t, r.schedtsk}
<1>0. PICK X, m, u : X = R \ {r.schedtsk} /\ m = MakeRunnable(r, pri, t) /\ u = r.schedtsk
  OBVIOUS
<1>1. /\ X \in SUBSET TaskType /\ Sound(r, pri, X) /\ BestChosen(r, pri)
      /\ u # TSKID_NULL => u \in R
  BY <1>0 DEF Consistent
<1>2. t # u /\ t # TSKID_NULL
  BY <1>1, Tables
<1>3. MadeRunnable(m, r, pri, X, t, u)
  BY <1>0, <1>1, <1>2, TaskTable, MakeRunnableFacts
<1>4. X \cup {t} \cup ({u} \ {TSKID_NULL}) = R \cup {t}
  BY <1>0, <1>1, Tables
<1>5. m.schedtsk \in {t, u} /\ (m.schedtsk # TSKID_NULL => m.schedtsk \in R \cup {t})
  BY <1>1, <1>3 DEF MadeRunnable
<1>6. Consistent(m, pri, R \cup {t})
  BY <1>3, <1>4, <1>5 DEF MadeRunnable, Consistent
<1> QED BY <1>0, <1>5, <1>6

\* preempt when the scheduled task has fallen below nextpri.
LEMMA ScheduledYields ==
  ASSUME NEW r, NEW pri \in [TaskType -> Nat], NEW R \in SUBSET TaskType,
         Sound(r, pri, R \ {r.schedtsk}), r.schedtsk \in R, pri[r.schedtsk] < r.nextpri
  PROVE  Consistent(Preempt(r, pri), pri, R)
<1>0. PICK X, m, u, p : X = R \ {r.schedtsk} /\ m = Preempt(r, pri) /\ u = r.schedtsk /\ p = pri[u]
  OBVIOUS
<1>1. X \in SUBSET TaskType /\ u \in TaskType /\ u \notin X /\ p \in Nat
  BY <1>0
<1>2. Preempted(m, r, pri, X, u, p)
  BY <1>0, <1>1, TaskTable, PreemptFacts
<1>3. X \cup {u} = R
  BY <1>0
<1>4. Consistent(m, pri, R)
  BY <1>2, <1>3 DEF Preempted, Consistent
<1> QED BY <1>0, <1>4

--------------------------------------------------------------------------------
\* Consistent is the invariant SchedulerConsistent.
LEMMA Pack ==
  ASSUME DispatchTypes, SchedulerConsistent
  PROVE  Consistent(rdy, tcb_curpri, Runnable) /\ Runnable \in SUBSET TaskType
BY DEF DispatchTypes, SchedulerConsistent, Consistent, Sound, Ready, Runnable

LEMMA Unpack ==
  ASSUME Consistent(rdy', tcb_curpri', Runnable')
  PROVE  SchedulerConsistent' /\ rdy' \in Scheduler
BY DEF SchedulerConsistent, Consistent, Sound, Ready

\* The dispatcher leaves the scheduler data consistent and runs the scheduled task.
LEMMA Dispatched ==
  ASSUME NEW r, NEW pri \in [TaskType -> Nat], NEW pc, NEW R \in SUBSET TaskType,
         Consistent(r, pri, R), StartDispatch(r, pri, pc),
         \A t \in R : pc[t] \in Fresh => pri[t] = tinib_inipri[t]
  PROVE  /\ Consistent(rdy', tcb_curpri', R) /\ tcb_curpri' \in [TaskType -> Nat]
         /\ rdy' = r /\ tcxb_pc' = pc /\ runtsk' = rdy'.schedtsk
         /\ runtsk' \in TaskType \cup {TSKID_NULL}
         /\ callevel' = IF runtsk' = TSKID_NULL THEN "TCL_ISR2" ELSE "TCL_TASK"
         /\ \A t \in TaskType : t # runtsk' => tcb_curpri'[t] = pri[t]
<1>0. PICK s : s = r.schedtsk
  OBVIOUS
<1>1. /\ rdy' = r /\ runtsk' = s /\ tcxb_pc' = pc
      /\ callevel' = IF s = TSKID_NULL THEN "TCL_ISR2" ELSE "TCL_TASK"
      /\ tcb_curpri' = IF s # TSKID_NULL /\ pc[s] \in Fresh
                       THEN [pri EXCEPT ![s] = tinib_exepri[s]] ELSE pri
  BY <1>0 DEF StartDispatch, Fresh
<1>2. /\ s # TSKID_NULL => s \in R
      /\ Sound(r, pri, R \ {s}) /\ BestChosen(r, pri)
  BY <1>0 DEF Consistent
<1>3. CASE s # TSKID_NULL /\ pc[s] \in Fresh
  <2>1. s \in R /\ s \in TaskType /\ pri[s] = tinib_inipri[s] /\ pri[s] <= tinib_exepri[s]
        /\ pri[s] \in Nat /\ tinib_exepri[s] \in Nat
    BY <1>2, <1>3, Tables
  <2>2. /\ tcb_curpri' \in [TaskType -> Nat] /\ tcb_curpri'[s] = tinib_exepri[s]
        /\ \A t \in TaskType : t # s => tcb_curpri'[t] = pri[t]
    BY <1>1, <1>3, <2>1
  <2>3. r.primap # {} => tcb_curpri'[s] >= r.nextpri
    <3> SUFFICES ASSUME r.primap # {} PROVE tcb_curpri'[s] >= r.nextpri
      OBVIOUS
    <3>1. pri[s] >= r.nextpri
      BY <1>0, <1>2, <1>3 DEF BestChosen
    <3>2. r.nextpri \in Nat
      BY <1>2, TaskTable, SchedulerFields DEF Sound
    <3> QED BY <2>1, <2>2, <3>1, <3>2
  <2>4. Consistent(r, tcb_curpri', R)
    BY <1>0, <1>2, <2>1, <2>2, <2>3, Tables, ScheduledPriority
  <2> QED BY <1>0, <1>1, <2>1, <2>2, <2>4
<1>4. CASE ~(s # TSKID_NULL /\ pc[s] \in Fresh)
  BY <1>0, <1>1, <1>2, <1>4
<1> QED BY <1>3, <1>4

\* The invariant after a service that ends in the dispatcher with r, pri and k.
LEMMA AfterDispatch ==
  ASSUME NEW r, NEW pri \in [TaskType -> Nat], NEW k \in [TaskType -> Continuation],
         Consistent(r, pri, Runnable'), StartDispatch(r, pri, k),
         AtInitial(TSKID_NULL, tcb_tstat', pri, k),
         BlockTypes', NoLostWakeup',
         runisr' \in IsrType \cup {0, ISRID_NULL}, isrstk' = << >>, boot' = tnum_task + 1
  PROVE  DispatchInv'
<1>1. Runnable' \in SUBSET TaskType
  BY DEF Runnable
<1>2. \A t \in Runnable' : k[t] \in Fresh => pri[t] = tinib_inipri[t]
  BY Tables DEF Runnable, AtInitial
<1>3. /\ Consistent(rdy', tcb_curpri', Runnable') /\ tcb_curpri' \in [TaskType -> Nat]
      /\ rdy' = r /\ tcxb_pc' = k /\ runtsk' = rdy'.schedtsk
      /\ runtsk' \in TaskType \cup {TSKID_NULL}
      /\ callevel' = IF runtsk' = TSKID_NULL THEN "TCL_ISR2" ELSE "TCL_TASK"
      /\ \A t \in TaskType : t # runtsk' => tcb_curpri'[t] = pri[t]
  BY <1>1, <1>2, Dispatched
<1>4. SchedulerConsistent' /\ rdy' \in Scheduler
  BY <1>3, Unpack
<1>5. DispatchTypes'
  BY <1>3, <1>4 DEF DispatchTypes
<1>6. Context'
  <2>1. boot' \in Int /\ isrstk' \in Seq(Stacked)
    BY Tables
  <2> QED BY <1>3, <2>1 DEF Context
<1>7. Booting'
  BY DEF Booting
<1>8. FreshAtInitial'
  <2>1. runtsk' # TSKID_NULL => tcb_tstat'[runtsk'] = "RUNNABLE"
    BY <1>3 DEF Consistent, Runnable
  <2>2. ASSUME NEW t \in TaskType, t # runtsk', tcb_tstat'[t] # "DORMANT", k[t] \in Fresh
        PROVE  tcb_curpri'[t] = tinib_inipri[t]
    BY <1>3, <2>2, Tables DEF AtInitial
  <2>3. ASSUME NEW t \in TaskType, tcb_tstat'[t] = "WAITING"
        PROVE  tcb_curpri'[t] \in TaskPri
    <3>1. t # runtsk'
      BY <2>1, <2>3, Tables
    <3> QED BY <1>3, <2>3, <3>1 DEF AtInitial
  <2> QED BY <1>3, <2>2, <2>3 DEF FreshAtInitial, AtInitial
<1>9. RunningIsScheduled'
  BY <1>3 DEF RunningIsScheduled, AtTaskLevel
<1> QED BY <1>4, <1>5, <1>6, <1>7, <1>8, <1>9 DEF DispatchInv

\* While a task runs start-up is over, and the task is runnable.
LEMMA AtTask ==
  ASSUME DispatchInv, AtTaskLevel
  PROVE  /\ runtsk = rdy.schedtsk /\ runtsk \in TaskType /\ runtsk \in Runnable
         /\ tcb_tstat[runtsk] = "RUNNABLE"
         /\ isrstk = << >> /\ boot = tnum_task + 1
<1>1. runtsk = rdy.schedtsk /\ runtsk # TSKID_NULL /\ isrstk = << >>
  BY DEF DispatchInv, RunningIsScheduled
<1>2. rdy.schedtsk \in Runnable
  BY <1>1 DEF DispatchInv, SchedulerConsistent
<1>3. boot = tnum_task + 1
  BY DEF DispatchInv, Booting, AtTaskLevel
<1> QED BY <1>1, <1>2, <1>3 DEF Runnable

\* A service that has made the task t runnable and dispatches if it is the better one.
LEMMA DispatchIfBetterStep ==
  ASSUME DispatchInv, MayCall,
         NEW t \in TaskType, NEW pri \in [TaskType -> Nat], NEW k \in [TaskType -> Continuation],
         t \notin Runnable, pri[t] \in TaskPri, \A x \in Runnable : pri[x] = tcb_curpri[x],
         DispatchIfBetter(MakeRunnable(rdy, pri, t), pri, k, t),
         Runnable' = Runnable \cup {t}, AtInitial(runtsk, tcb_tstat', pri, k),
         BlockTypes', NoLostWakeup', UNCHANGED cpu
  PROVE  DispatchInv'
<1>0. PICK r : r = MakeRunnable(rdy, pri, t)
  OBVIOUS
<1>1. Consistent(rdy, pri, Runnable) /\ Runnable \in SUBSET TaskType
  <2>1. Consistent(rdy, tcb_curpri, Runnable) /\ Runnable \in SUBSET TaskType
    BY Pack DEF DispatchInv
  <2> QED BY <2>1, OtherPriorities
<1>2. Consistent(r, pri, Runnable') /\ r.schedtsk \in {t, rdy.schedtsk}
  BY <1>0, <1>1, TaskArrives
<1>3. boot = tnum_task + 1
  BY DEF DispatchInv, Booting, MayCall, AtTaskLevel
<1>4. CASE r.schedtsk = t /\ callevel = "TCL_TASK"
  <2>1. runtsk \in TaskType /\ isrstk' = << >> /\ boot' = tnum_task + 1
        /\ runisr' \in IsrType \cup {0, ISRID_NULL}
    BY <1>3, <1>4, AtTask DEF AtTaskLevel, cpu, DispatchInv, Context
  <2> DEFINE k2 == [k EXCEPT ![runtsk] = "dispatcher_r"]
  <2>2. StartDispatch(r, pri, k2)
    BY <1>0, <1>4 DEF DispatchIfBetter, Dispatch
  <2>3. k2 \in [TaskType -> Continuation] /\ k2[runtsk] \notin Fresh
        /\ \A x \in TaskType : x # runtsk => k2[x] = k[x]
    BY <2>1 DEF Continuation, Fresh
  <2> HIDE DEF k2
  <2>4. AtInitial(TSKID_NULL, tcb_tstat', pri, k2)
    BY <2>3 DEF AtInitial
  <2> QED BY <1>2, <2>1, <2>2, <2>3, <2>4, AfterDispatch
<1>5. CASE ~ (r.schedtsk = t /\ callevel = "TCL_TASK")
  <2>1. rdy' = r /\ tcb_curpri' = pri /\ tcxb_pc' = k /\ UNCHANGED <<runtsk, callevel>>
    BY <1>0, <1>5 DEF DispatchIfBetter
  <2>2. SchedulerConsistent' /\ rdy' \in Scheduler
    BY <1>2, <2>1, Unpack
  <2>3. DispatchTypes'
    BY <2>1, <2>2 DEF DispatchTypes, DispatchInv
  <2>4. Context' /\ Booting'
    BY <1>3, <2>1 DEF DispatchInv, Context, Booting, cpu
  <2>5. FreshAtInitial'
    BY <2>1 DEF FreshAtInitial
  <2>6. RunningIsScheduled'
    BY <1>2, <1>5, <2>1 DEF DispatchInv, RunningIsScheduled, AtTaskLevel, cpu
  <2> QED BY <2>2, <2>3, <2>4, <2>5, <2>6 DEF DispatchInv
<1> QED BY <1>4, <1>5

--------------------------------------------------------------------------------
(* The services *)

LEMMA ActivateDormantStep ==
  ASSUME DispatchInv, NEW t \in TaskType, ActivateDormant(t)
  PROVE  DispatchInv'
<1> DEFINE pri == ActivePri({t})
           k   == ActivePc({t})
<1>1. /\ tcb_tstat \in [TaskType -> TaskState] /\ tcb_curpri \in [TaskType -> Nat]
      /\ tcxb_pc \in [TaskType -> Continuation] /\ tcb_tstat[t] = "DORMANT"
      /\ tcb_tstat' = [tcb_tstat EXCEPT ![t] = "RUNNABLE"]
      /\ DispatchIfBetter(MakeRunnable(rdy, pri, t), pri, k, t)
      /\ ResetTasks({t}) /\ UNCHANGED <<rescb, cpu>> /\ MayCall
  BY DEF DispatchInv, BlockTypes, DispatchTypes, ActivateDormant
<1>2. pri \in [TaskType -> Nat] /\ pri[t] = tinib_inipri[t] /\ pri[t] \in TaskPri
      /\ \A x \in TaskType : x # t => pri[x] = tcb_curpri[x]
  BY <1>1, Tables DEF ActivePri
<1>3. k \in [TaskType -> Continuation] /\ \A x \in TaskType : x # t => k[x] = tcxb_pc[x]
  BY <1>1 DEF ActivePc, Continuation
<1> HIDE DEF pri, k
<1>4. t \notin Runnable /\ Runnable' = Runnable \cup {t} /\ \A x \in Runnable : pri[x] = tcb_curpri[x]
  BY <1>1, <1>2 DEF Runnable
<1>5. AtInitial(runtsk, tcb_tstat', pri, k)
  BY <1>1, <1>2, <1>3 DEF AtInitial, FreshAtInitial, DispatchInv
<1>6. BlockTypes'
  BY <1>1 DEF BlockTypes, DispatchInv, TaskState, ResetTasks, EVTMASK_NONE, rescb
<1>7. NoLostWakeup'
  BY <1>1 DEF NoLostWakeup, DispatchInv, ResetTasks, TaskType, ExtTask
<1> QED BY <1>1, <1>2, <1>3, <1>4, <1>5, <1>6, <1>7, DispatchIfBetterStep

LEMMA SetEventStep ==
  ASSUME DispatchInv, NEW t \in ExtTask, NEW mask \in Mask, SetEvent(t, mask)
  PROVE  DispatchInv'
<1>1. /\ tcb_tstat \in [TaskType -> TaskState] /\ tcb_curpri \in [TaskType -> Nat]
      /\ tcxb_pc \in [TaskType -> Continuation]
      /\ tcb_curevt \in [ExtTask -> SUBSET Event] /\ tcb_waievt \in [ExtTask -> SUBSET Event]
      /\ tcb_curevt' = [tcb_curevt EXCEPT ![t] = @ \cup mask]
      /\ UNCHANGED <<rescb, cpu>> /\ MayCall /\ mask \in SUBSET Event
  BY DEF DispatchInv, BlockTypes, DispatchTypes, SetEvent, Mask
<1>2. t \in TaskType
  BY TaskTable DEF TaskType, ExtTask
<1>3. tcb_curevt' \in [ExtTask -> SUBSET Event]
  BY <1>1
<1>4. CASE tcb_curevt'[t] \cap tcb_waievt[t] # EVTMASK_NONE
  <2>1. /\ tcb_waievt' = [tcb_waievt EXCEPT ![t] = EVTMASK_NONE]
        /\ tcb_tstat' = [tcb_tstat EXCEPT ![t] = "RUNNABLE"]
        /\ DispatchIfBetter(MakeRunnable(rdy, tcb_curpri, t), tcb_curpri, tcxb_pc, t)
    BY <1>4 DEF SetEvent
  <2>2. tcb_tstat[t] = "WAITING"
    BY <1>4 DEF DispatchInv, NoLostWakeup, EVTMASK_NONE
  <2>3. t \notin Runnable /\ Runnable' = Runnable \cup {t} /\ tcb_curpri[t] \in TaskPri
    BY <1>1, <1>2, <2>1, <2>2 DEF Runnable, DispatchInv, FreshAtInitial, AtInitial
  <2>4. AtInitial(runtsk, tcb_tstat', tcb_curpri, tcxb_pc)
    BY <1>1, <1>2, <2>1, <2>2 DEF AtInitial, FreshAtInitial, DispatchInv
  <2>5. BlockTypes'
    BY <1>1, <1>3, <2>1 DEF BlockTypes, DispatchInv, TaskState, EVTMASK_NONE, rescb
  <2>6. NoLostWakeup'
    <3> SUFFICES ASSUME NEW x \in ExtTask
                 PROVE  IF tcb_tstat'[x] = "WAITING"
                        THEN tcb_waievt'[x] # {} /\ tcb_curevt'[x] \cap tcb_waievt'[x] = {}
                        ELSE tcb_waievt'[x] = {}
      BY DEF NoLostWakeup, EVTMASK_NONE
    <3>1. x \in TaskType
      BY TaskTable DEF TaskType, ExtTask
    <3>2. CASE x = t
      BY <1>1, <1>2, <2>1, <3>2 DEF EVTMASK_NONE
    <3>3. CASE x # t
      BY <1>1, <1>2, <2>1, <3>1, <3>3 DEF NoLostWakeup, DispatchInv, EVTMASK_NONE
    <3> QED BY <3>2, <3>3
  <2> QED BY <1>1, <1>2, <2>1, <2>3, <2>4, <2>5, <2>6, DispatchIfBetterStep
<1>5. CASE tcb_curevt'[t] \cap tcb_waievt[t] = EVTMASK_NONE
  <2>1. UNCHANGED <<tcb_waievt, tcb_tstat, rdy, tcb_curpri, tcxb_pc, runtsk, callevel>>
    BY <1>5 DEF SetEvent
  <2>2. NoLostWakeup'
    BY <1>1, <1>5, <2>1 DEF NoLostWakeup, DispatchInv, EVTMASK_NONE
  <2>3. BlockTypes' /\ DispatchTypes' /\ Context' /\ Booting' /\ FreshAtInitial'
    BY <1>1, <1>3, <2>1 DEF BlockTypes, DispatchTypes, Context, Booting, FreshAtInitial,
                            DispatchInv, cpu, rescb
  <2>4. RunningIsScheduled' /\ SchedulerConsistent'
    BY <1>1, <2>1 DEF RunningIsScheduled, SchedulerConsistent, DispatchInv, AtTaskLevel,
                      Ready, Runnable, cpu
  <2> QED BY <2>2, <2>3, <2>4 DEF DispatchInv
<1> QED BY <1>4, <1>5

\* TerminateTask and ChainTask: the running task ends.
LEMMA EndTaskStep ==
  ASSUME DispatchInv, AtTaskLevel, NEW again \in BOOLEAN, NEW t \in TaskType \cup {TSKID_NULL},
         t # TSKID_NULL => t # runtsk /\ tcb_tstat[t] = "DORMANT",
         EndTask(again, t)
  PROVE  DispatchInv'
<1> DEFINE new == {x \in TaskType : x = t \/ (again /\ x = runtsk)}
           pri == ActivePri(new)
           k   == ActivePc(new)
<1>0. PICK r0, r1, r2 :
        /\ r0 = SearchSchedtsk(rdy)
        /\ r1 = IF again THEN MakeRunnable(r0, pri, runtsk) ELSE r0
        /\ r2 = IF t # TSKID_NULL THEN MakeRunnable(r1, pri, t) ELSE r1
  OBVIOUS
<1>1. /\ tcb_tstat' = [x \in TaskType |-> IF x \in new THEN "RUNNABLE"
                                          ELSE IF x = runtsk THEN "DORMANT" ELSE tcb_tstat[x]]
      /\ ResetTasks(new) /\ StartDispatch(r2, pri, k) /\ UNCHANGED <<rescb, cpu>>
  BY <1>0 DEF EndTask
<1>2. /\ tcb_tstat \in [TaskType -> TaskState] /\ tcb_curpri \in [TaskType -> Nat]
      /\ tcxb_pc \in [TaskType -> Continuation]
  BY DEF DispatchInv, BlockTypes, DispatchTypes
<1>3. /\ pri \in [TaskType -> Nat]
      /\ \A x \in new : pri[x] = tinib_inipri[x] /\ pri[x] \in TaskPri
      /\ \A x \in TaskType : x \notin new => pri[x] = tcb_curpri[x]
  BY <1>2, Tables DEF ActivePri
<1>4. k \in [TaskType -> Continuation] /\ \A x \in TaskType : x \notin new => k[x] = tcxb_pc[x]
  BY <1>2 DEF ActivePc, Continuation
<1>5. /\ runtsk = rdy.schedtsk /\ runtsk \in TaskType /\ runtsk \in Runnable
      /\ tcb_tstat[runtsk] = "RUNNABLE" /\ isrstk = << >> /\ boot = tnum_task + 1
  BY AtTask
<1>6. /\ new \in SUBSET TaskType /\ (runtsk \in new <=> again)
      /\ t # TSKID_NULL => t \in new /\ t \in TaskType /\ t \notin Runnable
      /\ \A x \in new : x = t \/ x = runtsk
  BY <1>5, Tables DEF Runnable
<1> HIDE DEF new, pri, k
<1>7. PICK R1 : R1 = IF again THEN Runnable ELSE Runnable \ {runtsk}
  OBVIOUS
<1>8. Consistent(r0, pri, Runnable \ {runtsk}) /\ Runnable \in SUBSET TaskType
  <2>1. Consistent(rdy, tcb_curpri, Runnable) /\ Runnable \in SUBSET TaskType
    BY Pack DEF DispatchInv
  <2>2. Consistent(r0, tcb_curpri, Runnable \ {runtsk})
    BY <1>0, <1>2, <1>5, <2>1, ScheduledLeaves
  <2>3. \A x \in Runnable \ {runtsk} : pri[x] = tcb_curpri[x]
    <3> SUFFICES ASSUME NEW x \in Runnable \ {runtsk} PROVE x \notin new
      BY <1>3, <2>1
    <3>1. x # TSKID_NULL
      BY <2>1, Tables
    <3> QED BY <1>6, <3>1
  <2>4. Runnable \ {runtsk} \in SUBSET TaskType
    BY <2>1
  <2> QED BY <2>1, <2>2, <2>3, <2>4, OtherPriorities
<1>9. Consistent(r1, pri, R1) /\ R1 \in SUBSET TaskType
  <2>1. CASE again
    <3>1. PICK X : X = Runnable \ {runtsk}
      OBVIOUS
    <3>2. X \in SUBSET TaskType /\ runtsk \notin X /\ X \cup {runtsk} = R1 /\ pri[runtsk] \in TaskPri
      BY <1>3, <1>5, <1>6, <1>7, <1>8, <2>1, <3>1
    <3>3. Consistent(MakeRunnable(r0, pri, runtsk), pri, X \cup {runtsk})
      BY <1>3, <1>5, <1>8, <3>1, <3>2, TaskArrives
    <3> QED BY <1>0, <1>7, <1>8, <2>1, <3>2, <3>3
  <2>2. CASE ~ again
    BY <1>0, <1>7, <1>8, <2>2
  <2> QED BY <2>1, <2>2
<1>10. Consistent(r2, pri, Runnable')
  <2>1. Runnable' = R1 \cup ({t} \ {TSKID_NULL})
    <3>1. Runnable' = new \cup (Runnable \ {runtsk})
      BY <1>1, <1>6 DEF Runnable
    <3>2. new = IF again THEN {runtsk} \cup ({t} \ {TSKID_NULL}) ELSE {t} \ {TSKID_NULL}
      <4>1. TSKID_NULL \notin new
        BY <1>6, Tables
      <4> QED BY <1>5, <1>6, <4>1
    <3> QED BY <1>5, <1>7, <3>1, <3>2
  <2>2. CASE t = TSKID_NULL
    BY <1>0, <1>9, <2>1, <2>2
  <2>3. CASE t # TSKID_NULL
    <3>1. t \in TaskType /\ t \notin R1 /\ pri[t] \in TaskPri
      BY <1>3, <1>6, <1>7, <1>8, <2>3
    <3>2. Consistent(MakeRunnable(r1, pri, t), pri, R1 \cup {t})
      BY <1>3, <1>9, <3>1, TaskArrives
    <3> QED BY <1>0, <2>1, <2>3, <3>2
  <2> QED BY <2>2, <2>3
<1>11. AtInitial(TSKID_NULL, tcb_tstat', pri, k)
  <2> SUFFICES ASSUME NEW x \in TaskType
               PROVE  /\ tcb_tstat'[x] # "DORMANT" /\ k[x] \in Fresh => pri[x] = tinib_inipri[x]
                      /\ tcb_tstat'[x] = "WAITING" => pri[x] \in TaskPri
    BY DEF AtInitial
  <2>1. CASE x \in new
    BY <1>3, <2>1
  <2>2. CASE x \notin new
    <3>1. pri[x] = tcb_curpri[x] /\ k[x] = tcxb_pc[x]
          /\ tcb_tstat'[x] = IF x = runtsk THEN "DORMANT" ELSE tcb_tstat[x]
      BY <1>1, <1>3, <1>4, <2>2
    <3>2. /\ x # runtsk /\ tcb_tstat[x] # "DORMANT" /\ tcxb_pc[x] \in Fresh
                => tcb_curpri[x] = tinib_inipri[x]
          /\ tcb_tstat[x] = "WAITING" => tcb_curpri[x] \in TaskPri
      BY DEF DispatchInv, FreshAtInitial, AtInitial
    <3> QED BY <3>1, <3>2
  <2> QED BY <2>1, <2>2
<1>12. BlockTypes'
  BY <1>1, <1>2 DEF BlockTypes, DispatchInv, TaskState, ResetTasks, EVTMASK_NONE, rescb
<1>13. NoLostWakeup'
  <2> SUFFICES ASSUME NEW x \in ExtTask
               PROVE  IF tcb_tstat'[x] = "WAITING"
                      THEN tcb_waievt'[x] # EVTMASK_NONE
                           /\ tcb_curevt'[x] \cap tcb_waievt'[x] = EVTMASK_NONE
                      ELSE tcb_waievt'[x] = EVTMASK_NONE
    BY DEF NoLostWakeup
  <2>1. x \in TaskType
    BY TaskTable DEF TaskType, ExtTask
  <2>2. CASE x \in new
    BY <1>1, <2>1, <2>2 DEF ResetTasks
  <2>3. CASE x \notin new
    <3>1. /\ tcb_waievt'[x] = tcb_waievt[x] /\ tcb_curevt'[x] = tcb_curevt[x]
          /\ tcb_tstat'[x] = IF x = runtsk THEN "DORMANT" ELSE tcb_tstat[x]
      BY <1>1, <2>1, <2>3 DEF ResetTasks
    <3> QED BY <1>5, <3>1 DEF DispatchInv, NoLostWakeup
  <2> QED BY <2>2, <2>3
<1>14. isrstk' = << >> /\ boot' = tnum_task + 1 /\ runisr' \in IsrType \cup {0, ISRID_NULL}
  BY <1>1, <1>5 DEF cpu, DispatchInv, Context
<1> QED BY <1>1, <1>3, <1>4, <1>10, <1>11, <1>12, <1>13, <1>14, AfterDispatch

LEMMA ScheduleStep ==
  ASSUME DispatchInv, Schedule
  PROVE  DispatchInv'
<1> DEFINE pri == [tcb_curpri EXCEPT ![runtsk] = tinib_inipri[runtsk]]
           k   == [tcxb_pc EXCEPT ![runtsk] = "dispatcher_r_exepri"]
           r   == Preempt(rdy, pri)
<1>1. /\ runtsk = rdy.schedtsk /\ runtsk \in TaskType /\ runtsk \in Runnable
      /\ tcb_tstat[runtsk] = "RUNNABLE" /\ isrstk = << >> /\ boot = tnum_task + 1
  BY AtTask DEF Schedule
<1>2. /\ tcb_curpri \in [TaskType -> Nat] /\ tcxb_pc \in [TaskType -> Continuation]
      /\ Consistent(rdy, tcb_curpri, Runnable) /\ Runnable \in SUBSET TaskType
  BY Pack DEF DispatchInv, DispatchTypes
<1>3. StartDispatch(r, pri, k) /\ tinib_inipri[runtsk] < rdy.nextpri
      /\ UNCHANGED <<tcb_tstat, tcb_curevt, tcb_waievt, rescb, cpu>>
  BY DEF Schedule, Dispatch
<1>4. /\ pri \in [TaskType -> Nat] /\ pri[runtsk] = tinib_inipri[runtsk]
      /\ \A x \in TaskType : x # runtsk => pri[x] = tcb_curpri[x]
  BY <1>1, <1>2, Tables
<1>5. /\ k \in [TaskType -> Continuation]
      /\ \A x \in TaskType : x # runtsk => k[x] = tcxb_pc[x]
  BY <1>1, <1>2 DEF Continuation
<1> HIDE DEF pri, k
<1>6. Consistent(r, pri, Runnable')
  <2>1. PICK X : X = Runnable
    OBVIOUS
  <2>2. Sound(rdy, pri, X \ {rdy.schedtsk})
    <3>1. \A x \in X \ {rdy.schedtsk} : pri[x] = tcb_curpri[x]
      BY <1>1, <1>2, <1>4, <2>1
    <3> QED BY <1>2, <2>1, <3>1, SoundOther DEF Consistent
  <2>3. Consistent(r, pri, X)
    BY <1>1, <1>2, <1>3, <1>4, <2>1, <2>2, ScheduledYields
  <2>4. Runnable' = X
    BY <1>3, <2>1 DEF Runnable
  <2> QED BY <2>3, <2>4
<1>7. AtInitial(TSKID_NULL, tcb_tstat', pri, k)
  BY <1>1, <1>3, <1>4, <1>5, Tables DEF AtInitial, FreshAtInitial, DispatchInv
<1>8. BlockTypes' /\ NoLostWakeup'
  BY <1>3 DEF DispatchInv, BlockTypes, NoLostWakeup, rescb
<1>9. isrstk' = << >> /\ boot' = tnum_task + 1 /\ runisr' \in IsrType \cup {0, ISRID_NULL}
  BY <1>1, <1>3 DEF cpu, DispatchInv, Context
<1> HIDE DEF r
<1> QED BY <1>3, <1>4, <1>5, <1>6, <1>7, <1>8, <1>9, AfterDispatch

\* GetResource raises the running task, which stays the one chosen.
LEMMA GetResourceStep ==
  ASSUME DispatchInv, NEW res \in ResourceType, GetResource(res)
  PROVE  DispatchInv'
<1> DEFINE pri == [tcb_curpri EXCEPT ![runtsk] = RaisedPri(@, res)]
<1>1. /\ runtsk = rdy.schedtsk /\ runtsk \in TaskType /\ runtsk \in Runnable
      /\ tcb_tstat[runtsk] = "RUNNABLE"
  BY AtTask DEF GetResource
<1>2. /\ tcb_curpri \in [TaskType -> Nat] /\ rescb_prevpri \in [ResourceType -> Nat]
      /\ Consistent(rdy, tcb_curpri, Runnable) /\ Runnable \in SUBSET TaskType
  BY Pack DEF DispatchInv, DispatchTypes, BlockTypes
<1>3. /\ tcb_curpri' = pri /\ rescb_prevpri' = [rescb_prevpri EXCEPT ![res] = tcb_curpri[runtsk]]
      /\ UNCHANGED <<rdy, runtsk, tcb_tstat, tcb_curevt, tcb_waievt, tcxb_pc, callevel, cpu>>
  BY DEF GetResource
<1>4. /\ pri \in [TaskType -> Nat] /\ pri[runtsk] >= tcb_curpri[runtsk]
      /\ \A x \in TaskType : x # runtsk => pri[x] = tcb_curpri[x]
  BY <1>1, <1>2, Tables DEF RaisedPri
<1>5. rescb_prevpri' \in [ResourceType -> Nat]
  BY <1>1, <1>2, <1>3
<1> HIDE DEF pri
<1>6. Consistent(rdy', tcb_curpri', Runnable')
  <2>1. PICK X : X = Runnable
    OBVIOUS
  <2>2. rdy.primap # {} => pri[rdy.schedtsk] >= rdy.nextpri
    <3>1. rdy.nextpri \in Nat
      BY <1>2, TaskTable, SchedulerFields DEF Consistent, Sound
    <3>2. rdy.schedtsk # TSKID_NULL
      BY <1>1, Tables
    <3>3. rdy.primap # {} => tcb_curpri[rdy.schedtsk] >= rdy.nextpri
      BY <1>2, <3>2 DEF Consistent, BestChosen
    <3>4. pri[rdy.schedtsk] \in Nat /\ tcb_curpri[rdy.schedtsk] \in Nat
      BY <1>1, <1>2, <1>4
    <3> QED BY <1>1, <1>4, <3>1, <3>3, <3>4
  <2>3. \A t \in X : t # rdy.schedtsk => pri[t] = tcb_curpri[t]
    BY <1>1, <1>2, <1>4, <2>1
  <2>4. Consistent(rdy, pri, X)
    BY <1>1, <1>2, <2>1, <2>2, <2>3, Tables, ScheduledPriority DEF Consistent
  <2>5. Runnable' = X
    BY <1>3, <2>1 DEF Runnable
  <2> QED BY <1>3, <2>4, <2>5
<1>7. FreshAtInitial'
  <2>1. \A x \in TaskType : tcb_tstat[x] = "WAITING" => x # runtsk
    BY <1>1
  <2> QED BY <1>3, <1>4, <2>1 DEF FreshAtInitial, AtInitial, DispatchInv
<1>8. BlockTypes' /\ DispatchTypes' /\ NoLostWakeup' /\ Context' /\ Booting'
  BY <1>3, <1>4, <1>5 DEF DispatchInv, BlockTypes, DispatchTypes, NoLostWakeup, Context,
                         Booting, cpu
<1>9. RunningIsScheduled'
  BY <1>3 DEF DispatchInv, RunningIsScheduled, AtTaskLevel, cpu
<1> QED BY <1>6, <1>7, <1>8, <1>9, Unpack DEF DispatchInv

LEMMA ReleaseResourceStep ==
  ASSUME DispatchInv, NEW res \in ResourceType, ReleaseResource(res)
  PROVE  DispatchInv'
<1> DEFINE pri == [tcb_curpri EXCEPT ![runtsk] = RestoredPri(res)]
           k   == [tcxb_pc EXCEPT ![runtsk] = "dispatcher_r"]
           r   == Preempt(rdy, pri)
<1>1. /\ runtsk = rdy.schedtsk /\ runtsk \in TaskType /\ runtsk \in Runnable
      /\ tcb_tstat[runtsk] = "RUNNABLE" /\ isrstk = << >> /\ boot = tnum_task + 1
  BY AtTask DEF ReleaseResource
<1>2. /\ tcb_curpri \in [TaskType -> Nat] /\ tcxb_pc \in [TaskType -> Continuation]
      /\ rescb_prevpri \in [ResourceType -> Nat]
      /\ Consistent(rdy, tcb_curpri, Runnable) /\ Runnable \in SUBSET TaskType
  BY Pack DEF DispatchInv, DispatchTypes, BlockTypes
<1>3. /\ IF pri[runtsk] < rdy.nextpri THEN StartDispatch(r, pri, k)
         ELSE tcb_curpri' = pri /\ UNCHANGED <<rdy, runtsk, tcxb_pc, callevel>>
      /\ rescb_prevpri' = [rescb_prevpri EXCEPT ![res] = TPRI_NULL]
      /\ UNCHANGED <<tcb_tstat, tcb_curevt, tcb_waievt, cpu>>
  BY DEF ReleaseResource, Dispatch
<1>4. /\ pri \in [TaskType -> Nat] /\ \A x \in TaskType : x # runtsk => pri[x] = tcb_curpri[x]
  BY <1>1, <1>2 DEF RestoredPri
<1>5. /\ k \in [TaskType -> Continuation] /\ k[runtsk] \notin Fresh
      /\ \A x \in TaskType : x # runtsk => k[x] = tcxb_pc[x]
  BY <1>1, <1>2 DEF Continuation, Fresh
<1>6. rescb_prevpri' \in [ResourceType -> Nat]
  BY <1>2, <1>3 DEF TPRI_NULL
<1> HIDE DEF pri, k
<1>7. PICK X : X = Runnable
  OBVIOUS
<1>8. /\ Sound(rdy, pri, X \ {rdy.schedtsk}) /\ Runnable' = X
      /\ X \in SUBSET TaskType /\ rdy.schedtsk \in X
  <2>1. \A x \in X \ {rdy.schedtsk} : pri[x] = tcb_curpri[x]
    BY <1>1, <1>2, <1>4, <1>7
  <2>2. Sound(rdy, pri, X \ {rdy.schedtsk})
    BY <1>2, <1>7, <2>1, SoundOther DEF Consistent
  <2> QED BY <1>1, <1>2, <1>3, <1>7, <2>2 DEF Runnable
<1>9. BlockTypes' /\ NoLostWakeup'
  BY <1>3, <1>6 DEF DispatchInv, BlockTypes, NoLostWakeup
<1>10. CASE pri[runtsk] < rdy.nextpri
  <2>1. Consistent(r, pri, Runnable')
    BY <1>1, <1>4, <1>8, <1>10, ScheduledYields
  <2>2. AtInitial(TSKID_NULL, tcb_tstat', pri, k)
    BY <1>1, <1>3, <1>4, <1>5 DEF AtInitial, FreshAtInitial, DispatchInv
  <2>3. isrstk' = << >> /\ boot' = tnum_task + 1 /\ runisr' \in IsrType \cup {0, ISRID_NULL}
    BY <1>1, <1>3 DEF cpu, DispatchInv, Context
  <2> HIDE DEF r
  <2> QED BY <1>3, <1>4, <1>5, <1>9, <1>10, <2>1, <2>2, <2>3, AfterDispatch
<1>11. CASE ~ (pri[runtsk] < rdy.nextpri)
  <2>1. tcb_curpri' = pri /\ UNCHANGED <<rdy, runtsk, tcxb_pc, callevel>>
    BY <1>3, <1>11
  <2>2. rdy.primap # {} => pri[rdy.schedtsk] >= rdy.nextpri
    <3>1. rdy.nextpri \in Nat
      BY <1>2, TaskTable, SchedulerFields DEF Consistent, Sound
    <3> QED BY <1>1, <1>4, <1>11, <3>1
  <2>3. \A t \in X : t # rdy.schedtsk => pri[t] = tcb_curpri[t]
    BY <1>1, <1>4, <1>8
  <2>4. Consistent(rdy', tcb_curpri', Runnable')
    <3>1. TSKID_NULL \notin X
      BY <1>8, Tables
    <3>2. Consistent(rdy, pri, X)
      BY <1>8, <2>2, <2>3, <3>1, ScheduledPriority
    <3> QED BY <1>8, <2>1, <3>2
  <2>5. FreshAtInitial'
    <3>1. \A x \in TaskType : tcb_tstat[x] = "WAITING" => x # runtsk
      BY <1>1
    <3> QED BY <1>3, <1>4, <2>1, <3>1 DEF FreshAtInitial, AtInitial, DispatchInv
  <2>6. DispatchTypes' /\ Context' /\ Booting'
    BY <1>3, <1>4, <2>1 DEF DispatchInv, DispatchTypes, Context, Booting, cpu
  <2>7. RunningIsScheduled'
    BY <1>3, <2>1 DEF DispatchInv, RunningIsScheduled, AtTaskLevel, cpu
  <2> QED BY <1>9, <2>4, <2>5, <2>6, <2>7, Unpack DEF DispatchInv
<1> QED BY <1>10, <1>11

LEMMA ClearEventStep ==
  ASSUME DispatchInv, NEW mask \in Mask, ClearEvent(mask)
  PROVE  DispatchInv'
<1>1. /\ runtsk \in ExtTask /\ tcb_tstat[runtsk] = "RUNNABLE"
      /\ tcb_curevt \in [ExtTask -> SUBSET Event]
      /\ tcb_curevt' = [tcb_curevt EXCEPT ![runtsk] = @ \ mask]
      /\ UNCHANGED <<rdy, runtsk, tcb_tstat, tcb_curpri, tcb_waievt, tcxb_pc, rescb,
                     callevel, cpu>>
  BY AtTask DEF ClearEvent, DispatchInv, BlockTypes
<1>2. tcb_curevt' \in [ExtTask -> SUBSET Event]
  BY <1>1
<1>3. NoLostWakeup'
  BY <1>1 DEF DispatchInv, NoLostWakeup
<1>4. BlockTypes' /\ DispatchTypes' /\ Context' /\ Booting' /\ FreshAtInitial'
  BY <1>1, <1>2 DEF BlockTypes, DispatchTypes, Context, Booting, FreshAtInitial,
                    DispatchInv, cpu, rescb
<1>5. RunningIsScheduled' /\ SchedulerConsistent'
  BY <1>1 DEF RunningIsScheduled, SchedulerConsistent, DispatchInv, AtTaskLevel,
              Ready, Runnable, cpu
<1> QED BY <1>3, <1>4, <1>5 DEF DispatchInv

LEMMA WaitEventStep ==
  ASSUME DispatchInv, NEW mask \in Mask, WaitEvent(mask)
  PROVE  DispatchInv'
<1> DEFINE pri == [tcb_curpri EXCEPT ![runtsk] = tinib_inipri[runtsk]]
           k   == [tcxb_pc EXCEPT ![runtsk] = "dispatcher_r_exepri"]
<1>0. PICK r : r = SearchSchedtsk(rdy)
  OBVIOUS
<1>1. /\ runtsk = rdy.schedtsk /\ runtsk \in TaskType /\ runtsk \in Runnable
      /\ tcb_tstat[runtsk] = "RUNNABLE" /\ isrstk = << >> /\ boot = tnum_task + 1
  BY AtTask DEF WaitEvent
<1>2. /\ tcb_curpri \in [TaskType -> Nat] /\ tcxb_pc \in [TaskType -> Continuation]
      /\ tcb_tstat \in [TaskType -> TaskState] /\ tcb_waievt \in [ExtTask -> SUBSET Event]
      /\ Consistent(rdy, tcb_curpri, Runnable) /\ Runnable \in SUBSET TaskType
  BY Pack DEF DispatchInv, DispatchTypes, BlockTypes
<1>3. /\ StartDispatch(r, pri, k)
      /\ tcb_tstat' = [tcb_tstat EXCEPT ![runtsk] = "WAITING"]
      /\ tcb_waievt' = [tcb_waievt EXCEPT ![runtsk] = mask]
      /\ tcb_curevt[runtsk] \cap mask = EVTMASK_NONE /\ runtsk \in ExtTask
      /\ mask # EVTMASK_NONE /\ mask \in SUBSET Event
      /\ UNCHANGED <<tcb_curevt, rescb, cpu>>
  BY <1>0 DEF WaitEvent, Dispatch, NoneSet, Mask
<1>4. /\ pri \in [TaskType -> Nat] /\ pri[runtsk] = tinib_inipri[runtsk]
      /\ \A x \in TaskType : x # runtsk => pri[x] = tcb_curpri[x]
  BY <1>1, <1>2, Tables
<1>5. /\ k \in [TaskType -> Continuation]
      /\ \A x \in TaskType : x # runtsk => k[x] = tcxb_pc[x]
  BY <1>1, <1>2 DEF Continuation
<1> HIDE DEF pri, k
<1>6. Consistent(r, pri, Runnable')
  <2>1. PICK X : X = Runnable \ {runtsk}
    OBVIOUS
  <2>2. Consistent(r, tcb_curpri, X)
    BY <1>0, <1>1, <1>2, <2>1, ScheduledLeaves
  <2>3. X \in SUBSET TaskType /\ \A x \in X : pri[x] = tcb_curpri[x]
    BY <1>2, <1>4, <2>1
  <2>4. Runnable' = X
    BY <1>1, <1>2, <1>3, <2>1 DEF Runnable
  <2> QED BY <2>2, <2>3, <2>4, OtherPriorities
<1>7. AtInitial(TSKID_NULL, tcb_tstat', pri, k)
  <2> SUFFICES ASSUME NEW x \in TaskType
               PROVE  /\ tcb_tstat'[x] # "DORMANT" /\ k[x] \in Fresh => pri[x] = tinib_inipri[x]
                      /\ tcb_tstat'[x] = "WAITING" => pri[x] \in TaskPri
    BY DEF AtInitial
  <2>1. CASE x = runtsk
    BY <1>4, <2>1, Tables
  <2>2. CASE x # runtsk
    BY <1>2, <1>3, <1>4, <1>5, <2>2 DEF AtInitial, FreshAtInitial, DispatchInv
  <2> QED BY <2>1, <2>2
<1>8. BlockTypes'
  BY <1>1, <1>2, <1>3 DEF DispatchInv, BlockTypes, TaskState, rescb
<1>9. NoLostWakeup'
  <2> SUFFICES ASSUME NEW x \in ExtTask
               PROVE  IF tcb_tstat'[x] = "WAITING"
                      THEN tcb_waievt'[x] # EVTMASK_NONE
                           /\ tcb_curevt'[x] \cap tcb_waievt'[x] = EVTMASK_NONE
                      ELSE tcb_waievt'[x] = EVTMASK_NONE
    BY DEF NoLostWakeup
  <2>1. x \in TaskType
    BY TaskTable DEF TaskType, ExtTask
  <2>2. CASE x = runtsk
    BY <1>1, <1>2, <1>3, <2>2
  <2>3. CASE x # runtsk
    BY <1>2, <1>3, <2>1, <2>3 DEF DispatchInv, NoLostWakeup
  <2> QED BY <2>2, <2>3
<1>10. isrstk' = << >> /\ boot' = tnum_task + 1 /\ runisr' \in IsrType \cup {0, ISRID_NULL}
  BY <1>1, <1>3 DEF cpu, DispatchInv, Context
<1> QED BY <1>3, <1>4, <1>5, <1>6, <1>7, <1>8, <1>9, <1>10, AfterDispatch

--------------------------------------------------------------------------------
(* Start-up, interrupts and the idle loop *)

LEMMA InitializeTaskStep ==
  ASSUME DispatchInv, InitializeTask
  PROVE  DispatchInv'
<1>1. /\ boot \in TaskType /\ boot \in Int /\ boot # tnum_task + 1 /\ boot' # tnum_task + 1
      /\ boot' = boot + 1 /\ boot' <= tnum_task /\ 0 <= boot'
      /\ tcb_tstat[boot] = "DORMANT" /\ runtsk = TSKID_NULL
      /\ callevel = "TCL_NULL" /\ isrstk = << >>
      /\ UNCHANGED <<runtsk, rescb, callevel, runisr, isrstk>>
  BY Tables DEF InitializeTask, DispatchInv, Booting, Context, TaskType
<1>2. /\ tcb_tstat \in [TaskType -> TaskState] /\ tcb_curpri \in [TaskType -> Nat]
      /\ tcxb_pc \in [TaskType -> Continuation]
      /\ Consistent(rdy, tcb_curpri, Runnable) /\ Runnable \in SUBSET TaskType
  BY Pack DEF DispatchInv, BlockTypes, DispatchTypes
<1>3. Context' /\ RunningIsScheduled'
  BY <1>1 DEF DispatchInv, Context, RunningIsScheduled, AtTaskLevel
<1>4. ASSUME boot \in Autostart PROVE DispatchInv'
  <2> DEFINE pri == ActivePri({boot})
             k   == ActivePc({boot})
  <2>1. /\ tcb_tstat' = [tcb_tstat EXCEPT ![boot] = "RUNNABLE"] /\ ResetTasks({boot})
        /\ tcb_curpri' = pri /\ tcxb_pc' = k /\ rdy' = MakeRunnable(rdy, pri, boot)
    BY <1>4 DEF InitializeTask
  <2>2. /\ pri \in [TaskType -> Nat] /\ pri[boot] = tinib_inipri[boot] /\ pri[boot] \in TaskPri
        /\ \A x \in TaskType : x # boot => pri[x] = tcb_curpri[x]
    BY <1>1, <1>2, Tables DEF ActivePri
  <2>3. k \in [TaskType -> Continuation] /\ \A x \in TaskType : x # boot => k[x] = tcxb_pc[x]
    BY <1>2 DEF ActivePc, Continuation
  <2> HIDE DEF pri, k
  <2>4. boot \notin Runnable /\ Runnable' = Runnable \cup {boot}
    BY <1>1, <1>2, <2>1 DEF Runnable
  <2>5. Consistent(rdy, pri, Runnable)
    <3>1. \A x \in Runnable : pri[x] = tcb_curpri[x]
      BY <1>2, <2>2, <2>4
    <3> QED BY <1>2, <3>1, OtherPriorities
  <2>6. Consistent(rdy', tcb_curpri', Runnable')
    BY <1>1, <1>2, <2>1, <2>2, <2>4, <2>5, TaskArrives
  <2>7. SchedulerConsistent' /\ rdy' \in Scheduler
    BY <2>6, Unpack
  <2>8. BlockTypes' /\ DispatchTypes'
    BY <1>1, <1>2, <2>1, <2>2, <2>3, <2>7
       DEF BlockTypes, DispatchTypes, DispatchInv, TaskState, ResetTasks, EVTMASK_NONE, rescb
  <2>9. Booting'
    <3>1. \A x \in TaskType : boot + 1 <= x => x # boot /\ boot <= x
      BY <1>1 DEF TaskType
    <3> QED BY <1>1, <1>2, <2>1, <3>1 DEF Booting, DispatchInv
  <2>10. FreshAtInitial'
    BY <1>1, <1>2, <2>1, <2>2, <2>3 DEF FreshAtInitial, AtInitial, DispatchInv
  <2>11. NoLostWakeup'
    BY <1>1, <1>2, <2>1 DEF NoLostWakeup, DispatchInv, ResetTasks, TaskType, ExtTask
  <2> QED BY <1>3, <2>7, <2>8, <2>9, <2>10, <2>11 DEF DispatchInv
<1>5. ASSUME boot \notin Autostart PROVE DispatchInv'
  <2>1. UNCHANGED <<rdy, tcb>>
    BY <1>5 DEF InitializeTask
  <2>2. SchedulerConsistent' /\ NoLostWakeup' /\ FreshAtInitial'
    BY <1>1, <2>1 DEF DispatchInv, SchedulerConsistent, NoLostWakeup, FreshAtInitial, tcb,
                      Ready, Runnable
  <2>3. BlockTypes' /\ DispatchTypes'
    BY <1>1, <2>1 DEF DispatchInv, BlockTypes, DispatchTypes, tcb, rescb
  <2>4. Booting'
    <3>1. \A x \in TaskType : boot + 1 <= x => boot <= x
      BY <1>1 DEF TaskType
    <3> QED BY <1>1, <2>1, <3>1 DEF Booting, DispatchInv, tcb
  <2> QED BY <1>3, <2>2, <2>3, <2>4 DEF DispatchInv
<1> QED BY <1>4, <1>5

\* StartOS and the idle loop call the dispatcher when no task runs.
LEMMA FromIdleStep ==
  ASSUME DispatchInv, StartOS \/ LeaveIdle
  PROVE  DispatchInv'
<1>1. /\ runtsk = TSKID_NULL /\ isrstk = << >> /\ boot' = tnum_task + 1
      /\ StartDispatch(rdy, tcb_curpri, tcxb_pc)
      /\ UNCHANGED <<tcb_tstat, tcb_curevt, tcb_waievt, rescb, runisr, isrstk>>
  BY Tables DEF DispatchInv, Booting, StartOS, LeaveIdle, cpu
<1>2. /\ tcb_curpri \in [TaskType -> Nat] /\ tcxb_pc \in [TaskType -> Continuation]
      /\ Consistent(rdy, tcb_curpri, Runnable)
  BY Pack DEF DispatchInv, DispatchTypes
<1>3. Consistent(rdy, tcb_curpri, Runnable')
  BY <1>1, <1>2 DEF Runnable
<1>4. AtInitial(TSKID_NULL, tcb_tstat', tcb_curpri, tcxb_pc)
  BY <1>1 DEF AtInitial, FreshAtInitial, DispatchInv
<1>5. BlockTypes' /\ NoLostWakeup' /\ runisr' \in IsrType \cup {0, ISRID_NULL}
  BY <1>1 DEF DispatchInv, BlockTypes, NoLostWakeup, Context, rescb
<1> QED BY <1>1, <1>2, <1>3, <1>4, <1>5, AfterDispatch

LEMMA InterruptStep ==
  ASSUME DispatchInv, NEW i \in IsrType, Interrupt(i)
  PROVE  DispatchInv'
<1>1. /\ boot = tnum_task + 1 /\ callevel' = "TCL_ISR2" /\ runisr' = i
      /\ isrstk' = Append(isrstk, [callevel |-> callevel, runisr |-> runisr])
      /\ UNCHANGED <<rdy, runtsk, tcb, rescb, boot>>
  BY DEF Interrupt
<1>2. /\ isrstk \in Seq(Stacked) /\ callevel \in {"TCL_TASK", "TCL_ISR2"}
      /\ runisr \in IsrType \cup {0, ISRID_NULL}
      /\ isrstk # << >> =>
           /\ callevel = "TCL_ISR2"
           /\ isrstk[1].callevel = "TCL_TASK" => runtsk # TSKID_NULL
           /\ \A j \in 2 .. Len(isrstk) : isrstk[j].callevel = "TCL_ISR2"
      /\ callevel = "TCL_TASK" => runtsk # TSKID_NULL
  BY <1>1 DEF DispatchInv, Context, RunningIsScheduled, AtTaskLevel
<1>3. PICK saved \in Stacked : saved = [callevel |-> callevel, runisr |-> runisr]
  BY <1>2 DEF Stacked
<1>4. saved.callevel = callevel
  BY <1>3
<1>5. isrstk' \in Seq(Stacked)
  BY <1>1, <1>2, <1>3
<1>6. isrstk'[1].callevel = "TCL_TASK" => runtsk' # TSKID_NULL
  <2>1. CASE isrstk = << >>
    <3>1. isrstk'[1] = saved
      BY <1>1, <1>2, <1>3, <2>1
    <3> QED BY <1>1, <1>2, <1>4, <3>1
  <2>2. CASE isrstk # << >>
    <3>1. isrstk'[1] = isrstk[1]
      BY <1>1, <1>2, <2>2
    <3> QED BY <1>1, <1>2, <2>2, <3>1
  <2> QED BY <2>1, <2>2
<1>7. ASSUME NEW j \in 2 .. Len(isrstk') PROVE isrstk'[j].callevel = "TCL_ISR2"
  <2>1. Len(isrstk') = Len(isrstk) + 1 /\ Len(isrstk) \in Nat /\ isrstk # << >>
    BY <1>1, <1>2, <1>7
  <2>2. CASE j = Len(isrstk) + 1
    <3>1. isrstk'[j] = saved
      BY <1>1, <1>2, <1>3, <2>1, <2>2
    <3> QED BY <1>2, <1>4, <2>1, <3>1
  <2>3. CASE j # Len(isrstk) + 1
    <3>1. j \in 2 .. Len(isrstk) /\ isrstk'[j] = isrstk[j]
      BY <1>1, <1>2, <1>7, <2>1, <2>3
    <3> QED BY <1>2, <2>1, <3>1
  <2> QED BY <2>2, <2>3
<1>8. Context'
  BY <1>1, <1>5, <1>6, <1>7, Tables DEF Context
<1>9. Booting' /\ RunningIsScheduled'
  BY <1>1 DEF Booting, RunningIsScheduled, AtTaskLevel
<1>10. SchedulerConsistent' /\ NoLostWakeup' /\ FreshAtInitial'
  BY <1>1 DEF DispatchInv, SchedulerConsistent, NoLostWakeup, FreshAtInitial, tcb,
              Ready, Runnable
<1>11. BlockTypes' /\ DispatchTypes'
  BY <1>1 DEF DispatchInv, BlockTypes, DispatchTypes, tcb, rescb
<1> QED BY <1>8, <1>9, <1>10, <1>11 DEF DispatchInv

\* The stack once the context of the innermost handler is taken from it.
LEMMA WithoutLast ==
  ASSUME NEW S, NEW s \in Seq(S), s # << >>
  PROVE  LET p == SubSeq(s, 1, Len(s) - 1) IN
         /\ p \in Seq(S) /\ Len(p) = Len(s) - 1
         /\ \A j \in 1 .. Len(s) - 1 : p[j] = s[j]
         /\ Len(s) = 1 => p = << >>
<1> DEFINE p == SubSeq(s, 1, Len(s) - 1)
<1>1. Len(s) \in Nat /\ 1 <= Len(s) /\ \A j \in 1 .. Len(s) - 1 : s[j] \in S
  OBVIOUS
<1>2. p = [j \in 1 .. Len(s) - 1 |-> s[j]]
  BY <1>1
<1>3. p \in Seq(S)
  BY <1>1, <1>2
<1>4. Len(p) = Len(s) - 1 /\ \A j \in 1 .. Len(s) - 1 : p[j] = s[j]
  <2>1. DOMAIN p = 1 .. Len(s) - 1 /\ \A j \in 1 .. Len(s) - 1 : p[j] = s[j]
    BY <1>2
  <2>2. Len(s) - 1 \in Nat
    BY <1>1
  <2> HIDE DEF p
  <2> QED BY <1>3, <2>1, <2>2
<1>5. Len(s) = 1 => p = << >>
  BY <1>3, <1>4
<1> QED BY <1>3, <1>4, <1>5

LEMMA InterruptReturnStep ==
  ASSUME DispatchInv, InterruptReturn
  PROVE  DispatchInv'
<1> DEFINE n == Len(isrstk)
           k == [tcxb_pc EXCEPT ![runtsk] = "ret_int_r"]
<1>0. PICK top : top = isrstk[n]
  OBVIOUS
<1>1. /\ isrstk \in Seq(Stacked) /\ isrstk # << >> /\ boot = tnum_task + 1
      /\ isrstk[1].callevel = "TCL_TASK" => runtsk # TSKID_NULL
      /\ \A j \in 2 .. n : isrstk[j].callevel = "TCL_ISR2"
  BY DEF DispatchInv, Context, InterruptReturn
<1>2. n \in Nat /\ 1 <= n /\ top \in Stacked
  BY <1>0, <1>1
<1>3. /\ isrstk' = SubSeq(isrstk, 1, n - 1) /\ runisr' = top.runisr
      /\ IF top.callevel = "TCL_TASK" /\ rdy.schedtsk # runtsk
         THEN StartDispatch(rdy, tcb_curpri, k)
         ELSE callevel' = top.callevel /\ UNCHANGED <<rdy, runtsk, tcb_curpri, tcxb_pc>>
      /\ UNCHANGED <<tcb_tstat, tcb_curevt, tcb_waievt, rescb, boot>>
  BY <1>0 DEF InterruptReturn, PreemptsOnReturn, Dispatch
<1>4. /\ isrstk' \in Seq(Stacked) /\ Len(isrstk') = n - 1
      /\ \A j \in 1 .. n - 1 : isrstk'[j] = isrstk[j]
      /\ n = 1 => isrstk' = << >>
  BY <1>1, <1>3, WithoutLast
<1> HIDE DEF n
<1>5. top.callevel = "TCL_TASK" => n = 1 /\ isrstk' = << >> /\ runtsk # TSKID_NULL
  <2> SUFFICES ASSUME top.callevel = "TCL_TASK"
               PROVE  n = 1 /\ isrstk' = << >> /\ runtsk # TSKID_NULL
    OBVIOUS
  <2>1. n = 1
    BY <1>0, <1>1, <1>2
  <2> QED BY <1>0, <1>1, <1>4, <2>1
<1>6. runisr' \in IsrType \cup {0, ISRID_NULL} /\ top.callevel \in {"TCL_TASK", "TCL_ISR2"}
  BY <1>2, <1>3 DEF Stacked
<1>7. BlockTypes' /\ NoLostWakeup' /\ boot' = tnum_task + 1 /\ Runnable' = Runnable
  BY <1>1, <1>3 DEF DispatchInv, BlockTypes, NoLostWakeup, rescb, Runnable
<1>8. /\ tcb_curpri \in [TaskType -> Nat] /\ tcxb_pc \in [TaskType -> Continuation]
      /\ Consistent(rdy, tcb_curpri, Runnable) /\ runtsk \in TaskType \cup {TSKID_NULL}
  BY Pack DEF DispatchInv, DispatchTypes
<1>9. CASE top.callevel = "TCL_TASK" /\ rdy.schedtsk # runtsk
  <2>1. runtsk \in TaskType /\ isrstk' = << >> /\ StartDispatch(rdy, tcb_curpri, k)
    BY <1>3, <1>5, <1>8, <1>9
  <2>2. /\ k \in [TaskType -> Continuation] /\ k[runtsk] \notin Fresh
        /\ \A x \in TaskType : x # runtsk => k[x] = tcxb_pc[x]
    BY <1>8, <2>1 DEF Continuation, Fresh
  <2> HIDE DEF k
  <2>3. AtInitial(TSKID_NULL, tcb_tstat', tcb_curpri, k)
    BY <1>3, <2>2 DEF AtInitial, FreshAtInitial, DispatchInv
  <2> QED BY <1>6, <1>7, <1>8, <2>1, <2>2, <2>3, AfterDispatch
<1>10. CASE ~ (top.callevel = "TCL_TASK" /\ rdy.schedtsk # runtsk)
  <2>1. callevel' = top.callevel /\ UNCHANGED <<rdy, runtsk, tcb_curpri, tcxb_pc>>
    BY <1>3, <1>10
  <2>2. SchedulerConsistent' /\ FreshAtInitial' /\ DispatchTypes'
    BY <1>3, <1>7, <2>1 DEF DispatchInv, SchedulerConsistent, FreshAtInitial, DispatchTypes,
                            Ready
  <2>3. RunningIsScheduled'
    BY <1>5, <1>10, <2>1 DEF RunningIsScheduled, AtTaskLevel
  <2>4. Context'
    <3>1. boot' \in Int
      BY <1>7, Tables
    <3>2. ASSUME isrstk' # << >>
          PROVE  /\ callevel' = "TCL_ISR2"
                 /\ isrstk'[1].callevel = "TCL_TASK" => runtsk' # TSKID_NULL
                 /\ \A j \in 2 .. Len(isrstk') : isrstk'[j].callevel = "TCL_ISR2"
      <4>1. callevel' = "TCL_ISR2"
        BY <1>5, <1>6, <2>1, <3>2
      <4>2. 1 \in 1 .. n - 1
        BY <1>2, <1>4, <3>2
      <4>3. \A j \in 2 .. n - 1 : j \in 1 .. n - 1 /\ j \in 2 .. n
        BY <1>2
      <4> QED BY <1>1, <1>4, <2>1, <4>1, <4>2, <4>3
    <3> QED BY <1>4, <1>6, <1>7, <2>1, <3>1, <3>2 DEF Context
  <2>5. Booting'
    BY <1>7 DEF Booting
  <2> QED BY <1>7, <2>2, <2>3, <2>4, <2>5 DEF DispatchInv
<1> QED BY <1>9, <1>10

\* Recording an activation touches none of this, and neither does a stuttering step.
LEMMA OtherStep ==
  ASSUME DispatchInv,
         UNCHANGED <<rdy, runtsk, tcb_tstat, tcb_curpri, tcb_curevt, tcb_waievt, tcxb_pc,
                     rescb, callevel, cpu>>
  PROVE  DispatchInv'
<1>1. BlockTypes' /\ DispatchTypes' /\ Context' /\ Booting' /\ FreshAtInitial' /\ NoLostWakeup'
  BY DEF BlockTypes, DispatchTypes, Context, Booting, FreshAtInitial, NoLostWakeup,
         DispatchInv, cpu, rescb
<1>2. RunningIsScheduled' /\ SchedulerConsistent'
  BY DEF RunningIsScheduled, SchedulerConsistent, DispatchInv, AtTaskLevel, Ready, Runnable, cpu
<1> QED BY <1>1, <1>2 DEF DispatchInv

--------------------------------------------------------------------------------
(* The theorems *)

LEMMA InitDispatch == Init => DispatchInv
<1> SUFFICES ASSUME Init PROVE DispatchInv
  OBVIOUS
<1>1. rdy = NoTaskReady /\ Runnable = {} /\ Ready = {}
  BY DEF Init, Runnable, Ready
<1>2. /\ rdy.queue = [p \in TaskPri |-> << >>] /\ rdy.primap = {}
      /\ rdy.nextpri = TPRI_MINTASK /\ rdy.schedtsk = TSKID_NULL
  BY <1>1 DEF NoTaskReady
<1>3. rdy \in Scheduler
  <2>1. TPRI_MINTASK \in TaskPri
    BY TaskTable, SchedulerFields
  <2> QED BY <1>1, <2>1 DEF NoTaskReady, Scheduler
<1>4. SchedulerConsistent
  <2>1. \A p \in TaskPri : rdy.queue[p] = << >>
    BY <1>2
  <2>2. Elements(<< >>) = {} /\ Distinct(<< >>)
    BY DEF Elements, Distinct
  <2>3. QueuesHold(rdy.queue, tcb_curpri, Ready)
    BY <1>1, <2>1, <2>2 DEF QueuesHold
  <2>4. MapExact(rdy) /\ BestChosen(rdy, tcb_curpri)
    BY <1>2, <2>1 DEF MapExact, BestChosen
  <2> QED BY <1>2, <2>3, <2>4 DEF SchedulerConsistent
<1>5. BlockTypes /\ DispatchTypes
  BY <1>3 DEF Init, BlockTypes, DispatchTypes, TaskState, Continuation, EVTMASK_NONE,
              TPRI_NULL, TPRI_MINTASK
<1>6. Context /\ Booting
  BY Tables DEF Init, Context, Booting
<1>7. FreshAtInitial
  BY DEF Init, FreshAtInitial, AtInitial
<1>8. RunningIsScheduled /\ NoLostWakeup
  BY TaskTable DEF Init, RunningIsScheduled, AtTaskLevel, NoLostWakeup, EVTMASK_NONE, TaskType, ExtTask
<1> QED BY <1>4, <1>5, <1>6, <1>7, <1>8 DEF DispatchInv

LEMMA NextDispatch == DispatchInv /\ [Next]_vars => DispatchInv'
<1> SUFFICES ASSUME DispatchInv, [Next]_vars PROVE DispatchInv'
  OBVIOUS
<1>1. CASE InitializeTask
  BY <1>1, InitializeTaskStep
<1>2. CASE StartOS \/ LeaveIdle
  BY <1>2, FromIdleStep
<1>3. ASSUME NEW t \in TaskType, ActivateTask(t) PROVE DispatchInv'
  <2>1. CASE ActivateDormant(t)
    BY <2>1, ActivateDormantStep
  <2>2. CASE ActivateAgain(t)
    BY <2>2, OtherStep DEF ActivateAgain
  <2> QED BY <1>3, <2>1, <2>2 DEF ActivateTask
<1>4. CASE TerminateTask
  <2>1. AtTaskLevel /\ EndTask(tcb_actcnt[runtsk] > 0, TSKID_NULL)
    BY <1>4 DEF TerminateTask
  <2>2. (tcb_actcnt[runtsk] > 0) \in BOOLEAN
    OBVIOUS
  <2> QED BY <2>1, <2>2, EndTaskStep
<1>5. CASE ChainSelf
  BY <1>5, EndTaskStep DEF ChainSelf
<1>6. ASSUME NEW t \in TaskType, ChainOther(t) PROVE DispatchInv'
  <2>1. PICK x : x = IF tcb_tstat[t] = "DORMANT" THEN t ELSE TSKID_NULL
    OBVIOUS
  <2>2. x \in TaskType \cup {TSKID_NULL}
        /\ (x # TSKID_NULL => x # runtsk /\ tcb_tstat[x] = "DORMANT")
    BY <1>6, <2>1 DEF ChainOther
  <2>3. AtTaskLevel /\ EndTask(tcb_actcnt[runtsk] > 0, x)
    BY <1>6, <2>1 DEF ChainOther
  <2>4. (tcb_actcnt[runtsk] > 0) \in BOOLEAN
    OBVIOUS
  <2> QED BY <2>2, <2>3, <2>4, EndTaskStep
<1>7. CASE Schedule
  BY <1>7, ScheduleStep
<1>8. ASSUME NEW res \in ResourceType, GetResource(res) \/ ReleaseResource(res) PROVE DispatchInv'
  BY <1>8, GetResourceStep, ReleaseResourceStep
<1>9. ASSUME NEW t \in ExtTask, NEW mask \in Mask, SetEvent(t, mask) PROVE DispatchInv'
  BY <1>9, SetEventStep
<1>10. ASSUME NEW mask \in Mask, ClearEvent(mask) \/ WaitEvent(mask) PROVE DispatchInv'
  BY <1>10, ClearEventStep, WaitEventStep
<1>11. ASSUME NEW i \in IsrType, Interrupt(i) PROVE DispatchInv'
  BY <1>11, InterruptStep
<1>12. CASE InterruptReturn
  BY <1>12, InterruptReturnStep
<1>13. CASE UNCHANGED vars
  BY <1>13, OtherStep DEF vars, tcb
<1> QED BY <1>1, <1>2, <1>3, <1>4, <1>5, <1>6, <1>7, <1>8, <1>9, <1>10, <1>11, <1>12, <1>13
        DEF Next

\* Whatever the tasks and the interrupt handlers do, while a task runs it is the one the
\* scheduler chose, for every task table: what assert(runtsk == schedtsk) in preempt says.
THEOREM RunningScheduled == Spec => []RunningIsScheduled
<1>1. DispatchInv => RunningIsScheduled
  BY DEF DispatchInv
<1> QED BY InitDispatch, NextDispatch, <1>1, PTL DEF Spec

\* Between services the ready queues hold exactly the runnable tasks that are not
\* schedtsk, each once and at its priority, and ready_primap, nextpri and schedtsk agree
\* with them.
THEOREM SchedulerExact == Spec => []SchedulerConsistent
<1>1. DispatchInv => SchedulerConsistent
  BY DEF DispatchInv
<1> QED BY InitDispatch, NextDispatch, <1>1, PTL DEF Spec

\* No task waits for an event that is already set: SetEvent, from a task or a handler,
\* never comes between the check of WaitEvent and its wait.
THEOREM WakeupsKept == Spec => []NoLostWakeup
<1>1. DispatchInv => NoLostWakeup
  BY DEF DispatchInv
<1> QED BY InitDispatch, NextDispatch, <1>1, PTL DEF Spec

--------------------------------------------------------------------------------
(* The stacks of resources, and what the priority ceiling protocol promises. *)

ResourceTypes ==
  /\ tcb_curpri \in [TaskType -> CurPri]
  /\ tcb_lastres \in [TaskType -> ResourceType \cup {RESID_NULL}]
  /\ rescb_prevpri \in [ResourceType -> CurPri \cup {TPRI_NULL}]
  /\ rescb_prevres \in [ResourceType -> ResourceType \cup {RESID_NULL}]
  /\ resstk \in [TaskType -> Seq(ResourceType)]

\* An interrupt handler does not end the task it interrupted.
RunnerActive == runtsk # TSKID_NULL => tcb_tstat[runtsk] = "RUNNABLE"

\* The parts of ResourcesStacked.
StackOf(t) ==
  LET s == resstk[t] IN
  /\ tcb_lastres[t] = IF s = << >> THEN RESID_NULL ELSE s[Len(s)]
  /\ s # << >> => Started(t)
  /\ \A i \in 1 .. Len(s) :
       /\ rescb_prevres[s[i]] = IF i = 1 THEN RESID_NULL ELSE s[i - 1]
       /\ rescb_prevpri[s[i]] \in CurPri
       /\ tcb_curpri[t] >= resinib_ceilpri[s[i]]
       /\ resinib_ceilpri[s[i]] >= tinib_inipri[t]
       /\ \A j \in 1 .. i - 1 : rescb_prevpri[s[i]] >= resinib_ceilpri[s[j]]

TakenHeld ==
  \A res \in ResourceType :
    rescb_prevpri[res] # TPRI_NULL <=> \E t \in TaskType : res \in Elements(resstk[t])

HeldOnce ==
  \A t, u \in TaskType : \A i \in 1 .. Len(resstk[t]), j \in 1 .. Len(resstk[u]) :
    resstk[t][i] = resstk[u][j] => t = u /\ i = j

ResourceInv ==
  /\ ResourceTypes /\ RunnerActive
  /\ \A t \in TaskType : StackOf(t)
  /\ TakenHeld /\ HeldOnce

LEMMA StackedParts ==
  ResourcesStacked <=> (\A t \in TaskType : StackOf(t)) /\ TakenHeld /\ HeldOnce
BY DEF ResourcesStacked, StackOf, TakenHeld, HeldOnce

\* The numbers of the resource table.
LEMMA ResourceTables ==
  /\ RESID_NULL \notin ResourceType /\ TPRI_NULL \notin CurPri /\ CurPri \in SUBSET Nat
  /\ TaskPri \in SUBSET CurPri /\ TPRI_MINTASK \in CurPri
  /\ \A t \in TaskType : tinib_exepri[t] \in CurPri /\ tinib_inipri[t] \in CurPri
  /\ resinib_ceilpri \in [ResourceType -> CurPri]
<1>1. RESID_NULL \notin ResourceType
  BY KernelTable DEF RESID_NULL, ResourceType
<1>2. TaskPri \in SUBSET Nat /\ \A p \in TaskPri : p < 255
  BY TaskTable DEF TaskPri, TPRI_MINTASK, TPRI_MAXTASK
<1>3. TPRI_NULL \notin CurPri /\ CurPri \in SUBSET Nat
  BY <1>2 DEF CurPri, TPRI_NULL, TPRI_SCHEDULER
<1>4. TaskPri \in SUBSET CurPri /\ TPRI_SCHEDULER \in CurPri
  BY DEF CurPri, TPRI_SCHEDULER
<1>5. TPRI_MINTASK \in CurPri
  BY <1>4, TaskTable, SchedulerFields
<1>6. \A t \in TaskType : tinib_exepri[t] \in CurPri /\ tinib_inipri[t] \in CurPri
  BY <1>4, TaskTable
<1>7. resinib_ceilpri \in [ResourceType -> CurPri]
  BY KernelTable
<1> QED BY <1>1, <1>3, <1>4, <1>5, <1>6, <1>7

\* A task that has no tcb_lastres holds nothing, and neither does one that is not
\* runnable, or is to take its execution priority.
LEMMA HoldsNothing ==
  ASSUME ResourceInv, NEW t \in TaskType,
         \/ tcb_lastres[t] = RESID_NULL
         \/ tcb_tstat[t] # "RUNNABLE"
         \/ t # runtsk /\ tcxb_pc[t] \notin {"dispatcher_r", "ret_int_r"}
  PROVE  resstk[t] = << >>
<1> SUFFICES ASSUME resstk[t] # << >> PROVE FALSE
  OBVIOUS
<1> DEFINE s == resstk[t]
<1>1. /\ tcb_lastres[t] = s[Len(s)] /\ Started(t) /\ s \in Seq(ResourceType)
  BY DEF ResourceInv, ResourceTypes, StackOf
<1>2. tcb_lastres[t] \in ResourceType
  BY <1>1
<1>3. tcb_tstat[t] = "RUNNABLE"
  BY <1>1, Tables DEF Started, Runnable, ResourceInv, RunnerActive
<1> QED BY <1>1, <1>2, <1>3, ResourceTables DEF Started

\* A step that keeps the chains: what it changes belongs to tasks that hold nothing.
LEMMA Quiet ==
  ASSUME ResourceInv, UNCHANGED rescb, tcb_curpri' \in [TaskType -> CurPri],
         RunnerActive',
         tcb_lastres' \in [TaskType -> ResourceType \cup {RESID_NULL}],
         \A t \in TaskType : resstk[t] # << >> =>
           tcb_curpri'[t] = tcb_curpri[t] /\ tcb_lastres'[t] = tcb_lastres[t] /\ Started(t)',
         \A t \in TaskType : tcb_lastres'[t] \in {tcb_lastres[t], RESID_NULL}
  PROVE  ResourceInv'
<1>1. resstk' = resstk /\ rescb_prevpri' = rescb_prevpri /\ rescb_prevres' = rescb_prevres
  BY DEF rescb
<1>2. ASSUME NEW t \in TaskType PROVE StackOf(t)'
  <2>1. CASE resstk[t] = << >>
    BY <1>1, <2>1 DEF StackOf, ResourceInv, ResourceTypes
  <2>2. CASE resstk[t] # << >>
    <3>1. tcb_curpri'[t] = tcb_curpri[t] /\ tcb_lastres'[t] = tcb_lastres[t] /\ Started(t)'
      BY <2>2
    <3>2. StackOf(t)
      BY DEF ResourceInv
    <3> QED BY <1>1, <3>1, <3>2 DEF StackOf
  <2> QED BY <2>1, <2>2
<1>3. ResourceTypes' /\ TakenHeld' /\ HeldOnce'
  BY <1>1 DEF ResourceInv, ResourceTypes, TakenHeld, HeldOnce
<1> QED BY <1>2, <1>3 DEF ResourceInv

\* The task the dispatcher starts is runnable.
LEMMA DispatchedActive ==
  ASSUME DispatchInv', NEW r, NEW pri, NEW k, StartDispatch(r, pri, k)
  PROVE  RunnerActive'
<1>1. runtsk' # TSKID_NULL => callevel' = "TCL_TASK"
  BY DEF StartDispatch
<1>2. callevel' = "TCL_TASK" => runtsk' = rdy'.schedtsk
  BY DEF DispatchInv, RunningIsScheduled, AtTaskLevel
<1>3. rdy'.schedtsk # TSKID_NULL => tcb_tstat'[rdy'.schedtsk] = "RUNNABLE"
  BY DEF DispatchInv, SchedulerConsistent, Runnable
<1> QED BY <1>1, <1>2, <1>3 DEF RunnerActive

\* A service that ends in the dispatcher, where every task that holds a resource stays
\* runnable and continues in a service or behind an interrupt.
LEMMA QuietDispatch ==
  ASSUME ResourceInv, DispatchInv', UNCHANGED rescb,
         NEW r, NEW pri \in [TaskType -> CurPri], NEW k, StartDispatch(r, pri, k),
         tcb_lastres' \in [TaskType -> ResourceType \cup {RESID_NULL}],
         \A t \in TaskType : resstk[t] # << >> =>
           /\ pri[t] = tcb_curpri[t] /\ tcb_lastres'[t] = tcb_lastres[t]
           /\ tcb_tstat'[t] = "RUNNABLE" /\ k[t] \in {"dispatcher_r", "ret_int_r"},
         \A t \in TaskType : tcb_lastres'[t] \in {tcb_lastres[t], RESID_NULL}
  PROVE  ResourceInv'
<1>1. PICK s : s = r.schedtsk
  OBVIOUS
<1>2. /\ runtsk' = s /\ tcxb_pc' = k
      /\ tcb_curpri' = IF s # TSKID_NULL /\ k[s] \in {"activate_r", "dispatcher_r_exepri"}
                       THEN [pri EXCEPT ![s] = tinib_exepri[s]] ELSE pri
  BY <1>1 DEF StartDispatch
<1>3. s \in TaskType \cup {TSKID_NULL}
  BY <1>2 DEF DispatchInv, DispatchTypes
<1>4. /\ tcb_curpri' \in [TaskType -> CurPri]
      /\ \A t \in TaskType : t # s \/ k[t] \in {"dispatcher_r", "ret_int_r"}
                             => tcb_curpri'[t] = pri[t]
  BY <1>2, <1>3, ResourceTables
<1>5. RunnerActive'
  BY DispatchedActive
<1>6. ASSUME NEW t \in TaskType, resstk[t] # << >>
      PROVE  tcb_curpri'[t] = tcb_curpri[t] /\ tcb_lastres'[t] = tcb_lastres[t] /\ Started(t)'
  BY <1>2, <1>4, <1>6 DEF Started, Runnable
<1> QED BY <1>4, <1>5, <1>6, Quiet

\* A service that may have found a better task.
LEMMA QuietIfBetter ==
  ASSUME ResourceInv, DispatchInv, DispatchInv', UNCHANGED rescb,
         NEW r, NEW pri \in [TaskType -> CurPri], NEW k \in [TaskType -> Continuation], NEW x,
         DispatchIfBetter(r, pri, k, x),
         tcb_lastres' \in [TaskType -> ResourceType \cup {RESID_NULL}],
         \A t \in TaskType : tcb_tstat[t] = "RUNNABLE" =>
           /\ pri[t] = tcb_curpri[t] /\ tcb_lastres'[t] = tcb_lastres[t]
           /\ tcb_tstat'[t] = "RUNNABLE" /\ k[t] = tcxb_pc[t],
         \A t \in TaskType : tcb_lastres'[t] \in {tcb_lastres[t], RESID_NULL}
  PROVE  ResourceInv'
<1>1. ASSUME NEW t \in TaskType, resstk[t] # << >>
      PROVE  /\ pri[t] = tcb_curpri[t] /\ tcb_lastres'[t] = tcb_lastres[t]
             /\ tcb_tstat'[t] = "RUNNABLE" /\ k[t] = tcxb_pc[t]
             /\ t = runtsk \/ k[t] \in {"dispatcher_r", "ret_int_r"}
  BY <1>1, HoldsNothing
<1>2. CASE r.schedtsk = x /\ callevel = "TCL_TASK"
  <2> DEFINE k2 == [k EXCEPT ![runtsk] = "dispatcher_r"]
  <2>1. StartDispatch(r, pri, k2)
    BY <1>2 DEF DispatchIfBetter, Dispatch
  <2>2. runtsk \in TaskType
    BY <1>2, AtTask DEF AtTaskLevel
  <2>3. \A t \in TaskType : k2[t] = IF t = runtsk THEN "dispatcher_r" ELSE k[t]
    BY <2>2
  <2> HIDE DEF k2
  <2>4. \A t \in TaskType : resstk[t] # << >> =>
           /\ pri[t] = tcb_curpri[t] /\ tcb_lastres'[t] = tcb_lastres[t]
           /\ tcb_tstat'[t] = "RUNNABLE" /\ k2[t] \in {"dispatcher_r", "ret_int_r"}
    BY <1>1, <2>3
  <2> QED BY <2>1, <2>4, QuietDispatch
<1>3. CASE ~ (r.schedtsk = x /\ callevel = "TCL_TASK")
  <2>1. tcb_curpri' = pri /\ tcxb_pc' = k /\ runtsk' = runtsk
    BY <1>3 DEF DispatchIfBetter
  <2>2. RunnerActive'
    BY <2>1 DEF ResourceInv, RunnerActive, DispatchInv, DispatchTypes
  <2>3. ASSUME NEW t \in TaskType, resstk[t] # << >>
        PROVE  tcb_curpri'[t] = tcb_curpri[t] /\ tcb_lastres'[t] = tcb_lastres[t] /\ Started(t)'
    BY <1>1, <2>1, <2>3 DEF Started, Runnable
  <2> QED BY <2>1, <2>2, <2>3, Quiet
<1> QED BY <1>2, <1>3

--------------------------------------------------------------------------------
(* Steps that take or give back no resource *)

LEMMA UntouchedStep ==
  ASSUME ResourceInv,
         UNCHANGED <<runtsk, tcb_tstat, tcb_curpri, tcb_lastres, tcxb_pc, rescb>>
  PROVE  ResourceInv'
<1>1. \A t \in TaskType : Started(t)' <=> Started(t)
  BY DEF Started, Runnable
<1>2. ASSUME NEW t \in TaskType, resstk[t] # << >> PROVE Started(t)'
  BY <1>1, <1>2 DEF ResourceInv, StackOf
<1>3. RunnerActive'
  BY DEF ResourceInv, RunnerActive
<1> QED BY <1>2, <1>3, Quiet DEF ResourceInv, ResourceTypes

LEMMA InitializeKeepsStacks ==
  ASSUME ResourceInv, DispatchInv, InitializeTask
  PROVE  ResourceInv'
<1>1. /\ boot \in TaskType /\ tcb_tstat[boot] = "DORMANT" /\ runtsk = TSKID_NULL
      /\ UNCHANGED <<runtsk, rescb>>
  BY Tables DEF InitializeTask, DispatchInv, Booting, Context, TaskType
<1>2. /\ tcb_tstat \in [TaskType -> TaskState] /\ tcb_curpri \in [TaskType -> CurPri]
      /\ tcb_lastres \in [TaskType -> ResourceType \cup {RESID_NULL}]
  BY DEF DispatchInv, BlockTypes, ResourceInv, ResourceTypes
<1>3. CASE boot \in Autostart
  <2>1. /\ tcb_tstat' = [tcb_tstat EXCEPT ![boot] = "RUNNABLE"] /\ ResetTasks({boot})
        /\ tcb_curpri' = ActivePri({boot}) /\ tcxb_pc' = ActivePc({boot})
    BY <1>3 DEF InitializeTask
  <2>2. /\ tcb_curpri' \in [TaskType -> CurPri]
        /\ tcb_lastres' \in [TaskType -> ResourceType \cup {RESID_NULL}]
        /\ \A t \in TaskType : tcb_lastres'[t] \in {tcb_lastres[t], RESID_NULL}
    BY <1>2, <2>1, ResourceTables DEF ActivePri, ResetTasks
  <2>3. ASSUME NEW t \in TaskType, resstk[t] # << >>
        PROVE  tcb_curpri'[t] = tcb_curpri[t] /\ tcb_lastres'[t] = tcb_lastres[t] /\ Started(t)'
    <3>1. t # boot
      BY <1>1, <2>3, HoldsNothing
    <3>2. Started(t)
      BY <2>3 DEF ResourceInv, StackOf
    <3> QED BY <1>1, <1>2, <2>1, <3>1, <3>2
            DEF ActivePri, ActivePc, ResetTasks, Started, Runnable
  <2>4. RunnerActive'
    BY <1>1 DEF RunnerActive
  <2> QED BY <1>1, <2>2, <2>3, <2>4, Quiet
<1>4. CASE boot \notin Autostart
  BY <1>1, <1>4, UntouchedStep DEF InitializeTask, tcb
<1> QED BY <1>3, <1>4

LEMMA IdleKeepsStacks ==
  ASSUME ResourceInv, DispatchInv, DispatchInv', StartOS \/ LeaveIdle
  PROVE  ResourceInv'
<1>1. /\ runtsk = TSKID_NULL /\ StartDispatch(rdy, tcb_curpri, tcxb_pc)
      /\ UNCHANGED <<tcb_tstat, tcb_lastres, rescb>>
  BY Tables DEF DispatchInv, Booting, StartOS, LeaveIdle
<1>2. ASSUME NEW t \in TaskType, resstk[t] # << >>
      PROVE  tcb_tstat'[t] = "RUNNABLE" /\ tcxb_pc[t] \in {"dispatcher_r", "ret_int_r"}
  BY <1>1, <1>2, HoldsNothing, Tables
<1> QED BY <1>1, <1>2, QuietDispatch DEF ResourceInv, ResourceTypes

LEMMA ActivateKeepsStacks ==
  ASSUME ResourceInv, DispatchInv, DispatchInv', NEW t \in TaskType, ActivateDormant(t)
  PROVE  ResourceInv'
<1>1. /\ tcb_tstat \in [TaskType -> TaskState] /\ tcb_curpri \in [TaskType -> CurPri]
      /\ tcb_lastres \in [TaskType -> ResourceType \cup {RESID_NULL}]
      /\ tcxb_pc \in [TaskType -> Continuation]
  BY DEF DispatchInv, DispatchTypes, BlockTypes, ResourceInv, ResourceTypes
<1>2. /\ tcb_tstat[t] = "DORMANT" /\ tcb_tstat' = [tcb_tstat EXCEPT ![t] = "RUNNABLE"]
      /\ ResetTasks({t}) /\ UNCHANGED rescb
      /\ DispatchIfBetter(MakeRunnable(rdy, ActivePri({t}), t), ActivePri({t}), ActivePc({t}), t)
  BY DEF ActivateDormant
<1>3. /\ ActivePri({t}) \in [TaskType -> CurPri] /\ ActivePc({t}) \in [TaskType -> Continuation]
      /\ tcb_lastres' \in [TaskType -> ResourceType \cup {RESID_NULL}]
      /\ \A x \in TaskType : tcb_lastres'[x] \in {tcb_lastres[x], RESID_NULL}
  BY <1>1, <1>2, ResourceTables DEF ActivePri, ActivePc, ResetTasks, Continuation
<1>4. \A x \in TaskType : tcb_tstat[x] = "RUNNABLE" =>
        /\ ActivePri({t})[x] = tcb_curpri[x] /\ tcb_lastres'[x] = tcb_lastres[x]
        /\ tcb_tstat'[x] = "RUNNABLE" /\ ActivePc({t})[x] = tcxb_pc[x]
  BY <1>1, <1>2 DEF ActivePri, ActivePc, ResetTasks
<1> QED BY <1>2, <1>3, <1>4, QuietIfBetter

LEMMA SetEventKeepsStacks ==
  ASSUME ResourceInv, DispatchInv, DispatchInv', NEW t \in ExtTask, NEW mask \in Mask,
         SetEvent(t, mask)
  PROVE  ResourceInv'
<1>1. /\ tcb_tstat \in [TaskType -> TaskState] /\ tcb_curpri \in [TaskType -> CurPri]
      /\ tcb_lastres \in [TaskType -> ResourceType \cup {RESID_NULL}]
      /\ tcxb_pc \in [TaskType -> Continuation] /\ UNCHANGED <<tcb_lastres, rescb>>
  BY DEF DispatchInv, DispatchTypes, BlockTypes, ResourceInv, ResourceTypes, SetEvent
<1>2. CASE tcb_curevt'[t] \cap tcb_waievt[t] # EVTMASK_NONE
  <2>1. /\ tcb_tstat' = [tcb_tstat EXCEPT ![t] = "RUNNABLE"]
        /\ DispatchIfBetter(MakeRunnable(rdy, tcb_curpri, t), tcb_curpri, tcxb_pc, t)
    BY <1>2 DEF SetEvent
  <2>2. \A x \in TaskType : tcb_tstat[x] = "RUNNABLE" => tcb_tstat'[x] = "RUNNABLE"
    BY <1>1, <2>1
  <2> QED BY <1>1, <2>1, <2>2, QuietIfBetter
<1>3. CASE tcb_curevt'[t] \cap tcb_waievt[t] = EVTMASK_NONE
  BY <1>1, <1>3, UntouchedStep DEF SetEvent
<1> QED BY <1>2, <1>3

LEMMA EndTaskKeepsStacks ==
  ASSUME ResourceInv, DispatchInv, DispatchInv', AtTaskLevel, HoldsNoResource,
         NEW again \in BOOLEAN, NEW t \in TaskType \cup {TSKID_NULL},
         t # TSKID_NULL => t # runtsk /\ tcb_tstat[t] = "DORMANT",
         EndTask(again, t)
  PROVE  ResourceInv'
<1> DEFINE new == {x \in TaskType : x = t \/ (again /\ x = runtsk)}
           pri == ActivePri(new)
           k   == ActivePc(new)
<1>1. PICK r :
        /\ tcb_tstat' = [x \in TaskType |-> IF x \in new THEN "RUNNABLE"
                                            ELSE IF x = runtsk THEN "DORMANT" ELSE tcb_tstat[x]]
        /\ ResetTasks(new) /\ StartDispatch(r, pri, k) /\ UNCHANGED rescb
  BY DEF EndTask
<1>2. /\ tcb_curpri \in [TaskType -> CurPri]
      /\ tcb_lastres \in [TaskType -> ResourceType \cup {RESID_NULL}]
  BY DEF ResourceInv, ResourceTypes
<1>3. pri \in [TaskType -> CurPri] /\ \A x \in TaskType : x \notin new => pri[x] = tcb_curpri[x]
  BY <1>2, ResourceTables DEF ActivePri
<1>4. \A x \in TaskType : x \notin new => k[x] = tcxb_pc[x]
  BY DEF ActivePc
<1>5. \A x \in new : x = runtsk \/ tcb_tstat[x] = "DORMANT"
  BY Tables
<1> HIDE DEF new, pri, k
<1>6. /\ tcb_lastres' \in [TaskType -> ResourceType \cup {RESID_NULL}]
      /\ \A x \in TaskType : tcb_lastres'[x] \in {tcb_lastres[x], RESID_NULL}
      /\ \A x \in TaskType : x \notin new => tcb_lastres'[x] = tcb_lastres[x]
  BY <1>1, <1>2 DEF ResetTasks
<1>7. ASSUME NEW x \in TaskType, resstk[x] # << >>
      PROVE  /\ pri[x] = tcb_curpri[x] /\ tcb_lastres'[x] = tcb_lastres[x]
             /\ tcb_tstat'[x] = "RUNNABLE" /\ k[x] \in {"dispatcher_r", "ret_int_r"}
  <2>1. x # runtsk
    BY <1>7, HoldsNothing DEF HoldsNoResource
  <2>2. tcb_tstat[x] = "RUNNABLE" /\ tcxb_pc[x] \in {"dispatcher_r", "ret_int_r"}
    BY <1>7, <2>1, HoldsNothing
  <2>3. x \notin new
    BY <1>5, <2>1, <2>2
  <2> QED BY <1>1, <1>3, <1>4, <1>6, <2>1, <2>2, <2>3
<1> QED BY <1>1, <1>3, <1>6, <1>7, QuietDispatch

\* Schedule and WaitEvent: the running task gives up its execution priority.
LEMMA YieldKeepsStacks ==
  ASSUME ResourceInv, DispatchInv, DispatchInv', NEW mask, Schedule \/ WaitEvent(mask)
  PROVE  ResourceInv'
<1> DEFINE pri == [tcb_curpri EXCEPT ![runtsk] = tinib_inipri[runtsk]]
           k   == [tcxb_pc EXCEPT ![runtsk] = "dispatcher_r_exepri"]
<1>1. PICK r : StartDispatch(r, pri, k)
  BY DEF Schedule, WaitEvent, Dispatch
<1>2. /\ tcb_curpri \in [TaskType -> CurPri] /\ tcxb_pc \in [TaskType -> Continuation]
      /\ tcb_lastres \in [TaskType -> ResourceType \cup {RESID_NULL}]
      /\ tcb_tstat \in [TaskType -> TaskState]
  BY DEF ResourceInv, ResourceTypes, DispatchInv, DispatchTypes, BlockTypes
<1>3. HoldsNoResource /\ UNCHANGED <<tcb_lastres, rescb>>
      /\ (tcb_tstat' = tcb_tstat \/ tcb_tstat' = [tcb_tstat EXCEPT ![runtsk] = "WAITING"])
  BY DEF Schedule, WaitEvent
<1>4. runtsk \in TaskType
  BY AtTask DEF Schedule, WaitEvent
<1>5. /\ pri \in [TaskType -> CurPri]
      /\ \A x \in TaskType : x # runtsk => pri[x] = tcb_curpri[x] /\ k[x] = tcxb_pc[x]
  BY <1>2, <1>4, ResourceTables
<1> HIDE DEF pri, k
<1>6. ASSUME NEW x \in TaskType, resstk[x] # << >>
      PROVE  /\ pri[x] = tcb_curpri[x]
             /\ tcb_tstat'[x] = "RUNNABLE" /\ k[x] \in {"dispatcher_r", "ret_int_r"}
  <2>1. x # runtsk
    BY <1>3, <1>6, HoldsNothing DEF HoldsNoResource
  <2>2. tcb_tstat[x] = "RUNNABLE" /\ tcxb_pc[x] \in {"dispatcher_r", "ret_int_r"}
    BY <1>6, <2>1, HoldsNothing
  <2> QED BY <1>2, <1>3, <1>5, <2>1, <2>2
<1> QED BY <1>1, <1>2, <1>3, <1>5, <1>6, QuietDispatch

LEMMA ReturnKeepsStacks ==
  ASSUME ResourceInv, DispatchInv, DispatchInv', InterruptReturn
  PROVE  ResourceInv'
<1> DEFINE k == [tcxb_pc EXCEPT ![runtsk] = "ret_int_r"]
<1>1. /\ tcxb_pc \in [TaskType -> Continuation] /\ tcb_curpri \in [TaskType -> CurPri]
      /\ tcb_lastres \in [TaskType -> ResourceType \cup {RESID_NULL}]
      /\ UNCHANGED <<tcb_tstat, tcb_lastres, rescb>>
  BY DEF ResourceInv, ResourceTypes, DispatchInv, DispatchTypes, InterruptReturn
<1>2. \/ StartDispatch(rdy, tcb_curpri, k)
      \/ UNCHANGED <<rdy, runtsk, tcb_curpri, tcxb_pc>>
  BY DEF InterruptReturn, Dispatch
<1>3. CASE StartDispatch(rdy, tcb_curpri, k)
  <2>1. ASSUME NEW x \in TaskType, resstk[x] # << >>
        PROVE  tcb_tstat'[x] = "RUNNABLE" /\ k[x] \in {"dispatcher_r", "ret_int_r"}
    <3>1. tcb_tstat[x] = "RUNNABLE"
          /\ (x = runtsk \/ tcxb_pc[x] \in {"dispatcher_r", "ret_int_r"})
      BY <2>1, HoldsNothing
    <3> QED BY <1>1, <3>1
  <2> HIDE DEF k
  <2> QED BY <1>1, <1>3, <2>1, QuietDispatch
<1>4. CASE UNCHANGED <<rdy, runtsk, tcb_curpri, tcxb_pc>>
  BY <1>1, <1>4, UntouchedStep
<1> QED BY <1>2, <1>3, <1>4

--------------------------------------------------------------------------------
(* resource.c *)

LEMMA GetKeepsStacks ==
  ASSUME ResourceInv, DispatchInv, DispatchInv', NEW res \in ResourceType, GetResource(res)
  PROVE  ResourceInv'
<1>0. PICK u : u = runtsk
  OBVIOUS
<1> DEFINE s == resstk[u]
           n == Len(s)
<1>1. /\ u \in TaskType /\ tcb_tstat[u] = "RUNNABLE"
  BY <1>0, AtTask DEF GetResource
<1>2. /\ tcb_curpri \in [TaskType -> CurPri] /\ resstk \in [TaskType -> Seq(ResourceType)]
      /\ tcb_lastres \in [TaskType -> ResourceType \cup {RESID_NULL}]
      /\ rescb_prevpri \in [ResourceType -> CurPri \cup {TPRI_NULL}]
      /\ rescb_prevres \in [ResourceType -> ResourceType \cup {RESID_NULL}]
  BY DEF ResourceInv, ResourceTypes
<1>3. /\ tinib_inipri[u] <= resinib_ceilpri[res] /\ rescb_prevpri[res] = TPRI_NULL
      /\ rescb_prevpri' = [rescb_prevpri EXCEPT ![res] = tcb_curpri[u]]
      /\ rescb_prevres' = [rescb_prevres EXCEPT ![res] = tcb_lastres[u]]
      /\ tcb_lastres' = [tcb_lastres EXCEPT ![u] = res]
      /\ tcb_curpri' = [tcb_curpri EXCEPT ![u] = RaisedPri(@, res)]
      /\ resstk' = [resstk EXCEPT ![u] = Append(@, res)]
      /\ UNCHANGED <<runtsk, tcb_tstat, tcxb_pc>>
  BY <1>0 DEF GetResource
<1>4. /\ RaisedPri(tcb_curpri[u], res) \in CurPri
      /\ RaisedPri(tcb_curpri[u], res) >= tcb_curpri[u]
      /\ RaisedPri(tcb_curpri[u], res) >= resinib_ceilpri[res]
      /\ tcb_curpri[u] \in CurPri /\ CurPri \in SUBSET Nat
      /\ resinib_ceilpri[res] \in Nat /\ resinib_ceilpri \in [ResourceType -> CurPri]
  <2>1. tcb_curpri[u] \in CurPri /\ resinib_ceilpri[res] \in CurPri /\ CurPri \in SUBSET Nat
        /\ resinib_ceilpri \in [ResourceType -> CurPri]
    BY <1>1, <1>2, ResourceTables
  <2>2. tcb_curpri[u] \in Nat /\ resinib_ceilpri[res] \in Nat
    BY <2>1
  <2>3. /\ RaisedPri(tcb_curpri[u], res) >= tcb_curpri[u]
        /\ RaisedPri(tcb_curpri[u], res) >= resinib_ceilpri[res]
        /\ RaisedPri(tcb_curpri[u], res) \in {tcb_curpri[u], resinib_ceilpri[res]}
    BY <2>2 DEF RaisedPri
  <2> QED BY <2>1, <2>2, <2>3
<1>5. /\ s \in Seq(ResourceType) /\ n \in Nat
      /\ resstk'[u] \in Seq(ResourceType) /\ Len(resstk'[u]) = n + 1
      /\ resstk'[u][n + 1] = res /\ \A i \in 1 .. n : resstk'[u][i] = s[i] /\ s[i] \in ResourceType
      /\ \A t \in TaskType : t # u => resstk'[t] = resstk[t]
  BY <1>1, <1>2, <1>3
<1>6. ASSUME NEW t \in TaskType, NEW i \in 1 .. Len(resstk[t])
      PROVE  resstk[t][i] # res /\ resstk[t][i] \in ResourceType
  <2>1. rescb_prevpri[resstk[t][i]] \in CurPri
    BY DEF ResourceInv, StackOf
  <2>2. resstk[t][i] \in ResourceType
    BY <1>2
  <2> QED BY <1>3, <2>1, <2>2, ResourceTables
<1>7. ResourceTypes'
  <2>1. resstk' \in [TaskType -> Seq(ResourceType)]
    <3>1. Append(s, res) \in Seq(ResourceType)
      BY <1>1, <1>2
    <3> QED BY <1>2, <1>3, <3>1
  <2>2. tcb_curpri' \in [TaskType -> CurPri]
    BY <1>1, <1>2, <1>3, <1>4
  <2>3. rescb_prevpri' \in [ResourceType -> CurPri \cup {TPRI_NULL}]
    BY <1>2, <1>3, <1>4
  <2> QED BY <1>1, <1>2, <1>3, <2>1, <2>2, <2>3 DEF ResourceTypes
<1>8. RunnerActive'
  BY <1>3 DEF ResourceInv, RunnerActive
<1>9. ASSUME NEW t \in TaskType, t # u PROVE StackOf(t)'
  <2>1. /\ resstk'[t] = resstk[t] /\ tcb_lastres'[t] = tcb_lastres[t]
        /\ tcb_curpri'[t] = tcb_curpri[t] /\ (Started(t)' <=> Started(t))
    BY <1>0, <1>1, <1>2, <1>3, <1>9 DEF Started, Runnable
  <2>2. \A i \in 1 .. Len(resstk[t]) :
          /\ rescb_prevres'[resstk[t][i]] = rescb_prevres[resstk[t][i]]
          /\ rescb_prevpri'[resstk[t][i]] = rescb_prevpri[resstk[t][i]]
    BY <1>2, <1>3, <1>6
  <2>3. StackOf(t)
    BY DEF ResourceInv
  <2> QED BY <2>1, <2>2, <2>3 DEF StackOf
<1>10. StackOf(u)'
  <2>1. /\ tcb_lastres[u] = IF s = << >> THEN RESID_NULL ELSE s[n]
        /\ \A i \in 1 .. n :
             /\ rescb_prevres[s[i]] = IF i = 1 THEN RESID_NULL ELSE s[i - 1]
             /\ rescb_prevpri[s[i]] \in CurPri
             /\ tcb_curpri[u] >= resinib_ceilpri[s[i]]
             /\ resinib_ceilpri[s[i]] >= tinib_inipri[u]
             /\ \A j \in 1 .. i - 1 : rescb_prevpri[s[i]] >= resinib_ceilpri[s[j]]
    BY <1>1 DEF ResourceInv, StackOf
  <2>2. PICK q, c, p, m : q = resstk'[u] /\ c = tcb_curpri[u] /\ p = tcb_curpri'[u] /\ m = n + 1
    OBVIOUS
  <2>3. /\ p \in Nat /\ c \in CurPri /\ c \in Nat /\ p >= c /\ p >= resinib_ceilpri[res]
        /\ q # << >> /\ q[Len(q)] = res /\ Len(q) = n + 1 /\ tcb_lastres'[u] = res
    <3>1. c \in CurPri /\ c \in Nat
      BY <1>4, <2>2
    <3>2. p = RaisedPri(c, res) /\ tcb_lastres'[u] = res
      BY <1>1, <1>2, <1>3, <2>2
    <3>3. p \in Nat /\ p >= c /\ p >= resinib_ceilpri[res]
      BY <1>4, <2>2, <3>2
    <3>4. q # << >> /\ q[Len(q)] = res /\ Len(q) = n + 1
      BY <1>5, <2>2
    <3> QED BY <3>1, <3>2, <3>3, <3>4
  <2>4. \A i \in 1 .. n :
          /\ q[i] = s[i] /\ resinib_ceilpri[s[i]] \in Nat
          /\ rescb_prevres'[s[i]] = rescb_prevres[s[i]]
          /\ rescb_prevpri'[s[i]] = rescb_prevpri[s[i]]
    BY <1>1, <1>2, <1>3, <1>4, <1>5, <1>6, <2>2
  <2>5. ASSUME NEW i \in 1 .. n
        PROVE  /\ rescb_prevres'[q[i]] = IF i = 1 THEN RESID_NULL ELSE q[i - 1]
               /\ rescb_prevpri'[q[i]] \in CurPri
               /\ p >= resinib_ceilpri[q[i]]
               /\ resinib_ceilpri[q[i]] >= tinib_inipri[u]
               /\ \A j \in 1 .. i - 1 : rescb_prevpri'[q[i]] >= resinib_ceilpri[q[j]]
    <3>1. i # 1 => i - 1 \in 1 .. n
      BY <1>5
    <3>2. \A j \in 1 .. i - 1 : j \in 1 .. n
      BY <1>5
    <3>3. p >= resinib_ceilpri[s[i]]
      <4>1. c >= resinib_ceilpri[s[i]]
        BY <2>1, <2>2
      <4> QED BY <2>3, <2>4, <4>1
    <3>4. q[i] = s[i] /\ (i # 1 => q[i - 1] = s[i - 1])
      BY <2>4, <3>1
    <3>5. \A j \in 1 .. i - 1 : rescb_prevpri[s[i]] >= resinib_ceilpri[s[j]] /\ q[j] = s[j]
      BY <2>1, <2>4, <3>2
    <3> HIDE DEF s, n
    <3> QED BY <2>1, <2>4, <3>3, <3>4, <3>5
  <2>6. /\ rescb_prevres'[q[m]] = IF m = 1 THEN RESID_NULL ELSE q[m - 1]
        /\ rescb_prevpri'[q[m]] \in CurPri
        /\ p >= resinib_ceilpri[q[m]]
        /\ resinib_ceilpri[q[m]] >= tinib_inipri[u]
        /\ \A j \in 1 .. m - 1 : rescb_prevpri'[q[m]] >= resinib_ceilpri[q[j]]
    <3>1. q[m] = res /\ rescb_prevpri'[res] = c /\ rescb_prevres'[res] = tcb_lastres[u]
      BY <1>2, <1>3, <1>5, <2>2
    <3>2. resinib_ceilpri[res] >= tinib_inipri[u]
      <4>1. tinib_inipri[u] \in Nat
        BY <1>1, Tables
      <4> QED BY <1>3, <1>4, <4>1
    <3>3. m - 1 = n /\ (s = << >> <=> m = 1) /\ (n # 0 => n \in 1 .. n)
      BY <1>5, <2>2
    <3>4. tcb_lastres[u] = IF m = 1 THEN RESID_NULL ELSE q[n]
      BY <2>1, <2>4, <3>3
    <3>5. \A j \in 1 .. n : c >= resinib_ceilpri[q[j]]
      BY <2>1, <2>2, <2>4
    <3> QED BY <2>3, <3>1, <3>2, <3>3, <3>4, <3>5
  <2>7. \A i \in 1 .. n + 1 : i \in 1 .. n \/ i = n + 1
    BY <1>5
  <2>8. Started(u)'
    BY <1>0, <1>3 DEF Started
  <2> HIDE DEF s, n
  <2>9. \A i \in 1 .. Len(q) :
          /\ rescb_prevres'[q[i]] = IF i = 1 THEN RESID_NULL ELSE q[i - 1]
          /\ rescb_prevpri'[q[i]] \in CurPri
          /\ p >= resinib_ceilpri[q[i]]
          /\ resinib_ceilpri[q[i]] >= tinib_inipri[u]
          /\ \A j \in 1 .. i - 1 : rescb_prevpri'[q[i]] >= resinib_ceilpri[q[j]]
    <3> SUFFICES ASSUME NEW i \in 1 .. Len(q)
                 PROVE  /\ rescb_prevres'[q[i]] = IF i = 1 THEN RESID_NULL ELSE q[i - 1]
                        /\ rescb_prevpri'[q[i]] \in CurPri
                        /\ p >= resinib_ceilpri[q[i]]
                        /\ resinib_ceilpri[q[i]] >= tinib_inipri[u]
                        /\ \A j \in 1 .. i - 1 : rescb_prevpri'[q[i]] >= resinib_ceilpri[q[j]]
      OBVIOUS
    <3>1. CASE i \in 1 .. n
      BY <2>5, <3>1
    <3>2. CASE i = n + 1
      BY <2>2, <2>6, <3>2
    <3> QED BY <2>3, <2>7, <3>1, <3>2
  <2> QED BY <2>2, <2>3, <2>8, <2>9 DEF StackOf
<1>11. TakenHeld'
  <2> SUFFICES ASSUME NEW x \in ResourceType
               PROVE  rescb_prevpri'[x] # TPRI_NULL
                        <=> \E t \in TaskType : \E i \in 1 .. Len(resstk'[t]) : resstk'[t][i] = x
    BY DEF TakenHeld, Elements
  <2>1. rescb_prevpri[x] # TPRI_NULL
          <=> \E t \in TaskType : \E i \in 1 .. Len(resstk[t]) : resstk[t][i] = x
    BY DEF ResourceInv, TakenHeld, Elements
  <2>2. CASE x = res
    <3>1. rescb_prevpri'[x] # TPRI_NULL
      BY <1>2, <1>3, <1>4, <2>2, ResourceTables
    <3>2. n + 1 \in 1 .. Len(resstk'[u]) /\ resstk'[u][n + 1] = x
      BY <1>5, <2>2
    <3> QED BY <1>1, <3>1, <3>2
  <2>3. CASE x # res
    <3>1. rescb_prevpri'[x] = rescb_prevpri[x]
      BY <1>2, <1>3, <2>3
    <3>2. ASSUME NEW t \in TaskType, NEW i \in 1 .. Len(resstk[t]), resstk[t][i] = x
          PROVE  i \in 1 .. Len(resstk'[t]) /\ resstk'[t][i] = x
      BY <1>5, <3>2
    <3>3. ASSUME NEW t \in TaskType, NEW i \in 1 .. Len(resstk'[t]), resstk'[t][i] = x
          PROVE  i \in 1 .. Len(resstk[t]) /\ resstk[t][i] = x
      <4>1. CASE t = u
        <5>1. i # n + 1
          BY <1>5, <2>3, <3>3, <4>1
        <5> QED BY <1>5, <3>3, <4>1, <5>1
      <4>2. CASE t # u
        BY <1>5, <3>3, <4>2
      <4> QED BY <4>1, <4>2
    <3> QED BY <2>1, <3>1, <3>2, <3>3
  <2> QED BY <2>2, <2>3
<1>12. HeldOnce'
  <2> SUFFICES ASSUME NEW t \in TaskType, NEW v \in TaskType,
                      NEW i \in 1 .. Len(resstk'[t]), NEW j \in 1 .. Len(resstk'[v]),
                      resstk'[t][i] = resstk'[v][j]
               PROVE  t = v /\ i = j
    BY DEF HeldOnce
  <2>1. /\ \/ t = u /\ i = n + 1
           \/ i \in 1 .. Len(resstk[t]) /\ resstk'[t][i] = resstk[t][i]
        /\ \/ v = u /\ j = n + 1
           \/ j \in 1 .. Len(resstk[v]) /\ resstk'[v][j] = resstk[v][j]
    <3>1. ASSUME NEW x \in TaskType, NEW l \in 1 .. Len(resstk'[x])
          PROVE  \/ x = u /\ l = n + 1
                 \/ l \in 1 .. Len(resstk[x]) /\ resstk'[x][l] = resstk[x][l]
      <4>1. CASE x = u
        BY <1>5, <4>1
      <4>2. CASE x # u
        BY <1>5, <4>2
      <4> QED BY <4>1, <4>2
    <3> QED BY <3>1
  <2>2. CASE t = u /\ i = n + 1
    <3>1. resstk'[v][j] = res
      BY <1>5, <2>2
    <3> QED BY <1>6, <2>1, <2>2, <3>1
  <2>3. CASE v = u /\ j = n + 1
    <3>1. resstk'[t][i] = res
      BY <1>5, <2>3
    <3> QED BY <1>6, <2>1, <2>3, <3>1
  <2>4. CASE ~ (t = u /\ i = n + 1) /\ ~ (v = u /\ j = n + 1)
    BY <2>1, <2>4 DEF ResourceInv, HeldOnce
  <2> QED BY <2>2, <2>3, <2>4
<1>13. ASSUME NEW t \in TaskType PROVE StackOf(t)'
  BY <1>9, <1>10
<1> HIDE DEF s, n
<1> QED BY <1>7, <1>8, <1>11, <1>12, <1>13 DEF ResourceInv

LEMMA ReleaseKeepsStacks ==
  ASSUME ResourceInv, DispatchInv, DispatchInv', NEW res \in ResourceType, ReleaseResource(res)
  PROVE  ResourceInv'
<1>0. PICK u : u = runtsk
  OBVIOUS
<1> DEFINE s == resstk[u]
           n == Len(s)
           pri == [tcb_curpri EXCEPT ![u] = rescb_prevpri[res]]
           k == [tcxb_pc EXCEPT ![u] = "dispatcher_r"]
<1>1. /\ u \in TaskType /\ tcb_tstat[u] = "RUNNABLE"
  BY <1>0, AtTask DEF ReleaseResource
<1>2. /\ tcb_curpri \in [TaskType -> CurPri] /\ resstk \in [TaskType -> Seq(ResourceType)]
      /\ tcb_lastres \in [TaskType -> ResourceType \cup {RESID_NULL}]
      /\ rescb_prevpri \in [ResourceType -> CurPri \cup {TPRI_NULL}]
      /\ rescb_prevres \in [ResourceType -> ResourceType \cup {RESID_NULL}]
      /\ tcxb_pc \in [TaskType -> Continuation]
  BY DEF ResourceInv, ResourceTypes, DispatchInv, DispatchTypes
<1>3. /\ tcb_lastres[u] = res
      /\ rescb_prevpri' = [rescb_prevpri EXCEPT ![res] = TPRI_NULL]
      /\ tcb_lastres' = [tcb_lastres EXCEPT ![u] = rescb_prevres[res]]
      /\ resstk' = [resstk EXCEPT ![u] = SubSeq(@, 1, Len(@) - 1)]
      /\ UNCHANGED <<tcb_tstat, rescb_prevres>>
  BY <1>0 DEF ReleaseResource, ReleaseInOrder
<1>4. \/ StartDispatch(Preempt(rdy, pri), pri, k)
      \/ tcb_curpri' = pri /\ UNCHANGED <<runtsk, tcxb_pc>>
  BY <1>0 DEF ReleaseResource, RestoredPri, Dispatch
<1>5. /\ s \in Seq(ResourceType) /\ s # << >> /\ s[n] = res /\ n \in Nat /\ n \in 1 .. n
      /\ \A i \in 1 .. n :
           /\ rescb_prevres[s[i]] = IF i = 1 THEN RESID_NULL ELSE s[i - 1]
           /\ rescb_prevpri[s[i]] \in CurPri
           /\ tcb_curpri[u] >= resinib_ceilpri[s[i]]
           /\ resinib_ceilpri[s[i]] >= tinib_inipri[u]
           /\ \A j \in 1 .. i - 1 : rescb_prevpri[s[i]] >= resinib_ceilpri[s[j]]
  <2>1. StackOf(u) /\ s \in Seq(ResourceType)
    BY <1>1, <1>2 DEF ResourceInv
  <2>2. s # << >> /\ s[n] = res
    BY <1>3, <2>1, ResourceTables DEF StackOf
  <2>3. n \in Nat /\ n \in 1 .. n
    BY <2>1, <2>2
  <2> QED BY <2>1, <2>2, <2>3 DEF StackOf
<1>6. /\ resstk'[u] \in Seq(ResourceType) /\ Len(resstk'[u]) = n - 1
      /\ \A i \in 1 .. n - 1 : resstk'[u][i] = s[i]
      /\ n = 1 => resstk'[u] = << >>
      /\ \A t \in TaskType : t # u => resstk'[t] = resstk[t]
  <2>1. resstk'[u] = SubSeq(s, 1, n - 1)
    BY <1>1, <1>2, <1>3
  <2>2. \A t \in TaskType : t # u => resstk'[t] = resstk[t]
    BY <1>2, <1>3
  <2> QED BY <1>5, <2>1, <2>2, WithoutLast
<1> HIDE DEF s, n
\* What is held afterwards was held before, and is not res.
<1>7. ASSUME NEW t \in TaskType, NEW i \in 1 .. Len(resstk'[t])
      PROVE  /\ i \in 1 .. Len(resstk[t]) /\ resstk'[t][i] = resstk[t][i]
             /\ resstk[t][i] # res /\ resstk[t][i] \in ResourceType
  <2>1. /\ i \in 1 .. Len(resstk[t]) /\ resstk'[t][i] = resstk[t][i]
        /\ ~ (t = u /\ i = n)
    <3>1. CASE t = u
      BY <1>5, <1>6, <3>1 DEF n, s
    <3>2. CASE t # u
      BY <1>6, <3>2
    <3> QED BY <3>1, <3>2
  <2>2. resstk[t][i] = resstk[u][n] => t = u /\ i = n
    BY <1>1, <1>5, <2>1 DEF ResourceInv, HeldOnce, n, s
  <2>3. resstk[t][i] \in ResourceType
    BY <1>2, <2>1
  <2> QED BY <1>5, <2>1, <2>2, <2>3 DEF s
<1>8. /\ pri \in [TaskType -> CurPri] /\ pri[u] = rescb_prevpri[res]
      /\ \A t \in TaskType : t # u => pri[t] = tcb_curpri[t]
  BY <1>1, <1>2, <1>5
<1>9. k[u] = "dispatcher_r" /\ \A t \in TaskType : t # u => k[t] = tcxb_pc[t]
  BY <1>1, <1>2
<1> HIDE DEF pri, k
<1>10. /\ tcb_curpri' \in [TaskType -> CurPri] /\ RunnerActive'
       /\ \A t \in TaskType : resstk[t] # << >> => tcb_curpri'[t] = pri[t] /\ Started(t)'
  <2>1. ASSUME NEW t \in TaskType, resstk[t] # << >>
        PROVE  /\ tcb_tstat[t] = "RUNNABLE"
               /\ t = u \/ tcxb_pc[t] \in {"dispatcher_r", "ret_int_r"}
    BY <1>0, <2>1, HoldsNothing
  <2>2. CASE StartDispatch(Preempt(rdy, pri), pri, k)
    <3>1. PICK r, x : r = Preempt(rdy, pri) /\ x = r.schedtsk
      OBVIOUS
    <3>2. /\ runtsk' = x /\ tcxb_pc' = k
          /\ tcb_curpri' = IF x # TSKID_NULL /\ k[x] \in {"activate_r", "dispatcher_r_exepri"}
                           THEN [pri EXCEPT ![x] = tinib_exepri[x]] ELSE pri
      BY <2>2, <3>1 DEF StartDispatch
    <3>3. x \in TaskType \cup {TSKID_NULL}
      BY <3>2 DEF DispatchInv, DispatchTypes
    <3>4. /\ tcb_curpri' \in [TaskType -> CurPri]
          /\ \A t \in TaskType : k[t] \in {"dispatcher_r", "ret_int_r"} => tcb_curpri'[t] = pri[t]
      BY <1>8, <3>2, <3>3, ResourceTables
    <3>5. RunnerActive'
      BY <2>2, DispatchedActive
    <3>6. ASSUME NEW t \in TaskType, resstk[t] # << >>
          PROVE  tcb_curpri'[t] = pri[t] /\ Started(t)'
      <4>1. k[t] \in {"dispatcher_r", "ret_int_r"} /\ tcb_tstat[t] = "RUNNABLE"
        BY <1>9, <2>1, <3>6
      <4> QED BY <1>3, <3>2, <3>4, <4>1 DEF Started, Runnable
    <3> QED BY <3>4, <3>5, <3>6
  <2>3. CASE tcb_curpri' = pri /\ UNCHANGED <<runtsk, tcxb_pc>>
    BY <1>0, <1>3, <1>8, <2>1, <2>3 DEF Started, Runnable, ResourceInv, RunnerActive
  <2> QED BY <1>4, <2>2, <2>3
<1>11. ResourceTypes'
  <2>1. resstk' \in [TaskType -> Seq(ResourceType)]
    BY <1>2, <1>3, <1>6
  <2> QED BY <1>1, <1>2, <1>3, <1>10, <2>1 DEF ResourceTypes
<1>12. ASSUME NEW t \in TaskType, t # u PROVE StackOf(t)'
  <2>1. /\ resstk'[t] = resstk[t] /\ tcb_lastres'[t] = tcb_lastres[t]
        /\ resstk[t] # << >> => tcb_curpri'[t] = tcb_curpri[t] /\ Started(t)'
    BY <1>2, <1>3, <1>6, <1>8, <1>10, <1>12
  <2>2. \A i \in 1 .. Len(resstk[t]) :
          /\ rescb_prevres'[resstk[t][i]] = rescb_prevres[resstk[t][i]]
          /\ rescb_prevpri'[resstk[t][i]] = rescb_prevpri[resstk[t][i]]
    BY <1>2, <1>3, <1>7, <2>1
  <2>3. StackOf(t) /\ resstk[t] \in Seq(ResourceType)
    BY <1>2 DEF ResourceInv
  <2>4. CASE resstk[t] = << >>
    BY <2>1, <2>3, <2>4 DEF StackOf
  <2>5. CASE resstk[t] # << >>
    BY <2>1, <2>2, <2>3, <2>5 DEF StackOf
  <2> QED BY <2>4, <2>5
<1>13. StackOf(u)'
  <2>1. PICK q, p, m : q = resstk'[u] /\ p = tcb_curpri'[u] /\ m = n - 1
    OBVIOUS
  <2>2. /\ q \in Seq(ResourceType) /\ Len(q) = m /\ m \in Nat /\ p = rescb_prevpri[res]
        /\ q # << >> <=> n # 1
    <3>1. resstk[u] # << >>
      BY <1>5 DEF s
    <3>2. p = rescb_prevpri[res]
      BY <1>1, <1>8, <1>10, <2>1, <3>1
    <3>3. m \in Nat /\ Len(q) = m /\ q \in Seq(ResourceType)
      BY <1>5, <1>6, <2>1
    <3>4. q # << >> <=> n # 1
      BY <1>5, <1>6, <2>1, <3>3
    <3> QED BY <3>2, <3>3, <3>4
  <2>3. \A i \in 1 .. m : i \in 1 .. n /\ q[i] = s[i] /\ (i # 1 => i - 1 \in 1 .. m)
                         /\ (\A j \in 1 .. i - 1 : j \in 1 .. m)
    BY <1>5, <1>6, <2>1
  <2>4. \A i \in 1 .. m :
          /\ rescb_prevres'[q[i]] = rescb_prevres[s[i]]
          /\ rescb_prevpri'[q[i]] = rescb_prevpri[s[i]]
    <3> SUFFICES ASSUME NEW i \in 1 .. m
                 PROVE  /\ rescb_prevres'[q[i]] = rescb_prevres[s[i]]
                        /\ rescb_prevpri'[q[i]] = rescb_prevpri[s[i]]
      OBVIOUS
    <3>1. q[i] = s[i] /\ q[i] # res /\ q[i] \in ResourceType
      BY <1>1, <1>7, <2>1, <2>2, <2>3
    <3> QED BY <1>2, <1>3, <3>1
  <2>5. tcb_lastres'[u] = IF q = << >> THEN RESID_NULL ELSE q[Len(q)]
    <3>1. tcb_lastres'[u] = rescb_prevres[res]
      BY <1>1, <1>2, <1>3
    <3>2. rescb_prevres[res] = IF n = 1 THEN RESID_NULL ELSE s[n - 1]
      BY <1>5
    <3>3. n # 1 => m \in 1 .. m
      BY <1>5, <2>1
    <3> QED BY <2>1, <2>2, <2>3, <3>1, <3>2, <3>3
  <2>6. Started(u)'
    <3>1. resstk[u] # << >>
      BY <1>5 DEF s
    <3> QED BY <1>1, <1>10, <3>1
  <2>7. ASSUME NEW i \in 1 .. m
        PROVE  /\ rescb_prevres'[q[i]] = IF i = 1 THEN RESID_NULL ELSE q[i - 1]
               /\ rescb_prevpri'[q[i]] \in CurPri
               /\ p >= resinib_ceilpri[q[i]]
               /\ resinib_ceilpri[q[i]] >= tinib_inipri[u]
               /\ \A j \in 1 .. i - 1 : rescb_prevpri'[q[i]] >= resinib_ceilpri[q[j]]
    <3>1. i \in 1 .. n - 1
      BY <2>1
    <3>2. p >= resinib_ceilpri[q[i]]
      BY <1>5, <2>2, <2>3, <3>1
    <3>3. rescb_prevres'[q[i]] = IF i = 1 THEN RESID_NULL ELSE q[i - 1]
      BY <1>5, <2>3, <2>4
    <3>4. \A j \in 1 .. i - 1 : rescb_prevpri'[q[i]] >= resinib_ceilpri[q[j]]
      BY <1>5, <2>3, <2>4
    <3> QED BY <1>5, <2>3, <2>4, <3>2, <3>3, <3>4
  <2> QED BY <2>1, <2>2, <2>5, <2>6, <2>7 DEF StackOf
<1>14. TakenHeld'
  <2> SUFFICES ASSUME NEW x \in ResourceType
               PROVE  rescb_prevpri'[x] # TPRI_NULL
                        <=> \E t \in TaskType : \E i \in 1 .. Len(resstk'[t]) : resstk'[t][i] = x
    BY DEF TakenHeld, Elements
  <2>1. rescb_prevpri[x] # TPRI_NULL
          <=> \E t \in TaskType : \E i \in 1 .. Len(resstk[t]) : resstk[t][i] = x
    BY DEF ResourceInv, TakenHeld, Elements
  <2>2. CASE x = res
    <3>1. rescb_prevpri'[x] = TPRI_NULL
      BY <1>2, <1>3, <2>2
    <3> QED BY <1>7, <2>2, <3>1
  <2>3. CASE x # res
    <3>1. rescb_prevpri'[x] = rescb_prevpri[x]
      BY <1>2, <1>3, <2>3
    <3>2. ASSUME NEW t \in TaskType, NEW i \in 1 .. Len(resstk[t]), resstk[t][i] = x
          PROVE  i \in 1 .. Len(resstk'[t]) /\ resstk'[t][i] = x
      <4>1. CASE t = u
        <5>1. i # n
          BY <1>5, <2>3, <3>2, <4>1 DEF s
        <5>2. i \in 1 .. n - 1
          BY <1>5, <4>1, <5>1 DEF n, s
        <5> QED BY <1>6, <3>2, <4>1, <5>2 DEF s
      <4>2. CASE t # u
        BY <1>6, <3>2, <4>2
      <4> QED BY <4>1, <4>2
    <3> QED BY <1>7, <2>1, <3>1, <3>2
  <2> QED BY <2>2, <2>3
<1>15. HeldOnce'
  <2> SUFFICES ASSUME NEW t \in TaskType, NEW v \in TaskType,
                      NEW i \in 1 .. Len(resstk'[t]), NEW j \in 1 .. Len(resstk'[v]),
                      resstk'[t][i] = resstk'[v][j]
               PROVE  t = v /\ i = j
    BY DEF HeldOnce
  <2>1. /\ i \in 1 .. Len(resstk[t]) /\ j \in 1 .. Len(resstk[v])
        /\ resstk[t][i] = resstk[v][j]
    BY <1>7
  <2> QED BY <2>1 DEF ResourceInv, HeldOnce
<1>16. ASSUME NEW t \in TaskType PROVE StackOf(t)'
  BY <1>12, <1>13
<1> QED BY <1>10, <1>11, <1>14, <1>15, <1>16 DEF ResourceInv

--------------------------------------------------------------------------------
(* The theorems *)

LEMMA WiderSeq ==
  ASSUME NEW S, NEW T, S \in SUBSET T, NEW s \in Seq(S)
  PROVE  s \in Seq(T)
<1>1. /\ Len(s) \in Nat /\ s = [i \in 1 .. Len(s) |-> s[i]]
      /\ \A i \in 1 .. Len(s) : s[i] \in T
  OBVIOUS
<1> QED BY <1>1

LEMMA InitStacks == Init => ResourceInv
<1> SUFFICES ASSUME Init PROVE ResourceInv
  OBVIOUS
<1>1. ResourceTypes
  BY ResourceTables DEF Init, ResourceTypes
<1>2. \A t \in TaskType : resstk[t] = << >> /\ tcb_lastres[t] = RESID_NULL
  BY DEF Init
<1>3. RunnerActive
  BY DEF Init, RunnerActive
<1>4. \A t \in TaskType : StackOf(t)
  BY <1>2 DEF StackOf
<1>5. TakenHeld
  BY <1>2 DEF Init, TakenHeld, Elements
<1>6. HeldOnce
  BY <1>2 DEF HeldOnce
<1> QED BY <1>1, <1>3, <1>4, <1>5, <1>6 DEF ResourceInv

LEMMA NextStacks == ResourceInv /\ DispatchInv /\ DispatchInv' /\ [Next]_vars => ResourceInv'
<1> SUFFICES ASSUME ResourceInv, DispatchInv, DispatchInv', [Next]_vars PROVE ResourceInv'
  OBVIOUS
<1>1. CASE InitializeTask
  BY <1>1, InitializeKeepsStacks
<1>2. CASE StartOS \/ LeaveIdle
  BY <1>2, IdleKeepsStacks
<1>3. ASSUME NEW t \in TaskType, ActivateTask(t) PROVE ResourceInv'
  <2>1. CASE ActivateDormant(t)
    BY <2>1, ActivateKeepsStacks
  <2>2. CASE ActivateAgain(t)
    BY <2>2, UntouchedStep DEF ActivateAgain
  <2> QED BY <1>3, <2>1, <2>2 DEF ActivateTask
<1>4. (tcb_actcnt[runtsk] > 0) \in BOOLEAN /\ TSKID_NULL \in TaskType \cup {TSKID_NULL}
  OBVIOUS
<1>5. CASE TerminateTask
  BY <1>4, <1>5, EndTaskKeepsStacks DEF TerminateTask
<1>6. CASE ChainSelf
  BY <1>4, <1>6, EndTaskKeepsStacks DEF ChainSelf
<1>7. ASSUME NEW t \in TaskType, ChainOther(t) PROVE ResourceInv'
  <2>1. PICK x : x = IF tcb_tstat[t] = "DORMANT" THEN t ELSE TSKID_NULL
    OBVIOUS
  <2>2. /\ x \in TaskType \cup {TSKID_NULL}
        /\ x # TSKID_NULL => x # runtsk /\ tcb_tstat[x] = "DORMANT"
    BY <1>7, <2>1 DEF ChainOther
  <2>3. AtTaskLevel /\ HoldsNoResource /\ EndTask(tcb_actcnt[runtsk] > 0, x)
    BY <1>7, <2>1 DEF ChainOther
  <2> QED BY <1>4, <2>2, <2>3, EndTaskKeepsStacks
<1>8. CASE Schedule
  BY <1>8, YieldKeepsStacks
<1>9. ASSUME NEW res \in ResourceType, GetResource(res) \/ ReleaseResource(res) PROVE ResourceInv'
  BY <1>9, GetKeepsStacks, ReleaseKeepsStacks
<1>10. ASSUME NEW t \in ExtTask, NEW mask \in Mask, SetEvent(t, mask) PROVE ResourceInv'
  BY <1>10, SetEventKeepsStacks
<1>11. ASSUME NEW mask \in Mask, ClearEvent(mask) \/ WaitEvent(mask) PROVE ResourceInv'
  <2>1. CASE ClearEvent(mask)
    BY <2>1, UntouchedStep DEF ClearEvent
  <2>2. CASE WaitEvent(mask)
    BY <2>2, YieldKeepsStacks
  <2> QED BY <1>11, <2>1, <2>2
<1>12. ASSUME NEW i \in IsrType, Interrupt(i) PROVE ResourceInv'
  BY <1>12, UntouchedStep DEF Interrupt, tcb
<1>13. CASE InterruptReturn
  BY <1>13, ReturnKeepsStacks
<1>14. CASE UNCHANGED vars
  BY <1>14, UntouchedStep DEF vars, tcb
<1> QED BY <1>1, <1>2, <1>3, <1>5, <1>6, <1>7, <1>8, <1>9, <1>10, <1>11, <1>12, <1>13, <1>14
        DEF Next

\* In every execution tcb_lastres and the chain of rescb_prevres are exactly the resources
\* a task has taken and not given back, oldest first, rescb_prevpri is the priority to go
\* back to, and no resource is held twice (GetResource and ReleaseResource in resource.c).
THEOREM StacksKept == Spec => []ResourcesStacked
<1>1. Init => DispatchInv /\ ResourceInv
  BY InitDispatch, InitStacks
<1>2. DispatchInv /\ ResourceInv /\ [Next]_vars => (DispatchInv /\ ResourceInv)'
  BY NextDispatch, NextStacks
<1>3. ResourceInv => ResourcesStacked
  BY StackedParts DEF ResourceInv
<1> QED BY <1>1, <1>2, <1>3, PTL DEF Spec

\* Every variable of the kernel keeps its type: a priority is always that of a task, a
\* ceiling or TPRI_SCHEDULER, and a control block never refers outside its table.
THEOREM TypesKept == Spec => []TypeOK
<1>1. Init => DispatchInv /\ ResourceInv /\ CountTypes /\ NoLostActivation
  BY InitDispatch, InitStacks, InitCounts
<1>2. DispatchInv /\ ResourceInv /\ CountTypes /\ NoLostActivation /\ [Next]_vars
        => (DispatchInv /\ ResourceInv /\ CountTypes /\ NoLostActivation)'
  BY NextDispatch, NextStacks, CountsStep
<1>3. DispatchInv /\ ResourceInv /\ CountTypes => TypeOK
  <2> SUFFICES ASSUME DispatchInv, ResourceInv, CountTypes PROVE TypeOK
    OBVIOUS
  <2>1. boot \in 0 .. tnum_task + 1 /\ callevel \in CallLevel
    <3>1. boot = tnum_task + 1 \/ (boot \in Int /\ 0 <= boot /\ boot <= tnum_task)
      BY DEF DispatchInv, Context, Booting
    <3>2. boot \in 0 .. tnum_task + 1
      BY <3>1, Tables
    <3> QED BY <3>2 DEF DispatchInv, Context, Booting, CallLevel
  <2>2. isrstk \in Seq([callevel : CallLevel, runisr : IsrType \cup {0, ISRID_NULL}])
    <3>1. isrstk \in Seq(Stacked)
      BY DEF DispatchInv, Context
    <3>2. Stacked \in SUBSET [callevel : CallLevel, runisr : IsrType \cup {0, ISRID_NULL}]
      BY DEF Stacked, CallLevel
    <3> QED BY <3>1, <3>2, WiderSeq
  <2>3. runisr \in IsrType \cup {0, ISRID_NULL}
    BY DEF DispatchInv, Context
  <2>4. DispatchTypes /\ BlockTypes /\ ResourceTypes
    BY DEF DispatchInv, ResourceInv
  <2> QED BY <2>1, <2>2, <2>3, <2>4 DEF TypeOK, DispatchTypes, BlockTypes, ResourceTypes, CountTypes
<1> QED BY <1>1, <1>2, <1>3, PTL DEF Spec

--------------------------------------------------------------------------------
(* Precedence and the priority ceiling protocol. *)

SetAside == {"dispatcher_r", "ret_int_r"}

\* The tasks that run or were set aside while they ran.
StartedSet(u, k) == {t \in TaskType : t = u \/ k[t] \in SetAside}

\* StartedTasksLead for the scheduler data r, the priorities pri, the runnable tasks R and
\* the started tasks U.
Leads(r, pri, R, U) ==
  \A u \in U : u \in R /\ u # r.schedtsk =>
    /\ pri[u] \in TaskPri /\ r.queue[pri[u]][1] = u
    /\ \A t \in R : t = r.schedtsk \/ pri[t] > pri[u] => tinib_inipri[t] > pri[u]

\* No active task is below its initial priority, nor will it be when it releases what it
\* holds; a task that waits will take its execution priority.
AboveInitial ==
  /\ \A t \in TaskType : tcb_tstat[t] # "DORMANT" => tcb_curpri[t] >= tinib_inipri[t]
  /\ \A t \in TaskType : \A i \in 1 .. Len(resstk[t]) :
       rescb_prevpri[resstk[t][i]] >= tinib_inipri[t]

WaitingFresh == \A t \in TaskType : tcb_tstat[t] = "WAITING" => tcxb_pc[t] \notin SetAside

LeadInv == AboveInitial /\ WaitingFresh /\ StartedTasksLead

\* What is known of the tasks before the step.
KernelInv == DispatchInv /\ ResourceInv

LEMMA LeadsStarted ==
  ASSUME DispatchTypes
  PROVE  StartedTasksLead <=> Leads(rdy, tcb_curpri, Runnable, StartedSet(runtsk, tcxb_pc))
BY DEF StartedTasksLead, Leads, StartedSet, SetAside, Started, Ready, Runnable

--------------------------------------------------------------------------------
(* The functions of task.c *)

\* The priority of the scheduled task does not matter, nor do those of other tasks.
LEMMA LeadsPri ==
  ASSUME NEW r, NEW pri, NEW pri2, NEW R, NEW U, Leads(r, pri, R, U),
         \A t \in R : t # r.schedtsk => pri2[t] = pri[t]
  PROVE  Leads(r, pri2, R, U)
BY DEF Leads

LEMMA LeadsFewer ==
  ASSUME NEW r, NEW pri, NEW R, NEW U, NEW U2, Leads(r, pri, R, U),
         \A u \in U2 : u \in R /\ u # r.schedtsk => u \in U
  PROVE  Leads(r, pri, R, U2)
BY DEF Leads

\* A ready task is in its queue, below or at nextpri.
LEMMA ReadyBelow ==
  ASSUME NEW r, NEW pri, NEW X, Sound(r, pri, X), NEW x \in X
  PROVE  /\ pri[x] \in TaskPri /\ pri[x] \in r.primap /\ pri[x] <= r.nextpri
         /\ pri[x] \in Nat /\ r.nextpri \in Nat /\ r.primap # {}
<1>1. pri[x] \in TaskPri /\ x \in Elements(r.queue[pri[x]])
  BY DEF Sound, QueuesHold
<1>2. r.queue[pri[x]] # << >>
  BY <1>1 DEF Elements
<1>3. pri[x] \in r.primap /\ \A p \in r.primap : p <= r.nextpri
  BY <1>1, <1>2 DEF Sound, MapExact
<1>4. r.nextpri \in Nat /\ pri[x] \in Nat
  BY <1>1, TaskTable, SchedulerFields DEF Sound
<1> QED BY <1>1, <1>3, <1>4

LEMMA LeadsSearch ==
  ASSUME NEW r, NEW pri \in [TaskType -> Nat], NEW R \in SUBSET TaskType, Consistent(r, pri, R),
         NEW U, Leads(r, pri, R, U)
  PROVE  Leads(SearchSchedtsk(r), pri, R \ {r.schedtsk}, U)
<1>0. PICK X, m : X = R \ {r.schedtsk} /\ m = SearchSchedtsk(r)
  OBVIOUS
<1>1. X \in SUBSET TaskType /\ Sound(r, pri, X)
  BY <1>0 DEF Consistent
<1>2. Searched(m, r, pri, X)
  BY <1>0, <1>1, TaskTable, SearchFacts
<1> SUFFICES ASSUME NEW u \in U, u \in X, u # m.schedtsk
             PROVE  /\ pri[u] \in TaskPri /\ m.queue[pri[u]][1] = u
                    /\ \A t \in X : t = m.schedtsk \/ pri[t] > pri[u] => tinib_inipri[t] > pri[u]
  BY <1>0 DEF Leads
<1>3. /\ pri[u] \in TaskPri /\ r.queue[pri[u]][1] = u
      /\ \A t \in R : t = r.schedtsk \/ pri[t] > pri[u] => tinib_inipri[t] > pri[u]
  BY <1>0 DEF Leads
<1>4. pri[u] <= r.nextpri /\ pri[u] \in Nat /\ r.nextpri \in Nat
  BY <1>1, ReadyBelow
<1>5. /\ m.schedtsk \in X /\ pri[m.schedtsk] = r.nextpri /\ m.schedtsk = r.queue[r.nextpri][1]
      /\ \A p \in TaskPri : p # r.nextpri => m.queue[p] = r.queue[p]
  BY <1>2 DEF Searched
<1>6. pri[u] # r.nextpri
  BY <1>3, <1>5
<1>7. pri[m.schedtsk] > pri[u]
  BY <1>4, <1>5, <1>6
<1>8. X \subseteq R
  BY <1>0
<1> QED BY <1>3, <1>5, <1>6, <1>7, <1>8

\* A task that arrives at its initial priority and has not started.
LEMMA LeadsArrive ==
  ASSUME NEW r, NEW pri \in [TaskType -> Nat], NEW R \in SUBSET TaskType, Consistent(r, pri, R),
         NEW U, Leads(r, pri, R, U),
         NEW t \in TaskType, t \notin R, t \notin U, pri[t] = tinib_inipri[t],
         \A x \in R : pri[x] >= tinib_inipri[x]
  PROVE  Leads(MakeRunnable(r, pri, t), pri, R \cup {t}, U)
<1>0. PICK X, m, s : X = R \ {r.schedtsk} /\ m = MakeRunnable(r, pri, t) /\ s = r.schedtsk
  OBVIOUS
<1>1. /\ X \in SUBSET TaskType /\ Sound(r, pri, X) /\ BestChosen(r, pri)
      /\ s # TSKID_NULL => s \in R
  BY <1>0 DEF Consistent
<1>2. t # s /\ pri[t] \in TaskPri /\ pri[t] \in Nat
  BY <1>1, Tables
<1>3. MadeRunnable(m, r, pri, X, t, s)
  BY <1>0, <1>1, <1>2, TaskTable, MakeRunnableFacts
<1>4. /\ m.schedtsk = IF s = TSKID_NULL \/ pri[t] > pri[s] THEN t ELSE s
      /\ \A p \in TaskPri : r.queue[p] # << >> =>
           \/ m.queue[p] # << >> /\ m.queue[p][1] = r.queue[p][1]
           \/ m.schedtsk = t /\ s # TSKID_NULL /\ p = pri[s]
      /\ m.schedtsk = t /\ s # TSKID_NULL =>
           /\ pri[s] \in TaskPri /\ m.queue[pri[s]] # << >> /\ m.queue[pri[s]][1] = s
  BY <1>3 DEF MadeRunnable
\* With a scheduled task s, no ready task is above it.
<1>5. ASSUME NEW x \in X PROVE s # TSKID_NULL /\ pri[x] <= pri[s] /\ pri[x] \in Nat /\ pri[s] \in Nat
  <2>1. /\ pri[x] <= r.nextpri /\ pri[x] \in Nat /\ r.nextpri \in Nat /\ r.primap # {}
    BY <1>1, ReadyBelow
  <2>2. s # TSKID_NULL /\ pri[s] >= r.nextpri
    BY <1>0, <1>1, <2>1 DEF BestChosen
  <2>3. pri[s] \in Nat
    BY <1>1, <2>2
  <2> QED BY <2>1, <2>2, <2>3
<1> SUFFICES ASSUME NEW u \in U, u \in R, u # m.schedtsk
             PROVE  /\ pri[u] \in TaskPri /\ m.queue[pri[u]][1] = u
                    /\ \A x \in R \cup {t} : x = m.schedtsk \/ pri[x] > pri[u]
                                             => tinib_inipri[x] > pri[u]
  BY <1>0 DEF Leads
<1>6. CASE u # s
  <2>1. u \in X /\ s # TSKID_NULL /\ s \in R /\ pri[u] <= pri[s] /\ pri[u] \in Nat /\ pri[s] \in Nat
    BY <1>0, <1>1, <1>5, <1>6
  <2>2. /\ pri[u] \in TaskPri /\ r.queue[pri[u]][1] = u
        /\ \A x \in R : x = s \/ pri[x] > pri[u] => tinib_inipri[x] > pri[u]
    BY <1>0, <1>6 DEF Leads
  <2>3. pri[s] > pri[u]
    <3>1. tinib_inipri[s] > pri[u] /\ pri[s] >= tinib_inipri[s]
      BY <2>1, <2>2
    <3>2. tinib_inipri[s] \in Nat
      BY <2>1, Tables
    <3> QED BY <2>1, <3>1, <3>2
  <2>4. r.queue[pri[u]] # << >>
    <3>1. pri[u] \in r.primap
      BY <1>1, <2>1, ReadyBelow
    <3> QED BY <1>1, <3>1 DEF Sound, MapExact
  <2>5. m.queue[pri[u]][1] = u
    BY <1>4, <2>1, <2>2, <2>3, <2>4
  <2>6. m.schedtsk = t => pri[t] > pri[u]
    BY <1>2, <1>4, <2>1, <2>3
  <2>7. ASSUME NEW x \in R \cup {t}, x = m.schedtsk \/ pri[x] > pri[u]
        PROVE  tinib_inipri[x] > pri[u]
    <3>1. CASE x = t
      BY <2>6, <2>7, <3>1
    <3>2. CASE x # t
      BY <1>4, <2>2, <2>7, <3>2
    <3> QED BY <3>1, <3>2
  <2> QED BY <2>2, <2>5, <2>7
<1>7. CASE u = s
  <2>1. s \in R /\ s # TSKID_NULL /\ pri[s] \in Nat /\ m.schedtsk = t /\ pri[t] > pri[s]
    BY <1>2, <1>4, <1>7, Tables
  <2>2. pri[u] \in TaskPri /\ m.queue[pri[u]][1] = u
    BY <1>4, <1>7, <2>1
  <2>3. ASSUME NEW x \in R \cup {t}, x = m.schedtsk \/ pri[x] > pri[u]
        PROVE  tinib_inipri[x] > pri[u]
    <3>1. CASE x = t
      BY <1>7, <2>1, <3>1
    <3>2. CASE x # t
      <4>1. x \in R /\ pri[x] > pri[s]
        BY <1>7, <2>1, <2>3, <3>2
      <4>2. x \in X
        BY <1>0, <2>1, <4>1
      <4> QED BY <1>5, <4>1, <4>2
    <3> QED BY <3>1, <3>2
  <2> QED BY <2>2, <2>3
<1> QED BY <1>6, <1>7

\* The scheduled task has fallen below nextpri; the others that have not started are at
\* their initial priority.
LEMMA LeadsYield ==
  ASSUME NEW r, NEW pri \in [TaskType -> Nat], NEW R \in SUBSET TaskType,
         Sound(r, pri, R \ {r.schedtsk}), r.schedtsk \in R, pri[r.schedtsk] < r.nextpri,
         pri[r.schedtsk] >= tinib_inipri[r.schedtsk],
         NEW U, Leads(r, pri, R, U),
         r.schedtsk \in U => \A t \in R : t # r.schedtsk /\ t \notin U => pri[t] = tinib_inipri[t]
  PROVE  Leads(Preempt(r, pri), pri, R, U)
<1>0. PICK X, m, s, p : X = R \ {r.schedtsk} /\ m = Preempt(r, pri) /\ s = r.schedtsk /\ p = pri[s]
  OBVIOUS
<1>1. X \in SUBSET TaskType /\ s \in TaskType /\ s \notin X /\ p \in Nat /\ tinib_inipri[s] \in Nat
  BY <1>0, Tables
<1>2. Preempted(m, r, pri, X, s, p)
  BY <1>0, <1>1, TaskTable, PreemptFacts
<1>3. /\ m.schedtsk \in X /\ pri[m.schedtsk] = r.nextpri
      /\ p \in TaskPri /\ m.queue[p] # << >> /\ m.queue[p][1] = s
      /\ m.schedtsk = r.queue[r.nextpri][1] /\ r.nextpri \in TaskPri /\ r.nextpri \in Nat
      /\ \A q \in TaskPri : q # r.nextpri /\ q # p => m.queue[q] = r.queue[q]
  BY <1>2, Tables DEF Preempted
\* A started task that is not scheduled was, and stays, below the initial priority of s.
<1>4. ASSUME NEW u \in U, u \in X
      PROVE  /\ pri[u] \in TaskPri /\ r.queue[pri[u]][1] = u /\ pri[u] \in Nat
             /\ \A t \in R : t = s \/ pri[t] > pri[u] => tinib_inipri[t] > pri[u]
             /\ p > pri[u]
  <2>1. /\ pri[u] \in TaskPri /\ r.queue[pri[u]][1] = u
        /\ \A t \in R : t = s \/ pri[t] > pri[u] => tinib_inipri[t] > pri[u]
    BY <1>0, <1>4 DEF Leads
  <2>2. pri[u] \in Nat
    BY <2>1, Tables
  <2>3. tinib_inipri[s] > pri[u] /\ p >= tinib_inipri[s]
    BY <1>0, <2>1
  <2> QED BY <1>1, <2>1, <2>2, <2>3
<1> SUFFICES ASSUME NEW u \in U, u \in R, u # m.schedtsk
             PROVE  /\ pri[u] \in TaskPri /\ m.queue[pri[u]][1] = u
                    /\ \A t \in R : t = m.schedtsk \/ pri[t] > pri[u] => tinib_inipri[t] > pri[u]
  BY <1>0 DEF Leads
<1>5. CASE u # s
  <2>1. u \in X
    BY <1>0, <1>5
  <2>2. /\ pri[u] \in TaskPri /\ r.queue[pri[u]][1] = u /\ pri[u] \in Nat /\ p > pri[u]
        /\ \A t \in R : t = s \/ pri[t] > pri[u] => tinib_inipri[t] > pri[u]
    BY <1>4, <2>1
  <2>3. pri[u] # r.nextpri /\ pri[u] # p
    BY <1>1, <1>3, <2>2
  <2>4. pri[u] <= r.nextpri
    BY <1>0, <2>1, ReadyBelow
  <2>5. pri[m.schedtsk] > pri[u] /\ m.schedtsk \in R
    BY <1>0, <1>3, <2>2, <2>3, <2>4
  <2> QED BY <1>3, <2>2, <2>3, <2>5
<1>6. CASE u = s
  <2>1. pri[u] \in TaskPri /\ m.queue[pri[u]][1] = u
    BY <1>0, <1>3, <1>6
  <2>2. ASSUME NEW t \in R, t = m.schedtsk \/ pri[t] > pri[u]
        PROVE  tinib_inipri[t] > pri[u]
    <3>1. pri[t] > p /\ t # s /\ t \in X /\ pri[t] \in Nat
      BY <1>0, <1>1, <1>3, <1>6, <2>2
    <3>2. t \notin U
      BY <1>1, <1>4, <3>1
    <3> QED BY <1>0, <1>6, <3>1, <3>2
  <2> QED BY <2>1, <2>2
<1> QED BY <1>5, <1>6

--------------------------------------------------------------------------------
(* After a service *)

LEMMA LeadsStartedNext ==
  ASSUME DispatchTypes',
         Leads(rdy', tcb_curpri', Runnable', StartedSet(runtsk', tcxb_pc'))
  PROVE  StartedTasksLead'
BY DEF StartedTasksLead, Leads, StartedSet, SetAside, Started, Ready, Runnable

\* A service that ends in the dispatcher with r, pri and k.
LEMMA LeadDispatch ==
  ASSUME DispatchInv', NEW r, NEW pri \in [TaskType -> Nat], NEW k, StartDispatch(r, pri, k),
         Leads(r, pri, Runnable', StartedSet(TSKID_NULL, k)),
         \A t \in TaskType : tcb_tstat'[t] # "DORMANT" => pri[t] >= tinib_inipri[t],
         \A t \in TaskType : \A i \in 1 .. Len(resstk'[t]) :
           rescb_prevpri'[resstk'[t][i]] >= tinib_inipri[t],
         \A t \in TaskType : tcb_tstat'[t] = "WAITING" => k[t] \notin SetAside
  PROVE  LeadInv'
<1>1. PICK s : s = r.schedtsk
  OBVIOUS
<1>2. /\ rdy' = r /\ runtsk' = s /\ tcxb_pc' = k
      /\ tcb_curpri' = IF s # TSKID_NULL /\ k[s] \in {"activate_r", "dispatcher_r_exepri"}
                       THEN [pri EXCEPT ![s] = tinib_exepri[s]] ELSE pri
  BY <1>1 DEF StartDispatch
<1>3. DispatchTypes' /\ s \in TaskType \cup {TSKID_NULL} /\ Runnable' \in SUBSET TaskType
  BY <1>2 DEF DispatchInv, DispatchTypes, Runnable
<1>4. /\ \A t \in TaskType : t # s => tcb_curpri'[t] = pri[t]
      /\ \A t \in TaskType : tcb_curpri'[t] \in {pri[t], tinib_exepri[t]}
  BY <1>2, <1>3
<1>5. AboveInitial'
  <2>1. \A t \in TaskType : tcb_tstat'[t] # "DORMANT" => tcb_curpri'[t] >= tinib_inipri[t]
    BY <1>4, Tables
  <2> QED BY <2>1 DEF AboveInitial
<1>6. Leads(r, tcb_curpri', Runnable', StartedSet(TSKID_NULL, k))
  BY <1>1, <1>3, <1>4, LeadsPri
<1>7. \A u \in StartedSet(s, k) : u \in Runnable' /\ u # r.schedtsk => u \in StartedSet(TSKID_NULL, k)
  BY <1>1 DEF StartedSet
<1>8. Leads(r, tcb_curpri', Runnable', StartedSet(s, k))
  BY <1>6, <1>7, LeadsFewer
<1>9. StartedTasksLead'
  BY <1>2, <1>3, <1>8, LeadsStartedNext
<1>10. WaitingFresh'
  BY <1>2 DEF WaitingFresh
<1> QED BY <1>5, <1>9, <1>10 DEF LeadInv

\* What the invariant says before a service.
LEMMA LeadBefore ==
  ASSUME KernelInv, LeadInv
  PROVE  /\ Leads(rdy, tcb_curpri, Runnable, StartedSet(runtsk, tcxb_pc))
         /\ Consistent(rdy, tcb_curpri, Runnable) /\ Runnable \in SUBSET TaskType
         /\ tcb_curpri \in [TaskType -> Nat] /\ tcxb_pc \in [TaskType -> Continuation]
         /\ tcb_tstat \in [TaskType -> TaskState]
BY LeadsStarted, Pack DEF KernelInv, LeadInv, DispatchInv, DispatchTypes, BlockTypes

\* A service that has made the task t runnable and dispatches if it is the better one.
LEMMA LeadIfBetter ==
  ASSUME KernelInv, LeadInv, DispatchInv',
         NEW t \in TaskType, NEW pri \in [TaskType -> Nat], NEW k \in [TaskType -> Continuation],
         t \notin Runnable, pri[t] = tinib_inipri[t], k[t] \notin SetAside,
         \A x \in Runnable : pri[x] = tcb_curpri[x] /\ k[x] = tcxb_pc[x],
         DispatchIfBetter(MakeRunnable(rdy, pri, t), pri, k, t),
         Runnable' = Runnable \cup {t}, UNCHANGED rescb,
         \A x \in TaskType : tcb_tstat'[x] # "DORMANT" => pri[x] >= tinib_inipri[x],
         \A x \in TaskType : tcb_tstat'[x] = "WAITING" => k[x] \notin SetAside /\ x # runtsk
  PROVE  LeadInv'
<1>1. PICK r, U : r = MakeRunnable(rdy, pri, t) /\ U = StartedSet(runtsk, k)
  OBVIOUS
<1>2. /\ Leads(rdy, tcb_curpri, Runnable, StartedSet(runtsk, tcxb_pc))
      /\ Consistent(rdy, tcb_curpri, Runnable) /\ Runnable \in SUBSET TaskType
      /\ tcb_tstat \in [TaskType -> TaskState]
  BY LeadBefore
<1>3. Leads(rdy, pri, Runnable, U)
  <2>1. Leads(rdy, pri, Runnable, StartedSet(runtsk, tcxb_pc))
    BY <1>2, LeadsPri
  <2>2. \A u \in U : u \in Runnable /\ u # rdy.schedtsk => u \in StartedSet(runtsk, tcxb_pc)
    BY <1>1 DEF StartedSet
  <2> QED BY <2>1, <2>2, LeadsFewer
<1>4. Consistent(rdy, pri, Runnable)
  BY <1>2, OtherPriorities
<1>5. t \notin U
  <2>1. t # runtsk
    BY Tables DEF KernelInv, ResourceInv, RunnerActive, Runnable
  <2> QED BY <1>1, <2>1 DEF StartedSet
<1>6. \A x \in Runnable : pri[x] >= tinib_inipri[x]
  <2>1. \A x \in Runnable : tcb_tstat[x] # "DORMANT" /\ x \in TaskType
    BY DEF Runnable
  <2> QED BY <2>1 DEF LeadInv, AboveInitial
<1>7. Leads(r, pri, Runnable', U)
  BY <1>1, <1>2, <1>3, <1>4, <1>5, <1>6, LeadsArrive
<1>8. \A x \in TaskType : \A i \in 1 .. Len(resstk'[x]) :
        rescb_prevpri'[resstk'[x][i]] >= tinib_inipri[x]
  BY DEF LeadInv, AboveInitial, rescb
<1>9. CASE r.schedtsk = t /\ callevel = "TCL_TASK"
  <2>1. PICK k2 : k2 = [k EXCEPT ![runtsk] = "dispatcher_r"]
    OBVIOUS
  <2>2. StartDispatch(r, pri, k2)
    BY <1>1, <1>9, <2>1 DEF DispatchIfBetter, Dispatch
  <2>3. \A x \in TaskType : x # runtsk => k2[x] = k[x]
    BY <2>1
  <2>4. \A u \in StartedSet(TSKID_NULL, k2) : u \in U
    BY <1>1, <2>3, Tables DEF StartedSet
  <2>5. Leads(r, pri, Runnable', StartedSet(TSKID_NULL, k2))
    BY <1>7, <2>4, LeadsFewer
  <2>6. \A x \in TaskType : tcb_tstat'[x] = "WAITING" => k2[x] \notin SetAside
    BY <2>3
  <2> QED BY <1>8, <2>2, <2>5, <2>6, LeadDispatch
<1>10. CASE ~ (r.schedtsk = t /\ callevel = "TCL_TASK")
  <2>1. rdy' = r /\ tcb_curpri' = pri /\ tcxb_pc' = k /\ runtsk' = runtsk
    BY <1>1, <1>10 DEF DispatchIfBetter
  <2>2. StartedTasksLead'
    BY <1>1, <1>7, <2>1, LeadsStartedNext DEF DispatchInv
  <2>3. AboveInitial' /\ WaitingFresh'
    BY <1>8, <2>1 DEF AboveInitial, WaitingFresh
  <2> QED BY <2>2, <2>3 DEF LeadInv
<1> QED BY <1>9, <1>10

--------------------------------------------------------------------------------
(* The services *)

LEMMA ActivateLeads ==
  ASSUME KernelInv, LeadInv, DispatchInv', NEW t \in TaskType, ActivateDormant(t)
  PROVE  LeadInv'
<1> DEFINE pri == ActivePri({t})
           k   == ActivePc({t})
<1>1. /\ tcb_tstat \in [TaskType -> TaskState] /\ tcb_curpri \in [TaskType -> Nat]
      /\ tcxb_pc \in [TaskType -> Continuation] /\ tcb_tstat[t] = "DORMANT"
      /\ tcb_tstat' = [tcb_tstat EXCEPT ![t] = "RUNNABLE"]
      /\ DispatchIfBetter(MakeRunnable(rdy, pri, t), pri, k, t) /\ UNCHANGED rescb
  BY LeadBefore DEF ActivateDormant
<1>2. /\ pri \in [TaskType -> Nat] /\ pri[t] = tinib_inipri[t]
      /\ \A x \in TaskType : x # t => pri[x] = tcb_curpri[x]
  BY <1>1, Tables DEF ActivePri
<1>3. /\ k \in [TaskType -> Continuation] /\ k[t] \notin SetAside
      /\ \A x \in TaskType : x # t => k[x] = tcxb_pc[x]
  BY <1>1 DEF ActivePc, Continuation, SetAside
<1> HIDE DEF pri, k
<1>4. /\ t \notin Runnable /\ Runnable' = Runnable \cup {t}
      /\ \A x \in Runnable : pri[x] = tcb_curpri[x] /\ k[x] = tcxb_pc[x]
  BY <1>1, <1>2, <1>3 DEF Runnable
<1>5. \A x \in TaskType : tcb_tstat'[x] # "DORMANT" => pri[x] >= tinib_inipri[x]
  BY <1>1, <1>2, Tables DEF LeadInv, AboveInitial
<1>6. \A x \in TaskType : tcb_tstat'[x] = "WAITING" => k[x] \notin SetAside /\ x # runtsk
  BY <1>1, <1>3, Tables DEF LeadInv, WaitingFresh, KernelInv, ResourceInv, RunnerActive
<1> QED BY <1>1, <1>2, <1>3, <1>4, <1>5, <1>6, LeadIfBetter

LEMMA SetEventLeads ==
  ASSUME KernelInv, LeadInv, DispatchInv', NEW t \in ExtTask, NEW mask \in Mask, SetEvent(t, mask)
  PROVE  LeadInv'
<1>1. /\ tcb_tstat \in [TaskType -> TaskState] /\ tcb_curpri \in [TaskType -> Nat]
      /\ tcxb_pc \in [TaskType -> Continuation] /\ UNCHANGED rescb /\ t \in TaskType
  BY LeadBefore, TaskTable DEF SetEvent, TaskType, ExtTask
<1>2. CASE tcb_curevt'[t] \cap tcb_waievt[t] # EVTMASK_NONE
  <2>1. /\ tcb_tstat' = [tcb_tstat EXCEPT ![t] = "RUNNABLE"]
        /\ DispatchIfBetter(MakeRunnable(rdy, tcb_curpri, t), tcb_curpri, tcxb_pc, t)
    BY <1>2 DEF SetEvent
  <2>2. tcb_tstat[t] = "WAITING"
    BY <1>2 DEF KernelInv, DispatchInv, NoLostWakeup, EVTMASK_NONE
  <2>3. tcxb_pc[t] \notin SetAside /\ t # runtsk
    BY <1>1, <2>2, Tables DEF LeadInv, WaitingFresh, KernelInv, ResourceInv, RunnerActive
  <2>4. tcb_curpri[t] = tinib_inipri[t]
    BY <1>1, <2>2, <2>3 DEF KernelInv, DispatchInv, FreshAtInitial, AtInitial, Continuation,
                            SetAside, Fresh
  <2>5. t \notin Runnable /\ Runnable' = Runnable \cup {t}
    BY <1>1, <2>1, <2>2 DEF Runnable
  <2>6. \A x \in TaskType : tcb_tstat'[x] # "DORMANT" => tcb_curpri[x] >= tinib_inipri[x]
    BY <1>1, <2>1, <2>2 DEF LeadInv, AboveInitial
  <2>7. \A x \in TaskType : tcb_tstat'[x] = "WAITING" => tcxb_pc[x] \notin SetAside /\ x # runtsk
    BY <1>1, <2>1, Tables DEF LeadInv, WaitingFresh, KernelInv, ResourceInv, RunnerActive
  <2> QED BY <1>1, <2>1, <2>3, <2>4, <2>5, <2>6, <2>7, LeadIfBetter
<1>3. CASE tcb_curevt'[t] \cap tcb_waievt[t] = EVTMASK_NONE
  <2>1. UNCHANGED <<tcb_tstat, rdy, tcb_curpri, tcxb_pc, runtsk, rescb>>
    BY <1>1, <1>3 DEF SetEvent
  <2> QED BY <2>1 DEF LeadInv, AboveInitial, WaitingFresh, StartedTasksLead, Ready, Runnable,
                      Started, rescb
<1> QED BY <1>2, <1>3

\* The running task holds nothing and gives way: Schedule.
LEMMA ScheduleLeads ==
  ASSUME KernelInv, LeadInv, DispatchInv', Schedule
  PROVE  LeadInv'
<1> DEFINE pri == [tcb_curpri EXCEPT ![runtsk] = tinib_inipri[runtsk]]
           k   == [tcxb_pc EXCEPT ![runtsk] = "dispatcher_r_exepri"]
<1>0. PICK u, r, U : u = runtsk /\ r = Preempt(rdy, pri) /\ U = StartedSet(TSKID_NULL, k)
  OBVIOUS
<1>1. /\ u = rdy.schedtsk /\ u \in TaskType /\ u \in Runnable /\ tcb_tstat[u] = "RUNNABLE"
  BY <1>0, AtTask DEF KernelInv, Schedule
<1>2. /\ Leads(rdy, tcb_curpri, Runnable, StartedSet(runtsk, tcxb_pc))
      /\ Consistent(rdy, tcb_curpri, Runnable) /\ Runnable \in SUBSET TaskType
      /\ tcb_curpri \in [TaskType -> Nat] /\ tcxb_pc \in [TaskType -> Continuation]
  BY LeadBefore
<1>3. StartDispatch(r, pri, k) /\ tinib_inipri[u] < rdy.nextpri /\ UNCHANGED <<tcb_tstat, rescb>>
  BY <1>0 DEF Schedule, Dispatch
<1>4. /\ pri \in [TaskType -> Nat] /\ pri[u] = tinib_inipri[u] /\ pri[u] \in Nat
      /\ \A x \in TaskType : x # u => pri[x] = tcb_curpri[x]
  BY <1>0, <1>1, <1>2, Tables
<1>5. k[u] \notin SetAside /\ \A x \in TaskType : x # u => k[x] = tcxb_pc[x]
  BY <1>0, <1>1, <1>2 DEF SetAside
<1> HIDE DEF pri, k
<1>6. PICK X : X = Runnable
  OBVIOUS
<1>7. Leads(rdy, pri, X, U)
  <2>1. Leads(rdy, pri, X, StartedSet(runtsk, tcxb_pc))
    BY <1>1, <1>2, <1>4, <1>6, LeadsPri
  <2>2. \A x \in U : x \in X /\ x # rdy.schedtsk => x \in StartedSet(runtsk, tcxb_pc)
    BY <1>0, <1>1, <1>5, Tables DEF StartedSet
  <2> QED BY <2>1, <2>2, LeadsFewer
<1>8. Sound(rdy, pri, X \ {rdy.schedtsk})
  <2>1. \A x \in X \ {rdy.schedtsk} : pri[x] = tcb_curpri[x]
    BY <1>1, <1>2, <1>4, <1>6
  <2> QED BY <1>2, <1>6, <2>1, SoundOther DEF Consistent
<1>9. u \notin U
  BY <1>0, <1>1, <1>5, Tables DEF StartedSet
<1>10. Runnable' = X
  BY <1>3, <1>6 DEF Runnable
<1>11. Leads(r, pri, Runnable', U)
  BY <1>0, <1>1, <1>2, <1>3, <1>4, <1>6, <1>7, <1>8, <1>9, <1>10, LeadsYield
<1>12. \A t \in TaskType : tcb_tstat'[t] # "DORMANT" => pri[t] >= tinib_inipri[t]
  BY <1>3, <1>4 DEF LeadInv, AboveInitial
<1>13. \A t \in TaskType : \A i \in 1 .. Len(resstk'[t]) :
         rescb_prevpri'[resstk'[t][i]] >= tinib_inipri[t]
  BY <1>3 DEF LeadInv, AboveInitial, rescb
<1>14. \A t \in TaskType : tcb_tstat'[t] = "WAITING" => k[t] \notin SetAside
  BY <1>3, <1>5 DEF LeadInv, WaitingFresh
<1> QED BY <1>0, <1>3, <1>4, <1>11, <1>12, <1>13, <1>14, LeadDispatch

LEMMA WaitEventLeads ==
  ASSUME KernelInv, LeadInv, DispatchInv', NEW mask \in Mask, WaitEvent(mask)
  PROVE  LeadInv'
<1> DEFINE pri == [tcb_curpri EXCEPT ![runtsk] = tinib_inipri[runtsk]]
           k   == [tcxb_pc EXCEPT ![runtsk] = "dispatcher_r_exepri"]
<1>0. PICK u, r, U : u = runtsk /\ r = SearchSchedtsk(rdy) /\ U = StartedSet(TSKID_NULL, k)
  OBVIOUS
<1>1. /\ u = rdy.schedtsk /\ u \in TaskType /\ u \in Runnable /\ tcb_tstat[u] = "RUNNABLE"
  BY <1>0, AtTask DEF KernelInv, WaitEvent
<1>2. /\ Leads(rdy, tcb_curpri, Runnable, StartedSet(runtsk, tcxb_pc))
      /\ Consistent(rdy, tcb_curpri, Runnable) /\ Runnable \in SUBSET TaskType
      /\ tcb_curpri \in [TaskType -> Nat] /\ tcxb_pc \in [TaskType -> Continuation]
      /\ tcb_tstat \in [TaskType -> TaskState]
  BY LeadBefore
<1>3. /\ StartDispatch(r, pri, k) /\ UNCHANGED rescb
      /\ tcb_tstat' = [tcb_tstat EXCEPT ![u] = "WAITING"]
  BY <1>0 DEF WaitEvent, Dispatch
<1>4. /\ pri \in [TaskType -> Nat] /\ pri[u] = tinib_inipri[u] /\ pri[u] \in Nat
      /\ \A x \in TaskType : x # u => pri[x] = tcb_curpri[x]
  BY <1>0, <1>1, <1>2, Tables
<1>5. k[u] \notin SetAside /\ \A x \in TaskType : x # u => k[x] = tcxb_pc[x]
  BY <1>0, <1>1, <1>2 DEF SetAside
<1> HIDE DEF pri, k
<1>6. PICK X : X = Runnable \ {u}
  OBVIOUS
<1>7. Runnable' = X
  BY <1>1, <1>2, <1>3, <1>6 DEF Runnable
<1>8. Leads(r, pri, X, U)
  <2>1. Leads(r, tcb_curpri, X, StartedSet(runtsk, tcxb_pc))
    BY <1>0, <1>1, <1>2, <1>6, LeadsSearch
  <2>2. \A t \in X : t # r.schedtsk => pri[t] = tcb_curpri[t]
    BY <1>2, <1>4, <1>6
  <2>3. Leads(r, pri, X, StartedSet(runtsk, tcxb_pc))
    BY <2>1, <2>2, LeadsPri
  <2>4. \A x \in U : x \in X /\ x # r.schedtsk => x \in StartedSet(runtsk, tcxb_pc)
    BY <1>0, <1>1, <1>5, Tables DEF StartedSet
  <2> QED BY <2>3, <2>4, LeadsFewer
<1>9. \A t \in TaskType : tcb_tstat'[t] # "DORMANT" => pri[t] >= tinib_inipri[t]
  BY <1>2, <1>3, <1>4 DEF LeadInv, AboveInitial
<1>10. \A t \in TaskType : \A i \in 1 .. Len(resstk'[t]) :
         rescb_prevpri'[resstk'[t][i]] >= tinib_inipri[t]
  BY <1>3 DEF LeadInv, AboveInitial, rescb
<1>11. \A t \in TaskType : tcb_tstat'[t] = "WAITING" => k[t] \notin SetAside
  BY <1>2, <1>3, <1>5 DEF LeadInv, WaitingFresh
<1> QED BY <1>0, <1>3, <1>4, <1>7, <1>8, <1>9, <1>10, <1>11, LeadDispatch

LEMMA GetResourceLeads ==
  ASSUME KernelInv, LeadInv, DispatchInv', NEW res \in ResourceType, GetResource(res)
  PROVE  LeadInv'
<1>0. PICK u : u = runtsk
  OBVIOUS
<1>1. /\ u = rdy.schedtsk /\ u \in TaskType /\ u \in Runnable /\ tcb_tstat[u] = "RUNNABLE"
  BY <1>0, AtTask DEF KernelInv, GetResource
<1>2. /\ Leads(rdy, tcb_curpri, Runnable, StartedSet(runtsk, tcxb_pc))
      /\ Runnable \in SUBSET TaskType
      /\ tcb_curpri \in [TaskType -> Nat] /\ rescb_prevpri \in [ResourceType -> Nat]
      /\ resstk \in [TaskType -> Seq(ResourceType)]
  BY LeadBefore DEF KernelInv, DispatchInv, BlockTypes, ResourceInv, ResourceTypes
<1>3. /\ tcb_curpri' = [tcb_curpri EXCEPT ![u] = RaisedPri(@, res)]
      /\ rescb_prevpri' = [rescb_prevpri EXCEPT ![res] = tcb_curpri[u]]
      /\ rescb_prevpri[res] = TPRI_NULL
      /\ resstk' = [resstk EXCEPT ![u] = Append(@, res)]
      /\ UNCHANGED <<rdy, runtsk, tcb_tstat, tcxb_pc>>
  BY <1>0 DEF GetResource
<1>4. /\ tcb_curpri'[u] >= tcb_curpri[u] /\ tcb_curpri'[u] \in Nat
      /\ \A x \in TaskType : x # u => tcb_curpri'[x] = tcb_curpri[x]
  <2>1. PICK p : p = RaisedPri(tcb_curpri[u], res)
    OBVIOUS
  <2>2. p \in Nat /\ p >= tcb_curpri[u]
    BY <1>1, <1>2, <2>1, Tables DEF RaisedPri
  <2>3. tcb_curpri' = [tcb_curpri EXCEPT ![u] = p]
    BY <1>3, <2>1
  <2> QED BY <1>1, <1>2, <2>2, <2>3
<1>5. \A t \in TaskType : tcb_tstat[t] # "DORMANT" =>
        tcb_curpri[t] >= tinib_inipri[t] /\ tcb_curpri[t] \in Nat /\ tinib_inipri[t] \in Nat
  BY <1>2, Tables DEF LeadInv, AboveInitial
<1>6. \A t \in TaskType : tcb_tstat'[t] # "DORMANT" => tcb_curpri'[t] >= tinib_inipri[t]
  BY <1>1, <1>3, <1>4, <1>5
<1>7. ASSUME NEW t \in TaskType, NEW i \in 1 .. Len(resstk'[t])
      PROVE  rescb_prevpri'[resstk'[t][i]] >= tinib_inipri[t]
  <2>1. CASE i \in 1 .. Len(resstk[t])
    <3>1. resstk'[t][i] = resstk[t][i] /\ resstk[t][i] \in ResourceType
      BY <1>2, <1>3, <2>1
    <3>2. rescb_prevpri[resstk[t][i]] # TPRI_NULL
      BY <2>1, <3>1 DEF KernelInv, ResourceInv, TakenHeld, Elements
    <3>3. rescb_prevpri'[resstk'[t][i]] = rescb_prevpri[resstk[t][i]]
      BY <1>2, <1>3, <3>1, <3>2
    <3> QED BY <2>1, <3>3 DEF LeadInv, AboveInitial
  <2>2. CASE i \notin 1 .. Len(resstk[t])
    <3>1. t = u /\ resstk'[t][i] = res
      BY <1>1, <1>2, <1>3, <2>2
    <3> QED BY <1>1, <1>2, <1>3, <1>5, <3>1
  <2> QED BY <2>1, <2>2
<1>8. Leads(rdy, tcb_curpri', Runnable, StartedSet(runtsk, tcxb_pc))
  BY <1>1, <1>2, <1>4, LeadsPri
<1>9. StartedTasksLead'
  <2>1. Runnable' = Runnable /\ DispatchTypes'
    BY <1>3 DEF Runnable, DispatchInv
  <2> QED BY <1>3, <1>8, <2>1, LeadsStartedNext
<1>10. AboveInitial' /\ WaitingFresh'
  BY <1>3, <1>6, <1>7 DEF AboveInitial, WaitingFresh, LeadInv
<1> QED BY <1>9, <1>10 DEF LeadInv

\* The running task falls back: to nextpri or above, or it is set aside in front of its queue.
LEMMA ReleaseResourceLeads ==
  ASSUME KernelInv, LeadInv, DispatchInv', NEW res \in ResourceType, ReleaseResource(res)
  PROVE  LeadInv'
<1> DEFINE pri == [tcb_curpri EXCEPT ![runtsk] = rescb_prevpri[res]]
           k   == [tcxb_pc EXCEPT ![runtsk] = "dispatcher_r"]
<1>0. PICK u, r, U : u = runtsk /\ r = Preempt(rdy, pri) /\ U = StartedSet(runtsk, tcxb_pc)
  OBVIOUS
<1>1. /\ u = rdy.schedtsk /\ u \in TaskType /\ u \in Runnable /\ tcb_tstat[u] = "RUNNABLE"
  BY <1>0, AtTask DEF KernelInv, ReleaseResource
<1>2. /\ Leads(rdy, tcb_curpri, Runnable, U)
      /\ Consistent(rdy, tcb_curpri, Runnable) /\ Runnable \in SUBSET TaskType
      /\ tcb_curpri \in [TaskType -> Nat] /\ tcxb_pc \in [TaskType -> Continuation]
      /\ rescb_prevpri \in [ResourceType -> Nat] /\ resstk \in [TaskType -> Seq(ResourceType)]
  BY <1>0, LeadBefore DEF KernelInv, DispatchInv, BlockTypes, ResourceInv, ResourceTypes
<1>3. /\ IF pri[u] < rdy.nextpri THEN StartDispatch(r, pri, k)
         ELSE tcb_curpri' = pri /\ UNCHANGED <<rdy, runtsk, tcxb_pc, callevel>>
      /\ tcb_lastres[u] = res
      /\ rescb_prevpri' = [rescb_prevpri EXCEPT ![res] = TPRI_NULL]
      /\ resstk' = [resstk EXCEPT ![u] = SubSeq(@, 1, Len(@) - 1)]
      /\ UNCHANGED tcb_tstat
  BY <1>0 DEF ReleaseResource, RestoredPri, ReleaseInOrder, Dispatch
<1>4. /\ pri \in [TaskType -> Nat] /\ pri[u] = rescb_prevpri[res]
      /\ \A x \in TaskType : x # u => pri[x] = tcb_curpri[x]
  BY <1>0, <1>1, <1>2
<1>5. \A x \in TaskType : x # u => k[x] = tcxb_pc[x]
  BY <1>0, <1>2
<1> HIDE DEF pri, k
\* res is the last resource that u took.
<1>6. /\ resstk[u] # << >> /\ resstk[u] \in Seq(ResourceType)
      /\ Len(resstk[u]) \in 1 .. Len(resstk[u]) /\ resstk[u][Len(resstk[u])] = res
  <2>1. StackOf(u) /\ resstk[u] \in Seq(ResourceType)
    BY <1>1, <1>2 DEF KernelInv, ResourceInv
  <2>2. resstk[u] # << >>
    BY <1>3, <2>1, ResourceTables DEF StackOf
  <2> QED BY <1>3, <2>1, <2>2 DEF StackOf
<1>7. pri[u] >= tinib_inipri[u]
  BY <1>1, <1>4, <1>6 DEF LeadInv, AboveInitial
<1>8. \A t \in TaskType : tcb_tstat'[t] # "DORMANT" => pri[t] >= tinib_inipri[t]
  BY <1>3, <1>4, <1>7 DEF LeadInv, AboveInitial
<1>9. ASSUME NEW t \in TaskType, NEW i \in 1 .. Len(resstk'[t])
      PROVE  rescb_prevpri'[resstk'[t][i]] >= tinib_inipri[t]
  <2>1. PICK s, n : s = resstk[u] /\ n = Len(s)
    OBVIOUS
  <2>2. resstk'[u] = SubSeq(s, 1, n - 1) /\ (t # u => resstk'[t] = resstk[t])
    BY <1>1, <1>2, <1>3, <2>1
  <2>3. /\ Len(resstk'[u]) = n - 1 /\ n \in Nat
        /\ \A j \in 1 .. n - 1 : resstk'[u][j] = s[j]
    BY <1>6, <2>1, <2>2, WithoutLast
  <2>4. /\ i \in 1 .. Len(resstk[t]) /\ resstk'[t][i] = resstk[t][i]
        /\ ~ (t = u /\ i = Len(resstk[u]))
    BY <2>1, <2>2, <2>3
  <2>5. resstk[t][i] # res
    BY <1>1, <1>6, <2>4 DEF KernelInv, ResourceInv, HeldOnce
  <2>6. resstk[t][i] \in ResourceType
    BY <1>2, <2>4
  <2>7. rescb_prevpri'[resstk'[t][i]] = rescb_prevpri[resstk[t][i]]
    BY <1>2, <1>3, <2>4, <2>5, <2>6
  <2> QED BY <2>4, <2>7 DEF LeadInv, AboveInitial
<1>10. PICK X : X = Runnable
  OBVIOUS
<1>11. Runnable' = X /\ Leads(rdy, pri, X, U)
  BY <1>1, <1>2, <1>3, <1>4, <1>10, LeadsPri DEF Runnable
<1>12. CASE pri[u] < rdy.nextpri
  <2>1. Sound(rdy, pri, X \ {rdy.schedtsk})
    <3>1. \A x \in X \ {rdy.schedtsk} : pri[x] = tcb_curpri[x]
      BY <1>1, <1>2, <1>4, <1>10
    <3> QED BY <1>2, <1>10, <3>1, SoundOther DEF Consistent
  <2>2. ASSUME NEW t \in X, t # rdy.schedtsk, t \notin U PROVE pri[t] = tinib_inipri[t]
    <3>1. t \in TaskType /\ t # runtsk /\ tcb_tstat[t] = "RUNNABLE" /\ tcxb_pc[t] \notin SetAside
      BY <1>0, <1>1, <1>2, <1>10, <2>2 DEF Runnable, StartedSet
    <3>2. tcxb_pc[t] \in Fresh
      BY <1>2, <3>1 DEF Continuation, Fresh, SetAside
    <3> QED BY <1>0, <1>4, <3>1, <3>2 DEF KernelInv, DispatchInv, FreshAtInitial, AtInitial
  <2>3. Leads(r, pri, X, U)
    BY <1>0, <1>1, <1>2, <1>4, <1>7, <1>10, <1>11, <1>12, <2>1, <2>2, LeadsYield
  <2>4. \A x \in StartedSet(TSKID_NULL, k) : x \in X /\ x # r.schedtsk => x \in U
    BY <1>0, <1>5, Tables DEF StartedSet
  <2>5. Leads(r, pri, Runnable', StartedSet(TSKID_NULL, k))
    BY <1>11, <2>3, <2>4, LeadsFewer
  <2>6. \A t \in TaskType : tcb_tstat'[t] = "WAITING" => k[t] \notin SetAside
    BY <1>1, <1>3, <1>5 DEF LeadInv, WaitingFresh
  <2> QED BY <1>3, <1>4, <1>8, <1>9, <1>12, <2>5, <2>6, LeadDispatch
<1>13. CASE ~ (pri[u] < rdy.nextpri)
  <2>1. tcb_curpri' = pri /\ UNCHANGED <<rdy, runtsk, tcxb_pc>>
    BY <1>3, <1>13
  <2>2. StartedTasksLead'
    <3>1. DispatchTypes' /\ Leads(rdy', tcb_curpri', Runnable', StartedSet(runtsk', tcxb_pc'))
      BY <1>0, <1>11, <2>1 DEF DispatchInv
    <3> QED BY <3>1, LeadsStartedNext
  <2>3. AboveInitial' /\ WaitingFresh'
    BY <1>3, <1>8, <1>9, <2>1 DEF AboveInitial, WaitingFresh, LeadInv
  <2> QED BY <2>2, <2>3 DEF LeadInv
<1> QED BY <1>12, <1>13

\* TerminateTask and ChainTask.
LEMMA EndTaskLeads ==
  ASSUME KernelInv, LeadInv, DispatchInv', AtTaskLevel, HoldsNoResource,
         NEW again \in BOOLEAN, NEW t \in TaskType \cup {TSKID_NULL},
         t # TSKID_NULL => t # runtsk /\ tcb_tstat[t] = "DORMANT",
         EndTask(again, t)
  PROVE  LeadInv'
<1> DEFINE new == {x \in TaskType : x = t \/ (again /\ x = runtsk)}
           pri == ActivePri(new)
           k   == ActivePc(new)
<1>0. PICK r0, r1, r2, u, U, X :
        /\ r0 = SearchSchedtsk(rdy)
        /\ r1 = IF again THEN MakeRunnable(r0, pri, runtsk) ELSE r0
        /\ r2 = IF t # TSKID_NULL THEN MakeRunnable(r1, pri, t) ELSE r1
        /\ u = runtsk /\ U = StartedSet(TSKID_NULL, k) /\ X = Runnable \ {u}
  OBVIOUS
<1>1. /\ tcb_tstat' = [x \in TaskType |-> IF x \in new THEN "RUNNABLE"
                                          ELSE IF x = u THEN "DORMANT" ELSE tcb_tstat[x]]
      /\ StartDispatch(r2, pri, k) /\ UNCHANGED rescb
  BY <1>0 DEF EndTask
<1>2. /\ Leads(rdy, tcb_curpri, Runnable, StartedSet(runtsk, tcxb_pc))
      /\ Consistent(rdy, tcb_curpri, Runnable) /\ Runnable \in SUBSET TaskType
      /\ tcb_curpri \in [TaskType -> Nat] /\ tcxb_pc \in [TaskType -> Continuation]
      /\ tcb_tstat \in [TaskType -> TaskState]
  BY LeadBefore
<1>3. /\ pri \in [TaskType -> Nat]
      /\ \A x \in new : pri[x] = tinib_inipri[x] /\ pri[x] \in TaskPri /\ k[x] \notin SetAside
      /\ \A x \in TaskType : x \notin new => pri[x] = tcb_curpri[x] /\ k[x] = tcxb_pc[x]
  BY <1>2, Tables DEF ActivePri, ActivePc, SetAside
<1>4. /\ u = rdy.schedtsk /\ u \in TaskType /\ u \in Runnable /\ tcb_tstat[u] = "RUNNABLE"
  BY <1>0, AtTask DEF KernelInv
<1>5. /\ new \in SUBSET TaskType /\ (u \in new <=> again)
      /\ t # TSKID_NULL => t \in new /\ t \in TaskType /\ t \notin Runnable
      /\ \A x \in new : x = t \/ x = u
  BY <1>0, <1>4, Tables DEF Runnable
<1> HIDE DEF new, pri, k
<1>6. X \in SUBSET TaskType /\ u \notin X /\ \A x \in X : x \notin new /\ pri[x] = tcb_curpri[x]
  <2>1. X \in SUBSET TaskType /\ u \notin X /\ TSKID_NULL \notin X
    BY <1>0, <1>2, Tables
  <2>2. \A x \in X : x \notin new
    BY <1>0, <1>5, <2>1
  <2> QED BY <1>3, <2>1, <2>2
\* Without the task that ends.
<1>7. Leads(r0, pri, X, U) /\ Consistent(r0, pri, X)
  <2>1. Leads(r0, tcb_curpri, X, StartedSet(runtsk, tcxb_pc)) /\ Consistent(r0, tcb_curpri, X)
    BY <1>0, <1>2, <1>4, LeadsSearch, ScheduledLeaves
  <2>2. Leads(r0, pri, X, StartedSet(runtsk, tcxb_pc)) /\ Consistent(r0, pri, X)
    BY <1>6, <2>1, LeadsPri, OtherPriorities
  <2>3. \A x \in U : x \in X /\ x # r0.schedtsk => x \in StartedSet(runtsk, tcxb_pc)
    BY <1>0, <1>3, <1>6, Tables DEF StartedSet
  <2> QED BY <2>2, <2>3, LeadsFewer
<1>8. \A x \in new : x \notin U
  BY <1>0, <1>3, <1>5, Tables DEF StartedSet
<1>9. \A x \in Runnable \cup new : x = u \/ pri[x] >= tinib_inipri[x]
  <2>1. ASSUME NEW x \in Runnable, x # u, x \notin new PROVE pri[x] >= tinib_inipri[x]
    <3>1. pri[x] = tcb_curpri[x] /\ tcb_tstat[x] # "DORMANT" /\ x \in TaskType
      BY <1>3, <2>1 DEF Runnable
    <3> QED BY <3>1 DEF LeadInv, AboveInitial
  <2>2. ASSUME NEW x \in new PROVE pri[x] >= tinib_inipri[x]
    BY <1>3, <1>5, Tables
  <2> QED BY <2>1, <2>2
\* With it, if it is activated again.
<1>10. PICK R1 : R1 = IF again THEN X \cup {u} ELSE X
  OBVIOUS
<1>11. /\ Leads(r1, pri, R1, U) /\ Consistent(r1, pri, R1) /\ R1 \in SUBSET TaskType
       /\ R1 \subseteq Runnable /\ \A x \in R1 : pri[x] >= tinib_inipri[x]
  <2>1. CASE again
    <3>1. /\ u \in new /\ u \notin U /\ pri[u] = tinib_inipri[u] /\ pri[u] \in TaskPri
          /\ r1 = MakeRunnable(r0, pri, u) /\ R1 = X \cup {u}
      BY <1>0, <1>3, <1>5, <1>8, <1>10, <2>1
    <3>2. \A x \in X : pri[x] >= tinib_inipri[x]
      BY <1>0, <1>6, <1>9
    <3>3. Leads(r1, pri, R1, U)
      BY <1>3, <1>4, <1>6, <1>7, <3>1, <3>2, LeadsArrive
    <3>4. Consistent(r1, pri, R1)
      BY <1>3, <1>4, <1>6, <1>7, <3>1, TaskArrives
    <3>5. pri[u] >= tinib_inipri[u]
      BY <1>4, <3>1, Tables
    <3> QED BY <1>0, <1>4, <1>6, <3>1, <3>2, <3>3, <3>4, <3>5
  <2>2. CASE ~ again
    BY <1>0, <1>6, <1>7, <1>9, <1>10, <2>2
  <2> QED BY <2>1, <2>2
\* With the task that follows.
<1>12. Leads(r2, pri, Runnable', U)
  <2>1. Runnable' = R1 \cup ({t} \ {TSKID_NULL})
    <3>1. Runnable' = new \cup X
      BY <1>0, <1>1, <1>5 DEF Runnable
    <3>2. new = IF again THEN {u} \cup ({t} \ {TSKID_NULL}) ELSE {t} \ {TSKID_NULL}
      <4>1. TSKID_NULL \notin new
        BY <1>5, Tables
      <4> QED BY <1>4, <1>5, <4>1
    <3> QED BY <1>10, <3>1, <3>2
  <2>2. CASE t = TSKID_NULL
    BY <1>0, <1>11, <2>1, <2>2
  <2>3. CASE t # TSKID_NULL
    <3>1. t \in TaskType /\ t \notin R1 /\ pri[t] = tinib_inipri[t] /\ t \notin U
      BY <1>3, <1>5, <1>8, <1>11, <2>3
    <3>2. Leads(MakeRunnable(r1, pri, t), pri, R1 \cup {t}, U)
      BY <1>3, <1>11, <3>1, LeadsArrive
    <3> QED BY <1>0, <2>1, <2>3, <3>2
  <2> QED BY <2>2, <2>3
<1>13. \A x \in TaskType : tcb_tstat'[x] # "DORMANT" => pri[x] >= tinib_inipri[x]
  <2> SUFFICES ASSUME NEW x \in TaskType, tcb_tstat'[x] # "DORMANT"
               PROVE  pri[x] >= tinib_inipri[x]
    OBVIOUS
  <2>1. CASE x \in new
    BY <1>3, <2>1, Tables
  <2>2. CASE x \notin new
    <3>1. tcb_tstat[x] # "DORMANT" /\ pri[x] = tcb_curpri[x]
      BY <1>1, <1>3, <2>2
    <3> QED BY <3>1 DEF LeadInv, AboveInitial
  <2> QED BY <2>1, <2>2
<1>14. \A x \in TaskType : \A i \in 1 .. Len(resstk'[x]) :
         rescb_prevpri'[resstk'[x][i]] >= tinib_inipri[x]
  BY <1>1 DEF LeadInv, AboveInitial, rescb
<1>15. \A x \in TaskType : tcb_tstat'[x] = "WAITING" => k[x] \notin SetAside
  <2> SUFFICES ASSUME NEW x \in TaskType, tcb_tstat'[x] = "WAITING" PROVE k[x] \notin SetAside
    OBVIOUS
  <2>1. x \notin new /\ tcb_tstat[x] = "WAITING"
    BY <1>1
  <2> QED BY <1>3, <2>1 DEF LeadInv, WaitingFresh
<1> QED BY <1>0, <1>1, <1>3, <1>12, <1>13, <1>14, <1>15, LeadDispatch

--------------------------------------------------------------------------------
(* Start-up, interrupts and the idle loop *)

LEMMA UntouchedLeads ==
  ASSUME LeadInv, UNCHANGED <<rdy, runtsk, tcb_tstat, tcb_curpri, tcxb_pc, rescb>>
  PROVE  LeadInv'
BY DEF LeadInv, AboveInitial, WaitingFresh, StartedTasksLead, Ready, Runnable, Started, rescb

LEMMA InitializeLeads ==
  ASSUME KernelInv, LeadInv, DispatchInv', InitializeTask
  PROVE  LeadInv'
<1>1. /\ boot \in TaskType /\ tcb_tstat[boot] = "DORMANT" /\ runtsk = TSKID_NULL
      /\ UNCHANGED <<runtsk, rescb>>
  BY Tables DEF InitializeTask, KernelInv, DispatchInv, Booting, Context, TaskType
<1>2. /\ Leads(rdy, tcb_curpri, Runnable, StartedSet(runtsk, tcxb_pc))
      /\ Consistent(rdy, tcb_curpri, Runnable) /\ Runnable \in SUBSET TaskType
      /\ tcb_curpri \in [TaskType -> Nat] /\ tcxb_pc \in [TaskType -> Continuation]
      /\ tcb_tstat \in [TaskType -> TaskState]
  BY LeadBefore
<1>3. CASE boot \in Autostart
  <2>1. PICK t, pri, k, U :
          t = boot /\ pri = ActivePri({t}) /\ k = ActivePc({t}) /\ U = StartedSet(runtsk, k)
    OBVIOUS
  <2>2. /\ tcb_tstat' = [tcb_tstat EXCEPT ![t] = "RUNNABLE"]
        /\ tcb_curpri' = pri /\ tcxb_pc' = k /\ rdy' = MakeRunnable(rdy, pri, t)
    BY <1>3, <2>1 DEF InitializeTask
  <2>3. /\ pri \in [TaskType -> Nat] /\ pri[t] = tinib_inipri[t] /\ k[t] \notin SetAside
        /\ \A x \in TaskType : x # t => pri[x] = tcb_curpri[x] /\ k[x] = tcxb_pc[x]
    BY <1>1, <1>2, <2>1, Tables DEF ActivePri, ActivePc, SetAside
  <2>4. t \in TaskType /\ t \notin Runnable /\ Runnable' = Runnable \cup {t}
    BY <1>1, <1>2, <2>1, <2>2 DEF Runnable
  <2>5. \A x \in Runnable : pri[x] = tcb_curpri[x] /\ k[x] = tcxb_pc[x]
    BY <1>2, <2>3, <2>4
  <2>6. Leads(rdy, pri, Runnable, U)
    <3>1. Leads(rdy, pri, Runnable, StartedSet(runtsk, tcxb_pc))
      BY <1>2, <2>5, LeadsPri
    <3>2. \A u \in U : u \in Runnable /\ u # rdy.schedtsk => u \in StartedSet(runtsk, tcxb_pc)
      BY <2>1, <2>5 DEF StartedSet
    <3> QED BY <3>1, <3>2, LeadsFewer
  <2>7. Consistent(rdy, pri, Runnable)
    BY <1>2, <2>5, OtherPriorities
  <2>8. t \notin U
    BY <1>1, <2>1, <2>3, <2>4, Tables DEF StartedSet
  <2>9. \A x \in Runnable : pri[x] >= tinib_inipri[x]
    <3>1. \A x \in Runnable : tcb_tstat[x] # "DORMANT" /\ x \in TaskType
      BY DEF Runnable
    <3> QED BY <2>5, <3>1 DEF LeadInv, AboveInitial
  <2>10. Leads(MakeRunnable(rdy, pri, t), pri, Runnable \cup {t}, U)
    BY <1>2, <2>3, <2>4, <2>6, <2>7, <2>8, <2>9, LeadsArrive
  <2>11. StartedTasksLead'
    <3>1. DispatchTypes' /\ Leads(rdy', tcb_curpri', Runnable', StartedSet(runtsk', tcxb_pc'))
      BY <1>1, <2>1, <2>2, <2>4, <2>10 DEF DispatchInv
    <3> QED BY <3>1, LeadsStartedNext
  <2>12. \A x \in TaskType : tcb_tstat'[x] # "DORMANT" => tcb_curpri'[x] >= tinib_inipri[x]
    BY <1>2, <2>2, <2>3, <2>4, Tables DEF LeadInv, AboveInitial
  <2>13. AboveInitial'
    BY <1>1, <2>12 DEF LeadInv, AboveInitial, rescb
  <2>14. WaitingFresh'
    BY <1>2, <2>2, <2>3, <2>4 DEF LeadInv, WaitingFresh
  <2> QED BY <2>11, <2>13, <2>14 DEF LeadInv
<1>4. CASE boot \notin Autostart
  BY <1>1, <1>4, UntouchedLeads DEF InitializeTask, tcb
<1> QED BY <1>3, <1>4

LEMMA IdleLeads ==
  ASSUME KernelInv, LeadInv, DispatchInv', StartOS \/ LeaveIdle
  PROVE  LeadInv'
<1>1. /\ runtsk = TSKID_NULL /\ StartDispatch(rdy, tcb_curpri, tcxb_pc)
      /\ UNCHANGED <<tcb_tstat, rescb>>
  BY Tables DEF KernelInv, DispatchInv, Booting, StartOS, LeaveIdle
<1>2. /\ Leads(rdy, tcb_curpri, Runnable, StartedSet(runtsk, tcxb_pc))
      /\ tcb_curpri \in [TaskType -> Nat]
  BY LeadBefore
<1>3. Leads(rdy, tcb_curpri, Runnable', StartedSet(TSKID_NULL, tcxb_pc))
  BY <1>1, <1>2 DEF Runnable
<1>4. /\ \A t \in TaskType : tcb_tstat'[t] # "DORMANT" => tcb_curpri[t] >= tinib_inipri[t]
      /\ \A t \in TaskType : \A i \in 1 .. Len(resstk'[t]) :
           rescb_prevpri'[resstk'[t][i]] >= tinib_inipri[t]
      /\ \A t \in TaskType : tcb_tstat'[t] = "WAITING" => tcxb_pc[t] \notin SetAside
  BY <1>1 DEF LeadInv, AboveInitial, WaitingFresh, rescb
<1> QED BY <1>1, <1>2, <1>3, <1>4, LeadDispatch

LEMMA ReturnLeads ==
  ASSUME KernelInv, LeadInv, DispatchInv', InterruptReturn
  PROVE  LeadInv'
<1>1. UNCHANGED <<tcb_tstat, rescb>> /\ Runnable' = Runnable
  BY DEF InterruptReturn, Runnable
<1>2. PICK k : k = [tcxb_pc EXCEPT ![runtsk] = "ret_int_r"]
  OBVIOUS
<1>3. /\ Leads(rdy, tcb_curpri, Runnable, StartedSet(runtsk, tcxb_pc))
      /\ tcb_curpri \in [TaskType -> Nat]
  BY LeadBefore
<1>4. CASE StartDispatch(rdy, tcb_curpri, k)
  <2>1. \A x \in TaskType : x # runtsk => k[x] = tcxb_pc[x]
    BY <1>2
  <2>2. \A x \in StartedSet(TSKID_NULL, k) :
          x \in Runnable /\ x # rdy.schedtsk => x \in StartedSet(runtsk, tcxb_pc)
    BY <2>1, Tables DEF StartedSet
  <2>3. Leads(rdy, tcb_curpri, Runnable', StartedSet(TSKID_NULL, k))
    BY <1>1, <1>3, <2>2, LeadsFewer
  <2>4. ASSUME NEW t \in TaskType, tcb_tstat'[t] = "WAITING" PROVE k[t] \notin SetAside
    <3>1. tcb_tstat[t] = "WAITING" /\ t # runtsk
      BY <1>1, <2>4, Tables DEF KernelInv, ResourceInv, RunnerActive
    <3> QED BY <2>1, <3>1 DEF LeadInv, WaitingFresh
  <2>5. /\ \A t \in TaskType : tcb_tstat'[t] # "DORMANT" => tcb_curpri[t] >= tinib_inipri[t]
        /\ \A t \in TaskType : \A i \in 1 .. Len(resstk'[t]) :
             rescb_prevpri'[resstk'[t][i]] >= tinib_inipri[t]
    BY <1>1 DEF LeadInv, AboveInitial, rescb
  <2> QED BY <1>3, <1>4, <2>3, <2>4, <2>5, LeadDispatch
<1>5. CASE UNCHANGED <<rdy, runtsk, tcb_curpri, tcxb_pc>>
  BY <1>1, <1>5, UntouchedLeads
<1> QED BY <1>2, <1>4, <1>5 DEF InterruptReturn, Dispatch

--------------------------------------------------------------------------------
(* The theorems *)

LEMMA InitLeads == Init => LeadInv
<1> SUFFICES ASSUME Init PROVE LeadInv
  OBVIOUS
<1>1. \A t \in TaskType : tcb_tstat[t] = "DORMANT" /\ resstk[t] = << >>
  BY DEF Init
<1>2. Ready = {}
  BY <1>1 DEF Ready, Runnable
<1> QED BY <1>1, <1>2 DEF LeadInv, AboveInitial, WaitingFresh, StartedTasksLead

LEMMA NextLeads == KernelInv /\ LeadInv /\ DispatchInv' /\ [Next]_vars => LeadInv'
<1> SUFFICES ASSUME KernelInv, LeadInv, DispatchInv', [Next]_vars PROVE LeadInv'
  OBVIOUS
<1>1. CASE InitializeTask
  BY <1>1, InitializeLeads
<1>2. CASE StartOS \/ LeaveIdle
  BY <1>2, IdleLeads
<1>3. ASSUME NEW t \in TaskType, ActivateTask(t) PROVE LeadInv'
  <2>1. CASE ActivateDormant(t)
    BY <2>1, ActivateLeads
  <2>2. CASE ActivateAgain(t)
    BY <2>2, UntouchedLeads DEF ActivateAgain
  <2> QED BY <1>3, <2>1, <2>2 DEF ActivateTask
<1>4. (tcb_actcnt[runtsk] > 0) \in BOOLEAN /\ TSKID_NULL \in TaskType \cup {TSKID_NULL}
  OBVIOUS
<1>5. CASE TerminateTask
  BY <1>4, <1>5, EndTaskLeads DEF TerminateTask
<1>6. CASE ChainSelf
  BY <1>4, <1>6, EndTaskLeads DEF ChainSelf
<1>7. ASSUME NEW t \in TaskType, ChainOther(t) PROVE LeadInv'
  <2>1. PICK x : x = IF tcb_tstat[t] = "DORMANT" THEN t ELSE TSKID_NULL
    OBVIOUS
  <2>2. /\ x \in TaskType \cup {TSKID_NULL}
        /\ x # TSKID_NULL => x # runtsk /\ tcb_tstat[x] = "DORMANT"
    BY <1>7, <2>1 DEF ChainOther
  <2>3. AtTaskLevel /\ HoldsNoResource /\ EndTask(tcb_actcnt[runtsk] > 0, x)
    BY <1>7, <2>1 DEF ChainOther
  <2> QED BY <1>4, <2>2, <2>3, EndTaskLeads
<1>8. CASE Schedule
  BY <1>8, ScheduleLeads
<1>9. ASSUME NEW res \in ResourceType, GetResource(res) \/ ReleaseResource(res) PROVE LeadInv'
  BY <1>9, GetResourceLeads, ReleaseResourceLeads
<1>10. ASSUME NEW t \in ExtTask, NEW mask \in Mask, SetEvent(t, mask) PROVE LeadInv'
  BY <1>10, SetEventLeads
<1>11. ASSUME NEW mask \in Mask, ClearEvent(mask) \/ WaitEvent(mask) PROVE LeadInv'
  <2>1. CASE ClearEvent(mask)
    BY <2>1, UntouchedLeads DEF ClearEvent
  <2>2. CASE WaitEvent(mask)
    BY <2>2, WaitEventLeads
  <2> QED BY <1>11, <2>1, <2>2
<1>12. ASSUME NEW i \in IsrType, Interrupt(i) PROVE LeadInv'
  BY <1>12, UntouchedLeads DEF Interrupt, tcb
<1>13. CASE InterruptReturn
  BY <1>13, ReturnLeads
<1>14. CASE UNCHANGED vars
  BY <1>14, UntouchedLeads DEF vars, tcb
<1> QED BY <1>1, <1>2, <1>3, <1>5, <1>6, <1>7, <1>8, <1>9, <1>10, <1>11, <1>12, <1>13, <1>14
        DEF Next

LEMMA Inductive ==
  /\ Init => KernelInv /\ LeadInv
  /\ KernelInv /\ LeadInv /\ [Next]_vars => (KernelInv /\ LeadInv)'
<1>1. Init => KernelInv /\ LeadInv
  BY InitDispatch, InitStacks, InitLeads DEF KernelInv
<1>2. KernelInv /\ [Next]_vars => KernelInv'
  BY NextDispatch, NextStacks DEF KernelInv
<1>3. KernelInv' => DispatchInv'
  BY DEF KernelInv
<1> QED BY <1>1, <1>2, <1>3, NextLeads

\* In every execution a task that was set aside while it ran is the first of its queue, and
\* every runnable task before it has a higher initial priority than it has now: preempt
\* puts the task in front, make_runnable puts others behind (task.c).
THEOREM PrecedenceKept == Spec => []StartedTasksLead
<1>1. LeadInv => StartedTasksLead
  BY DEF LeadInv
<1> QED BY <1>1, Inductive, PTL DEF Spec

\* A task that runs and may take a resource never finds it taken by another: GetResource
\* of resource.c returns E_OS_ACCESS only to the holder.
THEOREM CeilingExcludes == Spec => []MutualExclusion
<1>1. KernelInv /\ LeadInv => MutualExclusion
  <2> SUFFICES ASSUME KernelInv, LeadInv, AtTaskLevel, NEW res \in ResourceType,
                      rescb_prevpri[res] # TPRI_NULL,
                      tinib_inipri[runtsk] <= resinib_ceilpri[res]
               PROVE  res \in Elements(resstk[runtsk])
    BY DEF MutualExclusion
  <2>1. PICK t \in TaskType : res \in Elements(resstk[t])
    BY DEF KernelInv, ResourceInv, TakenHeld
  <2>2. PICK i \in 1 .. Len(resstk[t]) : resstk[t][i] = res
    BY <2>1 DEF Elements
  <2>3. Started(t) /\ tcb_curpri[t] >= resinib_ceilpri[res]
    <3>1. StackOf(t)
      BY DEF KernelInv, ResourceInv
    <3>2. resstk[t] # << >>
      BY <2>2
    <3> QED BY <2>2, <3>1, <3>2 DEF StackOf
  <2> SUFFICES ASSUME t # runtsk PROVE FALSE
    BY <2>1
  <2>4. runtsk = rdy.schedtsk /\ runtsk \in TaskType /\ runtsk \in Runnable
    BY AtTask DEF KernelInv
  <2>5. t \in Ready
    BY <2>3, <2>4 DEF Started, Ready
  <2>6. tinib_inipri[runtsk] > tcb_curpri[t]
    BY <2>3, <2>4, <2>5 DEF LeadInv, StartedTasksLead
  <2>7. tcb_curpri[t] \in Nat /\ tinib_inipri[runtsk] \in Nat /\ resinib_ceilpri[res] \in Nat
    BY <2>4, Tables DEF KernelInv, DispatchInv, DispatchTypes
  <2> QED BY <2>3, <2>6, <2>7
<1> QED BY <1>1, Inductive, PTL DEF Spec

\* A task that is set aside in a service or behind an interrupt.
LEMMA SetAsideForBetter ==
  ASSUME DispatchInv', LeadInv', NEW t \in TaskType, tcb_tstat'[t] = "RUNNABLE",
         runtsk' = rdy'.schedtsk, t # runtsk', tcxb_pc'[t] \in SetAside
  PROVE  tcb_curpri'[t] < tcb_curpri'[runtsk']
<1>1. PICK r, pri, R, s : r = rdy' /\ pri = tcb_curpri' /\ R = Runnable' /\ s = runtsk'
  OBVIOUS
<1>2. Consistent(r, pri, R) /\ R \in SUBSET TaskType /\ pri \in [TaskType -> Nat]
  BY <1>1 DEF DispatchInv, DispatchTypes, SchedulerConsistent, Consistent, Sound, Ready, Runnable
<1>3. t \in R \ {s} /\ r.schedtsk = s
  BY <1>1 DEF Runnable
<1>4. s # TSKID_NULL
  <2>1. r.primap # {}
    BY <1>2, <1>3, ReadyBelow DEF Consistent
  <2> QED BY <1>2, <1>3, <2>1 DEF Consistent, BestChosen
<1>5. s \in R /\ s \in TaskType
  BY <1>2, <1>3, <1>4 DEF Consistent
<1>6. t \in Ready' /\ Started(t)'
  BY <1>1, <1>3 DEF Ready, Started, Runnable, SetAside
<1>7. tinib_inipri[s] > pri[t]
  BY <1>1, <1>3, <1>5, <1>6 DEF LeadInv, StartedTasksLead
<1>8. pri[s] >= tinib_inipri[s]
  BY <1>1, <1>5 DEF LeadInv, AboveInitial, Runnable
<1> QED BY <1>1, <1>2, <1>5, <1>7, <1>8, Tables

\* Schedule gives way only to a task above the initial priority of the caller.
LEMMA YieldsToBetter ==
  ASSUME KernelInv, Schedule, runtsk' # runtsk
  PROVE  tcb_curpri'[runtsk] < tcb_curpri'[runtsk']
<1> DEFINE pri == [tcb_curpri EXCEPT ![runtsk] = tinib_inipri[runtsk]]
           k   == [tcxb_pc EXCEPT ![runtsk] = "dispatcher_r_exepri"]
<1>0. PICK u, r, X, x :
        u = runtsk /\ r = Preempt(rdy, pri) /\ X = Runnable \ {u} /\ x = r.schedtsk
  OBVIOUS
<1>1. /\ u = rdy.schedtsk /\ u \in TaskType /\ u \in Runnable
  BY <1>0, AtTask DEF KernelInv, Schedule
<1>2. /\ Consistent(rdy, tcb_curpri, Runnable) /\ Runnable \in SUBSET TaskType
      /\ tcb_curpri \in [TaskType -> Nat] /\ tcxb_pc \in [TaskType -> Continuation]
  BY Pack DEF KernelInv, DispatchInv, DispatchTypes
<1>3. StartDispatch(r, pri, k) /\ tinib_inipri[u] < rdy.nextpri
  BY <1>0 DEF Schedule, Dispatch
<1>4. /\ pri \in [TaskType -> Nat] /\ pri[u] = tinib_inipri[u] /\ pri[u] \in Nat
      /\ \A y \in TaskType : y # u => pri[y] = tcb_curpri[y] /\ k[y] = tcxb_pc[y]
  BY <1>0, <1>1, <1>2, Tables
<1> HIDE DEF pri, k
<1>5. Sound(rdy, pri, X) /\ X \in SUBSET TaskType /\ u \notin X
  <2>1. \A y \in X : pri[y] = tcb_curpri[y]
    BY <1>0, <1>2, <1>4
  <2> QED BY <1>0, <1>1, <1>2, <2>1, SoundOther DEF Consistent
<1>6. x \in X /\ pri[x] = rdy.nextpri
  <2>1. Preempted(r, rdy, pri, X, u, pri[u])
    BY <1>0, <1>1, <1>3, <1>4, <1>5, TaskTable, PreemptFacts
  <2> QED BY <1>0, <2>1 DEF Preempted
<1>7. /\ runtsk' = x /\ x # TSKID_NULL
      /\ tcb_curpri' = IF k[x] \in Fresh THEN [pri EXCEPT ![x] = tinib_exepri[x]] ELSE pri
  <2>1. x # TSKID_NULL
    BY <1>5, <1>6, Tables
  <2> QED BY <1>0, <1>3, <2>1 DEF StartDispatch, Fresh
<1>8. x \in TaskType /\ x # u /\ tcb_curpri'[u] = pri[u]
  BY <1>1, <1>4, <1>5, <1>6, <1>7
<1>9. tcb_curpri'[x] >= pri[x]
  <2>1. CASE k[x] \in Fresh
    <3>1. tcb_tstat[x] = "RUNNABLE" /\ x # runtsk /\ tcxb_pc[x] \in Fresh
      BY <1>0, <1>4, <1>6, <1>8, <2>1 DEF Runnable
    <3>2. pri[x] = tinib_inipri[x]
      BY <1>4, <1>8, <3>1 DEF KernelInv, DispatchInv, FreshAtInitial, AtInitial
    <3> QED BY <1>4, <1>7, <1>8, <2>1, <3>2, Tables
  <2>2. CASE k[x] \notin Fresh
    BY <1>4, <1>7, <1>8, <2>2
  <2> QED BY <2>1, <2>2
<1>10. tcb_curpri'[x] \in Nat
  BY <1>4, <1>7, <1>8, Tables
<1> QED BY <1>0, <1>3, <1>4, <1>6, <1>7, <1>8, <1>9, <1>10

\* The task that runs is set aside only for one of strictly higher priority: in a service
\* (preempt, make_runnable), in Schedule, and when a handler returns (int_from_int).
THEOREM PreemptedForBetter == Spec => PreemptedOnlyByBetter
<1>1. ASSUME KernelInv, LeadInv, (KernelInv /\ LeadInv)', Next,
             NEW t \in TaskType, runtsk = t, tcb_tstat'[t] = "RUNNABLE",
             tcxb_pc'[t] # "activate_r", runtsk' # t
      PROVE  tcb_curpri'[t] < tcb_curpri'[runtsk']
  <2>1. DispatchInv' /\ LeadInv' /\ t # TSKID_NULL /\ tcxb_pc \in [TaskType -> Continuation]
        /\ tcb_tstat \in [TaskType -> TaskState]
    BY <1>1, Tables DEF KernelInv, DispatchInv, DispatchTypes, BlockTypes
  <2>2. /\ ~ InitializeTask /\ ~ StartOS /\ ~ LeaveIdle
        /\ \A x \in TaskType : ~ ActivateAgain(x)
        /\ \A res \in ResourceType : ~ GetResource(res)
        /\ \A mask \in Mask : ~ ClearEvent(mask)
        /\ \A i \in IsrType : ~ Interrupt(i)
    BY <1>1, <2>1, Tables
       DEF InitializeTask, StartOS, LeaveIdle, ActivateAgain, GetResource, ClearEvent, Interrupt,
           KernelInv, DispatchInv, Booting
  <2>3. ASSUME NEW r, NEW pri, NEW k, NEW c \in SetAside, Dispatch(r, pri, k, c), t \in DOMAIN k
        PROVE  tcb_curpri'[t] < tcb_curpri'[runtsk']
    <3>1. runtsk' = rdy'.schedtsk /\ tcxb_pc'[t] = c
      BY <1>1, <2>3 DEF Dispatch, StartDispatch
    <3> QED BY <1>1, <2>1, <3>1, SetAsideForBetter
  <2>4. \A c : c \in SetAside <=> c = "dispatcher_r" \/ c = "ret_int_r"
    BY DEF SetAside
  <2>5. ASSUME NEW r, NEW pri, NEW k, NEW x, DispatchIfBetter(r, pri, k, x), t \in DOMAIN k
        PROVE  tcb_curpri'[t] < tcb_curpri'[runtsk']
    <3>1. Dispatch(r, pri, k, "dispatcher_r")
      BY <1>1, <2>5 DEF DispatchIfBetter
    <3> QED BY <2>3, <2>4, <2>5, <3>1
  <2>6. ASSUME NEW x \in TaskType, ActivateDormant(x)
        PROVE  tcb_curpri'[t] < tcb_curpri'[runtsk']
    <3>1. DispatchIfBetter(MakeRunnable(rdy, ActivePri({x}), x), ActivePri({x}), ActivePc({x}), x)
      BY <2>6 DEF ActivateDormant
    <3>2. t \in DOMAIN ActivePc({x})
      BY <1>1 DEF ActivePc
    <3> QED BY <2>5, <3>1, <3>2
  <2>7. ASSUME NEW x \in ExtTask, NEW mask \in Mask, SetEvent(x, mask)
        PROVE  tcb_curpri'[t] < tcb_curpri'[runtsk']
    <3>1. DispatchIfBetter(MakeRunnable(rdy, tcb_curpri, x), tcb_curpri, tcxb_pc, x)
      BY <1>1, <2>7 DEF SetEvent
    <3> QED BY <1>1, <2>1, <2>5, <3>1
  <2>8. ASSUME NEW res \in ResourceType, ReleaseResource(res)
        PROVE  tcb_curpri'[t] < tcb_curpri'[runtsk']
    <3>1. PICK pri : Dispatch(Preempt(rdy, pri), pri, tcxb_pc, "dispatcher_r")
      BY <1>1, <2>8 DEF ReleaseResource
    <3> QED BY <1>1, <2>1, <2>3, <2>4, <3>1
  <2>9. ASSUME InterruptReturn
        PROVE  tcb_curpri'[t] < tcb_curpri'[runtsk']
    <3>1. Dispatch(rdy, tcb_curpri, tcxb_pc, "ret_int_r")
      BY <1>1, <2>9 DEF InterruptReturn
    <3> QED BY <1>1, <2>1, <2>3, <2>4, <3>1
  \* A task that ends is not runnable afterwards, or is activated again.
  <2>10. ASSUME NEW again \in BOOLEAN, NEW x, EndTask(again, x) PROVE FALSE
    <3>1. PICK new : /\ new = {y \in TaskType : y = x \/ (again /\ y = runtsk)}
                     /\ tcxb_pc' = ActivePc(new)
                     /\ tcb_tstat' = [y \in TaskType |-> IF y \in new THEN "RUNNABLE"
                                       ELSE IF y = runtsk THEN "DORMANT" ELSE tcb_tstat[y]]
      BY <2>10 DEF EndTask, StartDispatch
    <3> QED BY <1>1, <3>1 DEF ActivePc
  <2>11. (tcb_actcnt[runtsk] > 0) \in BOOLEAN
    OBVIOUS
  <2>12. ~ TerminateTask /\ ~ ChainSelf /\ \A x \in TaskType : ~ ChainOther(x)
    BY <2>10, <2>11 DEF TerminateTask, ChainSelf, ChainOther
  <2>13. ASSUME NEW mask \in Mask, WaitEvent(mask) PROVE FALSE
    BY <1>1, <2>1, <2>13 DEF WaitEvent
  <2>14. CASE Schedule
    BY <1>1, <2>14, YieldsToBetter
  <2> QED BY <1>1, <2>2, <2>6, <2>7, <2>8, <2>9, <2>12, <2>13, <2>14 DEF Next, ActivateTask
<1>2. (KernelInv /\ LeadInv) /\ (KernelInv /\ LeadInv)' /\ [Next]_vars =>
        [\A t \in TaskType :
           runtsk = t /\ tcb_tstat'[t] = "RUNNABLE" /\ tcb_actcnt'[t] = tcb_actcnt[t]
             /\ tcxb_pc'[t] # "activate_r" /\ runtsk' # t
           => tcb_curpri'[t] < tcb_curpri'[runtsk']]_vars
  BY <1>1
<1> QED BY <1>2, Inductive, PTL DEF Spec, PreemptedOnlyByBetter

--------------------------------------------------------------------------------
(* The order of the runnable tasks: schedtsk and the queues, joined from the highest *)
(* priority down.                                                                     *)

\* The queues from the lowest level up: queuesFrom for any family of queues.
Levels == -1 .. TPRI_MAXTASK

Flat(f, q) == f = [p \in Levels |-> IF p < 0 THEN << >> ELSE q[p] \o f[p - 1]]

Order(q) == (CHOOSE f : Flat(f, q))[TPRI_MAXTASK]

Line(r) == (IF r.schedtsk = TSKID_NULL THEN << >> ELSE <<r.schedtsk>>) \o Order(r.queue)

\* The order of the refinement mapping is the line of rdy.
LEMMA PrecedenceIsLine == precedence = Line(rdy) /\ precedence' = Line(rdy')
BY DEF precedence, Line, Order, Flat, queuesFrom, Levels

\* What holds below the lowest priority, and at a level when it holds below it, holds at
\* every level.
LEMMA UpFrom ==
  ASSUME NEW P, -1 \in P, \A p \in TaskPri : p - 1 \in P => p \in P
  PROVE  Levels \subseteq P
<1> DEFINE T == {n \in Nat : n - 1 \in Levels /\ n - 1 \notin P}
           R == {ss \in Nat \X Nat : ss[1] < ss[2]}
<1> SUFFICES ASSUME T # {} PROVE FALSE
  <2>1. \A p \in Levels : p + 1 \in Nat /\ (p + 1) - 1 = p
    BY TaskTable DEF Levels, TPRI_MAXTASK
  <2> QED BY <2>1
<1>1. T \subseteq Nat
  OBVIOUS
<1>2. IsWellFoundedOn(R, Nat)
  BY NatLessThanWellFounded DEF OpToRel
<1>3. PICK x \in T : \A y \in T : ~ (<<y, x>> \in R)
  <2> HIDE DEF T, R
  <2> QED BY <1>1, <1>2, WFMin
<1>4. x \in Nat /\ x - 1 \in Levels /\ x - 1 \notin P
  OBVIOUS
<1>5. x # 0
  BY <1>4
<1>6. PICK p : p = x - 1
  OBVIOUS
<1>7. p \in TaskPri /\ p - 1 \in Levels
  BY <1>4, <1>5, <1>6, TaskTable DEF Levels, TaskPri, TPRI_MINTASK, TPRI_MAXTASK
<1>8. p \notin T \/ <<p, x>> \notin R
  BY <1>3, <1>7 DEF TaskPri
<1>9. p \in Nat /\ p < x
  BY <1>4, <1>5, <1>6
<1>10. p - 1 \in P
  BY <1>7, <1>8, <1>9
<1> QED BY <1>4, <1>6, <1>7, <1>10

\* The levels as numbers.
LEMMA LevelFacts ==
  /\ TPRI_MAXTASK \in TaskPri /\ TPRI_MAXTASK \in Levels /\ -1 \in Levels
  /\ Levels \subseteq Int /\ Levels = TaskPri \cup {-1}
  /\ \A p \in TaskPri : p \in Nat /\ p - 1 \in Levels /\ p <= TPRI_MAXTASK
BY TaskTable DEF Levels, TaskPri, TPRI_MINTASK, TPRI_MAXTASK

\* The recursion has a solution, and so has what queuesFrom is by definition.
LEMMA FlatExists ==
  ASSUME NEW q
  PROVE  \E f : Flat(f, q)
<1> DEFINE step(g, p) == IF p < 0 THEN << >> ELSE q[p] \o g[p - 1]
           P == {n \in Levels : \E g : g = [p \in -1 .. n |-> step(g, p)]}
<1>1. -1 \in P
  <2>1. PICK g : g = [p \in -1 .. -1 |-> << >>]
    OBVIOUS
  <2>2. g = [p \in -1 .. -1 |-> step(g, p)]
    BY <2>1
  <2> QED BY <2>2, LevelFacts
<1>2. ASSUME NEW n \in TaskPri, n - 1 \in P PROVE n \in P
  <2>1. PICK g : g = [p \in -1 .. n - 1 |-> step(g, p)]
    BY <1>2
  <2>2. PICK h : h = [p \in -1 .. n |-> IF p = n THEN q[n] \o g[n - 1] ELSE g[p]]
    OBVIOUS
  <2>3. n \in Nat /\ n \in Levels
    BY LevelFacts
  <2>4. ASSUME NEW p \in -1 .. n PROVE h[p] = step(h, p)
    <3>1. CASE p = n
      BY <2>2, <2>3, <3>1
    <3>2. CASE p # n
      <4>1. p \in -1 .. n - 1 /\ (p < 0 \/ p - 1 \in -1 .. n - 1)
        BY <2>3, <3>2
      <4>2. h[p] = g[p] /\ (p < 0 \/ h[p - 1] = g[p - 1])
        BY <2>2, <2>3, <3>2, <4>1
      <4>3. g[p] = step(g, p)
        BY <2>1, <4>1
      <4> QED BY <4>2, <4>3
    <3> QED BY <3>1, <3>2
  <2>5. h = [p \in -1 .. n |-> step(h, p)]
    BY <2>2, <2>4
  <2> QED BY <2>3, <2>5
<1>3. Levels \subseteq P
  <2> HIDE DEF P
  <2> QED BY <1>1, <1>2, UpFrom
<1>4. TPRI_MAXTASK \in P
  BY <1>3, LevelFacts
<1> QED BY <1>4 DEF Flat, Levels

Families == [TaskPri -> Seq(TaskType)]

\* The queues joined up to a level.
Joined(f, q) ==
  /\ f[-1] = << >> /\ \A p \in TaskPri : f[p] = q[p] \o f[p - 1]
  /\ \A p \in Levels : f[p] \in Seq(TaskType)

\* The order joins the queues.
LEMMA OrderJoins ==
  ASSUME NEW q \in Families
  PROVE  \E f : Joined(f, q) /\ Order(q) = f[TPRI_MAXTASK]
<1>1. PICK f : f = CHOOSE g : Flat(g, q)
  OBVIOUS
<1>2. Flat(f, q)
  BY <1>1, FlatExists
<1>3. f[-1] = << >> /\ \A p \in TaskPri : f[p] = q[p] \o f[p - 1]
  <2>1. -1 \in Levels /\ \A p \in TaskPri : p \in Levels /\ ~ (p < 0)
    BY LevelFacts
  <2> QED BY <1>2, <2>1 DEF Flat
<1> DEFINE P == {p \in Levels : f[p] \in Seq(TaskType)}
<1>4. -1 \in P
  <2>1. << >> \in Seq(TaskType)
    BY EmptySeq
  <2> QED BY <1>3, <2>1, LevelFacts
<1>5. ASSUME NEW p \in TaskPri, p - 1 \in P PROVE p \in P
  <2>1. q[p] \in Seq(TaskType) /\ f[p - 1] \in Seq(TaskType) /\ f[p] = q[p] \o f[p - 1]
    BY <1>3, <1>5 DEF Families
  <2> QED BY <2>1, LevelFacts, ConcatProperties
<1>6. Levels \subseteq P
  <2> HIDE DEF P
  <2> QED BY <1>4, <1>5, UpFrom
<1> QED BY <1>1, <1>3, <1>6 DEF Joined, Order

\* The tasks of two sequences joined.
LEMMA JoinElements ==
  ASSUME NEW S, NEW x \in Seq(S), NEW y \in Seq(S)
  PROVE  Elements(x \o y) = Elements(x) \cup Elements(y)
<1>1. PICK c : c = x \o y
  OBVIOUS
<1>2. PICK m, n : m = Len(x) /\ n = Len(y)
  OBVIOUS
<1>3. /\ m \in Nat /\ n \in Nat /\ Len(c) = m + n
      /\ \A i \in 1 .. m + n : c[i] = IF i <= m THEN x[i] ELSE y[i - m]
  BY <1>1, <1>2, ConcatProperties
<1>4. ASSUME NEW i \in 1 .. Len(c) PROVE c[i] \in Elements(x) \cup Elements(y)
  <2>1. CASE i <= m
    BY <1>2, <1>3, <2>1 DEF Elements
  <2>2. CASE ~ (i <= m)
    <3>1. i - m \in 1 .. n /\ c[i] = y[i - m]
      BY <1>3, <2>2
    <3> QED BY <1>2, <3>1 DEF Elements
  <2> QED BY <2>1, <2>2
<1>5. ASSUME NEW i \in 1 .. m PROVE x[i] \in Elements(c)
  <2>1. i \in 1 .. Len(c) /\ c[i] = x[i]
    BY <1>3
  <2> QED BY <2>1 DEF Elements
<1>6. ASSUME NEW i \in 1 .. n PROVE y[i] \in Elements(c)
  <2>1. i + m \in 1 .. Len(c) /\ i + m \in 1 .. m + n /\ ~ (i + m <= m) /\ (i + m) - m = i
    BY <1>3
  <2>2. c[i + m] = y[i]
    BY <1>3, <2>1
  <2> QED BY <2>1, <2>2 DEF Elements
<1>7. \A e \in Elements(c) : e \in Elements(x) \cup Elements(y)
  BY <1>4 DEF Elements
<1>8. \A e \in Elements(x) : e \in Elements(c)
  BY <1>2, <1>5 DEF Elements
<1>9. \A e \in Elements(y) : e \in Elements(c)
  BY <1>2, <1>6 DEF Elements
<1> QED BY <1>1, <1>7, <1>8, <1>9

\* The tasks of a sequence are in queues above p0, or below it.
Above(a, q, p0) == \A t \in Elements(a) : \E p \in TaskPri : p > p0 /\ t \in Elements(q[p])
Below(b, q, p0) == \A t \in Elements(b) : \E p \in TaskPri : p < p0 /\ t \in Elements(q[p])

\* What is joined up to a level comes from queues of that level and below.
LEMMA JoinedBelow ==
  ASSUME NEW q \in Families, NEW f, Joined(f, q), NEW p0 \in TaskPri
  PROVE  Below(f[p0 - 1], q, p0)
<1> DEFINE P == {p \in Levels : Below(f[p], q, p + 1)}
<1>1. -1 \in P
  BY LevelFacts DEF Joined, Below, Elements
<1>2. ASSUME NEW p \in TaskPri, p - 1 \in P PROVE p \in P
  <2>1. /\ q[p] \in Seq(TaskType) /\ f[p - 1] \in Seq(TaskType) /\ f[p] = q[p] \o f[p - 1]
        /\ p \in Nat /\ p \in Levels /\ TaskPri \subseteq Nat
    BY <1>2, LevelFacts DEF Families, Joined
  <2>2. Elements(f[p]) = Elements(q[p]) \cup Elements(f[p - 1])
    BY <2>1, JoinElements
  <2>3. Below(f[p - 1], q, p)
    BY <1>2, <2>1
  <2>4. Below(f[p], q, p + 1)
    <3>1. p < p + 1 /\ \A x \in TaskPri : x < p => x < p + 1
      BY <2>1
    <3> QED BY <2>2, <2>3, <3>1 DEF Below
  <2> QED BY <2>1, <2>4
<1>3. Levels \subseteq P
  <2> HIDE DEF P
  <2> QED BY <1>1, <1>2, UpFrom
<1>4. p0 - 1 \in P /\ (p0 - 1) + 1 = p0
  BY <1>3, LevelFacts
<1> QED BY <1>4

\* The sequence o is the queue s of p0 between what is above and what is below.
Splits(o, q, a, s, b, p0) ==
  /\ a \in Seq(TaskType) /\ b \in Seq(TaskType)
  /\ o = a \o (s \o b) /\ Above(a, q, p0) /\ Below(b, q, p0)

\* The order is a part above p0, the queue of p0 and a part below it, and changing that
\* queue changes nothing else.
LEMMA OrderSplits ==
  ASSUME NEW q \in Families, NEW r \in Families, NEW p0 \in TaskPri,
         \A p \in TaskPri : p # p0 => r[p] = q[p]
  PROVE  \E a, b : Splits(Order(q), q, a, q[p0], b, p0) /\ Splits(Order(r), q, a, r[p0], b, p0)
<1>1. PICK f : Joined(f, q) /\ Order(q) = f[TPRI_MAXTASK]
  BY OrderJoins
<1>2. PICK g : Joined(g, r) /\ Order(r) = g[TPRI_MAXTASK]
  BY OrderJoins
<1>3. PICK b : b = f[p0 - 1]
  OBVIOUS
<1>4. b \in Seq(TaskType) /\ Below(b, q, p0)
  BY <1>1, <1>3, JoinedBelow, LevelFacts DEF Joined
<1>5. g[p0 - 1] = b
  <2> DEFINE P == {p \in Levels : p < p0 => g[p] = f[p]}
  <2>1. -1 \in P
    BY <1>1, <1>2, LevelFacts DEF Joined
  <2>2. ASSUME NEW p \in TaskPri, p - 1 \in P PROVE p \in P
    <3> SUFFICES ASSUME p < p0 PROVE g[p] = f[p]
      BY LevelFacts
    <3>1. p - 1 < p0 /\ p # p0
      BY LevelFacts
    <3>2. g[p - 1] = f[p - 1] /\ r[p] = q[p]
      BY <2>2, <3>1
    <3> QED BY <1>1, <1>2, <3>2 DEF Joined
  <2>3. Levels \subseteq P
    <3> HIDE DEF P
    <3> QED BY <2>1, <2>2, UpFrom
  <2>4. p0 - 1 \in P /\ p0 - 1 < p0
    BY <2>3, LevelFacts
  <2> QED BY <1>3, <2>4
<1> DEFINE Part(p, a) == /\ a \in Seq(TaskType) /\ Above(a, q, p0)
                         /\ f[p] = a \o (q[p0] \o b) /\ g[p] = a \o (r[p0] \o b)
           P == {p \in Levels : p >= p0 => \E a : Part(p, a)}
<1>6. q[p0] \in Seq(TaskType) /\ r[p0] \in Seq(TaskType)
      /\ q[p0] \o b \in Seq(TaskType) /\ r[p0] \o b \in Seq(TaskType)
  <2>1. q[p0] \in Seq(TaskType) /\ r[p0] \in Seq(TaskType)
    BY DEF Families
  <2> QED BY <1>4, <2>1, ConcatProperties
<1>7. ASSUME NEW p \in TaskPri, p - 1 \in P PROVE p \in P
  <2> SUFFICES ASSUME p >= p0 PROVE \E a : Part(p, a)
    BY LevelFacts
  <2>1. f[p] = q[p] \o f[p - 1] /\ g[p] = r[p] \o g[p - 1]
    BY <1>1, <1>2 DEF Joined
  <2>2. CASE p = p0
    <3>1. f[p] = << >> \o (q[p0] \o b) /\ g[p] = << >> \o (r[p0] \o b)
      BY <1>3, <1>5, <1>6, <2>1, <2>2, ConcatEmptySeq
    <3>2. << >> \in Seq(TaskType) /\ Above(<< >>, q, p0)
      BY EmptySeq DEF Above, Elements
    <3> QED BY <3>1, <3>2
  <2>3. CASE p # p0
    <3>1. p > p0 /\ p - 1 >= p0 /\ r[p] = q[p] /\ q[p] \in Seq(TaskType)
      BY <2>3, LevelFacts DEF Families
    <3>2. PICK a : Part(p - 1, a)
      BY <1>7, <3>1
    <3>3. q[p] \o a \in Seq(TaskType)
      BY <3>1, <3>2, ConcatProperties
    <3>4. f[p] = (q[p] \o a) \o (q[p0] \o b) /\ g[p] = (q[p] \o a) \o (r[p0] \o b)
      <4>1. PICK x, y, z : x = q[p] /\ y = q[p0] \o b /\ z = r[p0] \o b
        OBVIOUS
      <4>2. x \in Seq(TaskType) /\ y \in Seq(TaskType) /\ z \in Seq(TaskType) /\ a \in Seq(TaskType)
        BY <1>6, <3>1, <3>2, <4>1
      <4>3. f[p] = x \o (a \o y) /\ g[p] = x \o (a \o z)
        BY <2>1, <3>1, <3>2, <4>1
      <4>4. (x \o a) \o y = x \o (a \o y)
        BY <4>2, ConcatAssociative
      <4>5. (x \o a) \o z = x \o (a \o z)
        BY <4>2, ConcatAssociative
      <4> QED BY <4>1, <4>3, <4>4, <4>5
    <3>7. Above(q[p] \o a, q, p0)
      <4>1. Elements(q[p] \o a) = Elements(q[p]) \cup Elements(a) /\ Above(a, q, p0)
        BY <3>1, <3>2, JoinElements
      <4> QED BY <3>1, <4>1 DEF Above
    <3> QED BY <3>3, <3>4, <3>7
  <2> QED BY <2>2, <2>3
<1>8. Levels \subseteq P
  <2>1. -1 \in P
    <3>1. -1 \in Levels /\ ~ (-1 >= p0)
      BY LevelFacts
    <3> QED BY <3>1
  <2> HIDE DEF P
  <2> QED BY <1>7, <2>1, UpFrom
<1>9. PICK a : Part(TPRI_MAXTASK, a)
  BY <1>8, LevelFacts
<1> QED BY <1>1, <1>2, <1>4, <1>9 DEF Splits

--------------------------------------------------------------------------------
(* Where PriorityOrder inserts a task. *)

\* Into an order o between a and b.
LEMMA InsertBetween ==
  ASSUME NEW S, NEW a \in Seq(S), NEW b \in Seq(S), NEW t \in S,
         NEW P, P = 1 .. Len(a)
  PROVE  Abstract!Insert(a \o b, Cardinality(P), t) = a \o (<<t>> \o b)
<1>1. PICK m, n, o : m = Len(a) /\ n = Len(b) /\ o = a \o b
  OBVIOUS
<1>2. /\ m \in Nat /\ n \in Nat /\ o \in Seq(S) /\ Len(o) = m + n
      /\ \A i \in 1 .. m + n : o[i] = IF i <= m THEN a[i] ELSE b[i - m]
  BY <1>1, ConcatProperties
<1>3. Cardinality(P) = m
  <2>1. 1 \in Int /\ m \in Int
    BY <1>2
  <2>2. Cardinality(1 .. m) = IF 1 > m THEN 0 ELSE m - 1 + 1
    BY <2>1, FS_Interval
  <2> QED BY <1>1, <1>2, <2>2
<1>4. SubSeq(o, 1, m) = a
  <2>1. \A i \in 1 .. m : o[i] \in S
    BY <1>2
  <2>2. PICK x : x = SubSeq(o, 1, m)
    OBVIOUS
  <2>3. x \in Seq(S) /\ Len(x) = m /\ \A i \in 1 .. m : x[i] = o[i]
    BY <1>2, <2>1, <2>2, SubSeqProperties
  <2>4. \A i \in 1 .. Len(x) : x[i] = a[i]
    BY <1>2, <2>3
  <2>5. x = a
    BY <1>1, <2>3, <2>4, SeqEqual
  <2> QED BY <2>2, <2>5
<1>5. SubSeq(o, m + 1, Len(o)) = b
  <2>1. \A i \in m + 1 .. m + n : o[i] \in S
    BY <1>2
  <2>2. PICK x, l : x = SubSeq(o, m + 1, l) /\ l = m + n
    OBVIOUS
  <2>3. /\ x \in Seq(S) /\ Len(x) = IF m + 1 <= l THEN l - (m + 1) + 1 ELSE 0
        /\ \A i \in 1 .. l - (m + 1) + 1 : x[i] = o[(m + 1) + i - 1]
    <3>1. m + 1 \in Int /\ l \in Int /\ \A i \in m + 1 .. l : o[i] \in S
      BY <1>2, <2>1, <2>2
    <3> QED BY <2>2, <3>1, SubSeqProperties
  <2>4. Len(x) = n
    BY <1>2, <2>2, <2>3
  <2>5. \A i \in 1 .. Len(x) : x[i] = b[i]
    <3>1. \A i \in 1 .. n : (m + 1) + i - 1 = m + i /\ m + i \in 1 .. m + n
                            /\ ~ (m + i <= m) /\ (m + i) - m = i
      BY <1>2
    <3>2. \A i \in 1 .. n : x[i] = o[m + i]
      BY <1>2, <2>2, <2>3, <3>1
    <3> QED BY <1>2, <2>4, <3>1, <3>2
  <2>6. x = b
    BY <1>1, <2>3, <2>4, <2>5, SeqEqual
  <2> QED BY <1>2, <2>2, <2>6
<1>6. Abstract!Insert(o, m, t) = SubSeq(o, 1, m) \o <<t>> \o SubSeq(o, m + 1, Len(o))
  BY DEF Abstract!Insert
<1>7. <<t>> \in Seq(S)
  OBVIOUS
<1>8. (a \o <<t>>) \o b = a \o (<<t>> \o b)
  BY <1>7, ConcatAssociative
<1> QED BY <1>1, <1>3, <1>4, <1>5, <1>6, <1>8

\* The places of o that hold a member of Q.
Where(o, Q) == {i \in 1 .. Len(o) : o[i] \in Q}

\* When Q has all of a and nothing of b, they are the places of a.
LEMMA Positions ==
  ASSUME NEW S, NEW a \in Seq(S), NEW b \in Seq(S), NEW Q,
         Elements(a) \subseteq Q, \A x \in Elements(b) : x \notin Q
  PROVE  Where(a \o b, Q) = 1 .. Len(a)
<1>1. PICK m, n, o : m = Len(a) /\ n = Len(b) /\ o = a \o b
  OBVIOUS
<1>2. /\ m \in Nat /\ n \in Nat /\ o \in Seq(S) /\ Len(o) = m + n
      /\ \A i \in 1 .. m + n : o[i] = IF i <= m THEN a[i] ELSE b[i - m]
  BY <1>1, ConcatProperties
<1>3. ASSUME NEW i \in 1 .. Len(o) PROVE o[i] \in Q <=> i \in 1 .. m
  <2>1. CASE i <= m
    <3>1. i \in 1 .. m /\ o[i] = a[i]
      BY <1>2, <2>1
    <3>2. a[i] \in Elements(a)
      BY <1>1, <3>1 DEF Elements
    <3> QED BY <3>1, <3>2
  <2>2. CASE ~ (i <= m)
    <3>1. i - m \in 1 .. n /\ o[i] = b[i - m] /\ i \notin 1 .. m
      BY <1>2, <2>2
    <3>2. b[i - m] \in Elements(b)
      BY <1>1, <3>1 DEF Elements
    <3> QED BY <3>1, <3>2
  <2> QED BY <2>1, <2>2
<1>4. 1 .. m \subseteq 1 .. Len(o)
  BY <1>2
<1> QED BY <1>1, <1>3, <1>4 DEF Where

\* The Cardinality of the instance is that of FiniteSets.
LEMMA SameCardinality ==
  ASSUME NEW P
  PROVE  Abstract!Cardinality(P) = Cardinality(P)
BY DEF Abstract!Cardinality, Cardinality

\* Behind its equals, and before them.
LastEquals(a, b, p, t) ==
  /\ a \in Seq(TaskType) /\ b \in Seq(TaskType) /\ t \in TaskType
  /\ \A x \in Elements(a) : p[x] >= p[t]
  /\ \A x \in Elements(b) : ~ (p[x] >= p[t])

FirstEquals(a, b, p, t) ==
  /\ a \in Seq(TaskType) /\ b \in Seq(TaskType) /\ t \in TaskType
  /\ \A x \in Elements(a) : p[x] > p[t]
  /\ \A x \in Elements(b) : ~ (p[x] > p[t])

\* A task inserted behind its equals stands between those at least as good and the rest.
LEMMA StandsBehind ==
  ASSUME NEW a, NEW b, NEW p, NEW t, LastEquals(a, b, p, t)
  PROVE  Abstract!BehindEquals(a \o b, p, t) = a \o (<<t>> \o b)
<1>0. /\ a \in Seq(TaskType) /\ b \in Seq(TaskType) /\ t \in TaskType
      /\ \A x \in Elements(a) : p[x] >= p[t]
      /\ \A x \in Elements(b) : ~ (p[x] >= p[t])
  BY DEF LastEquals
<1>1. PICK o, Q : o = a \o b /\ Q = {x \in TaskType : p[x] >= p[t]}
  OBVIOUS
<1>2. Elements(a) \subseteq TaskType /\ Elements(b) \subseteq TaskType
  BY <1>0 DEF Elements
<1>3. {i \in 1 .. Len(o) : o[i] \in Q} = 1 .. Len(a)
  <2>1. Elements(a) \subseteq Q /\ \A x \in Elements(b) : x \notin Q
    BY <1>0, <1>1, <1>2
  <2>2. Where(a \o b, Q) = 1 .. Len(a)
    BY <1>0, <2>1, Positions
  <2> QED BY <1>1, <2>2 DEF Where
<1>4. \A i \in 1 .. Len(o) : o[i] \in TaskType
  <2>1. o \in Seq(TaskType)
    BY <1>0, <1>1, ConcatProperties
  <2> QED BY <2>1
<1>5. {i \in 1 .. Len(o) : p[o[i]] >= p[t]} = 1 .. Len(a)
  BY <1>1, <1>3, <1>4
<1>6. Abstract!BehindEquals(o, p, t) =
        Abstract!Insert(o, Cardinality({i \in 1 .. Len(o) : p[o[i]] >= p[t]}), t)
  BY SameCardinality DEF Abstract!BehindEquals
<1>7. Abstract!Insert(a \o b, Cardinality(1 .. Len(a)), t) = a \o (<<t>> \o b)
  BY <1>0, InsertBetween
<1> QED BY <1>1, <1>5, <1>6, <1>7

\* A task inserted before its equals stands between the better ones and the rest.
LEMMA StandsBefore ==
  ASSUME NEW a, NEW b, NEW p, NEW t, FirstEquals(a, b, p, t)
  PROVE  Abstract!BeforeEquals(a \o b, p, t) = a \o (<<t>> \o b)
<1>0. /\ a \in Seq(TaskType) /\ b \in Seq(TaskType) /\ t \in TaskType
      /\ \A x \in Elements(a) : p[x] > p[t]
      /\ \A x \in Elements(b) : ~ (p[x] > p[t])
  BY DEF FirstEquals
<1>1. PICK o, Q : o = a \o b /\ Q = {x \in TaskType : p[x] > p[t]}
  OBVIOUS
<1>2. Elements(a) \subseteq TaskType /\ Elements(b) \subseteq TaskType
  BY <1>0 DEF Elements
<1>3. {i \in 1 .. Len(o) : o[i] \in Q} = 1 .. Len(a)
  <2>1. Elements(a) \subseteq Q /\ \A x \in Elements(b) : x \notin Q
    BY <1>0, <1>1, <1>2
  <2>2. Where(a \o b, Q) = 1 .. Len(a)
    BY <1>0, <2>1, Positions
  <2> QED BY <1>1, <2>2 DEF Where
<1>4. \A i \in 1 .. Len(o) : o[i] \in TaskType
  <2>1. o \in Seq(TaskType)
    BY <1>0, <1>1, ConcatProperties
  <2> QED BY <2>1
<1>5. {i \in 1 .. Len(o) : p[o[i]] > p[t]} = 1 .. Len(a)
  BY <1>1, <1>3, <1>4
<1>6. Abstract!BeforeEquals(o, p, t) =
        Abstract!Insert(o, Cardinality({i \in 1 .. Len(o) : p[o[i]] > p[t]}), t)
  BY SameCardinality DEF Abstract!BeforeEquals
<1>7. Abstract!Insert(a \o b, Cardinality(1 .. Len(a)), t) = a \o (<<t>> \o b)
  BY <1>0, InsertBetween
<1> QED BY <1>1, <1>5, <1>6, <1>7

--------------------------------------------------------------------------------
(* What task.c does to the order. *)

\* preempt first puts the old schedtsk u, now below nextpri, in front of its queue.
LEMMA BackInQueue ==
  ASSUME NEW r, NEW pri \in [TaskType -> Nat],
         NEW X \in SUBSET TaskType, Sound(r, pri, X),
         NEW u \in TaskType, u \notin X,
         NEW p0 \in TaskPri, p0 = pri[u], p0 < r.nextpri
  PROVE  MapExact(InsertFirst(r, p0, u))
<1>0. PICK f : f = InsertFirst(r, p0, u)
  OBVIOUS
<1>1. /\ r.primap \in SUBSET TaskPri /\ r.nextpri \in TaskPri /\ TaskPri \in SUBSET Nat
      /\ MapExact(r) /\ TPRI_MINTASK <= p0 /\ TPRI_MINTASK \in Nat
  BY TaskTable, SchedulerFields DEF Sound
<1>2. Inserted(f, r, pri, X, u, p0)
  BY <1>0, InsertFirstFacts
<1>3. r.primap # {}
  <2>1. r.primap = {} => r.nextpri = TPRI_MINTASK
    BY <1>1 DEF MapExact
  <2>2. r.nextpri \in Nat /\ p0 \in Nat
    BY <1>1
  <2> QED BY <1>1, <2>1, <2>2
<1>4. f.primap = r.primap \cup {p0} /\ f.nextpri = r.nextpri
  BY <1>2 DEF Inserted
<1>5. r.nextpri \in r.primap /\ \A p \in r.primap : p <= r.nextpri
  BY <1>1, <1>3 DEF MapExact
<1>6. p0 <= r.nextpri
  <2>1. r.nextpri \in Nat /\ p0 \in Nat
    BY <1>1
  <2> QED BY <2>1
<1>7. f.nextpri \in f.primap /\ \A p \in f.primap : p <= f.nextpri
  BY <1>4, <1>5, <1>6
<1>8. MapExact(f)
  BY <1>2, <1>7 DEF MapExact, Inserted
<1> QED BY <1>0, <1>8

\* A sequence with no element is empty.
LEMMA NoElements ==
  ASSUME NEW S, NEW s \in Seq(S), Elements(s) = {}
  PROVE  s = << >>
<1>1. s # << >> => s[1] \in Elements(s)
  BY TailFacts
<1> QED BY <1>1

\* The parts of the order above and below the queue of priority p0.
Parted(q, pri, X, a, s, b, p0) ==
  /\ a \in Seq(TaskType) /\ s \in Seq(TaskType) /\ b \in Seq(TaskType)
  /\ Order(q) = a \o (s \o b)
  /\ \A x \in Elements(a) : x \in X /\ pri[x] > p0
  /\ \A x \in Elements(s) : x \in X /\ pri[x] = p0
  /\ \A x \in Elements(b) : x \in X /\ pri[x] < p0

\* The priorities of the tasks in the parts of the order.
LEMMA SplitsParted ==
  ASSUME NEW q \in Families, NEW pri, NEW X, QueuesHold(q, pri, X),
         NEW a, NEW b, NEW p0 \in TaskPri, Splits(Order(q), q, a, q[p0], b, p0)
  PROVE  Parted(q, pri, X, a, q[p0], b, p0)
<1>1. \A p \in TaskPri : Elements(q[p]) = {t \in X : pri[t] = p}
  BY DEF QueuesHold
<1>2. \A p \in TaskPri : \A x \in Elements(q[p]) : x \in X /\ pri[x] = p
  BY <1>1
<1>3. q[p0] \in Seq(TaskType)
  BY DEF Families
<1>4. a \in Seq(TaskType) /\ b \in Seq(TaskType) /\ Order(q) = a \o (q[p0] \o b)
      /\ Above(a, q, p0) /\ Below(b, q, p0)
  BY DEF Splits
<1>5. \A x \in Elements(a) : x \in X /\ pri[x] > p0
  BY <1>2, <1>4 DEF Above
<1>6. \A x \in Elements(b) : x \in X /\ pri[x] < p0
  BY <1>2, <1>4 DEF Below
<1> QED BY <1>2, <1>3, <1>4, <1>5, <1>6 DEF Parted

\* The order is a sequence of the ready tasks.
LEMMA OrderFacts ==
  ASSUME NEW q \in Families, NEW pri, NEW X, QueuesHold(q, pri, X)
  PROVE  /\ Order(q) \in Seq(TaskType) /\ Elements(Order(q)) \subseteq X
         /\ X = {} => Order(q) = << >>
<1>1. PICK p0 \in TaskPri : p0 = TPRI_MAXTASK
  BY LevelFacts
<1>2. PICK a, b : Splits(Order(q), q, a, q[p0], b, p0)
  BY OrderSplits
<1>3. PICK s : s = q[p0]
  OBVIOUS
<1>4. Parted(q, pri, X, a, s, b, p0)
  BY <1>2, <1>3, SplitsParted
<1>5. a \in Seq(TaskType) /\ s \in Seq(TaskType) /\ b \in Seq(TaskType)
      /\ Order(q) = a \o (s \o b)
      /\ Elements(a) \subseteq X /\ Elements(s) \subseteq X /\ Elements(b) \subseteq X
  BY <1>4 DEF Parted
<1>6. s \o b \in Seq(TaskType)
  BY <1>5, ConcatProperties
<1>7. Elements(s \o b) = Elements(s) \cup Elements(b)
  BY <1>5, JoinElements
<1>8. Elements(a \o (s \o b)) = Elements(a) \cup Elements(s \o b)
  <2>1. PICK y : y = s \o b
    OBVIOUS
  <2>2. y \in Seq(TaskType) /\ a \in Seq(TaskType)
    BY <1>5, <1>6, <2>1
  <2>3. Elements(a \o y) = Elements(a) \cup Elements(y)
    BY <2>2, JoinElements
  <2> QED BY <2>1, <2>3
<1>9. a \o (s \o b) \in Seq(TaskType)
  BY <1>5, <1>6, ConcatProperties
<1>10. Order(q) \in Seq(TaskType) /\ Elements(Order(q)) \subseteq X
  BY <1>5, <1>7, <1>8, <1>9
<1>11. X = {} => Order(q) = << >>
  BY <1>10, NoElements
<1> QED BY <1>10, <1>11

\* The line of schedtsk and the ready tasks.
LineOf(r, R) ==
  /\ Line(r) \in Seq(TaskType) /\ Elements(Line(r)) \subseteq R
  /\ r.schedtsk = TSKID_NULL => Line(r) = << >> /\ Order(r.queue) = << >>
  /\ r.schedtsk # TSKID_NULL =>
       /\ r.schedtsk \in TaskType /\ Line(r) # << >>
       /\ Line(r) = <<r.schedtsk>> \o Order(r.queue)
       /\ Head(Line(r)) = r.schedtsk /\ Tail(Line(r)) = Order(r.queue)
  /\ r.queue \in Families /\ Order(r.queue) \in Seq(TaskType)
  /\ Elements(Order(r.queue)) \subseteq R \ {r.schedtsk}

\* The line has schedtsk at its head and the ready tasks behind it.
LEMMA LineFacts ==
  ASSUME NEW r, NEW pri, NEW R \in SUBSET TaskType, Consistent(r, pri, R)
  PROVE  LineOf(r, R)
<1>0. PICK o, u, X : o = Order(r.queue) /\ u = r.schedtsk /\ X = R \ {r.schedtsk}
  OBVIOUS
<1>1. /\ r \in Scheduler /\ QueuesHold(r.queue, pri, X) /\ MapExact(r) /\ BestChosen(r, pri)
      /\ u # TSKID_NULL => u \in R
  BY <1>0 DEF Consistent, Sound
<1>2. r.queue \in Families
  BY <1>1, TaskTable, SchedulerFields DEF Families
<1>3. o \in Seq(TaskType) /\ Elements(o) \subseteq X /\ (X = {} => o = << >>)
  <2>1. PICK q : q = r.queue
    OBVIOUS
  <2>2. q \in Families /\ QueuesHold(q, pri, X) /\ o = Order(q)
    BY <1>0, <1>1, <1>2, <2>1
  <2> QED BY <2>2, OrderFacts
<1>4. CASE u = TSKID_NULL
  <2>1. r.primap = {}
    BY <1>0, <1>1, <1>4 DEF BestChosen
  <2>2. X = {}
    BY <1>1, <2>1, NextpriBounds
  <2>3. o = << >> /\ Line(r) = << >> \o o
    BY <1>0, <1>3, <1>4, <2>2 DEF Line
  <2>4. Line(r) = << >> /\ << >> \in Seq(TaskType) /\ Elements(<< >>) = {}
    BY <2>3, EmptySeq, ConcatEmptySeq DEF Elements
  <2> QED BY <1>0, <1>2, <1>3, <1>4, <2>3, <2>4 DEF LineOf
<1>5. CASE u # TSKID_NULL
  <2>1. Line(r) = <<u>> \o o /\ u \in TaskType /\ u \in R
    BY <1>0, <1>1, <1>5 DEF Line
  <2>2. PICK c : c = <<u>> \o o
    OBVIOUS
  <2>3. c \in Seq(TaskType) /\ c # << >> /\ Elements(c) = Elements(o) \cup {u}
    BY <1>3, <2>1, <2>2, ConsFacts
  <2>4. Head(c) = u /\ Tail(c) = o
    BY <1>3, <2>1, <2>2
  <2>5. Elements(c) \subseteq R
    BY <1>0, <1>3, <2>1, <2>3
  <2> QED BY <1>0, <1>2, <1>3, <1>5, <2>1, <2>2, <2>3, <2>4, <2>5 DEF LineOf
<1> QED BY <1>4, <1>5

\* search_schedtsk takes the first task of the order.
LEMMA SearchKeepsOrder ==
  ASSUME NEW r \in Scheduler, MapExact(r)
  PROVE  Line(SearchSchedtsk(r)) = Order(r.queue)
<1>0. PICK m, n, q : m = SearchSchedtsk(r) /\ n = r.nextpri /\ q = r.queue
  OBVIOUS
<1>1. /\ q \in Families /\ r.primap \in SUBSET TaskPri /\ n \in TaskPri /\ TaskPri \in SUBSET Nat
  BY <1>0, TaskTable, SchedulerFields DEF Families
<1>2. CASE r.primap = {}
  <2>1. m = [r EXCEPT !.schedtsk = TSKID_NULL]
    BY <1>0, <1>2 DEF SearchSchedtsk
  <2>2. m.schedtsk = TSKID_NULL /\ m.queue = q
    BY <1>0, <2>1 DEF Scheduler
  <2>3. \A p \in TaskPri : q[p] = << >>
    BY <1>0, <1>2 DEF MapExact
  <2>4. QueuesHold(q, [t \in TaskType |-> 0], {})
    BY <2>3 DEF QueuesHold, Elements, Distinct
  <2>5. Order(q) \in Seq(TaskType) /\ Line(m) = << >> \o Order(q)
    BY <1>1, <2>2, <2>4, OrderFacts DEF Line
  <2> QED BY <1>0, <2>5, ConcatEmptySeq
<1>3. CASE r.primap # {}
  <2>1. /\ n \in r.primap /\ q[n] # << >> /\ q[n] \in Seq(TaskType)
        /\ \A p \in TaskPri : q[p] # << >> => p <= n
    BY <1>0, <1>1, <1>3 DEF MapExact, Families
  <2>2. PICK h, c, s : h = Head(q[n]) /\ c = Tail(q[n]) /\ s = q[n]
    OBVIOUS
  <2>3. h \in TaskType /\ c \in Seq(TaskType) /\ h # TSKID_NULL /\ s = <<h>> \o c
    <3>1. h \in TaskType /\ c \in Seq(TaskType)
      BY <2>1, <2>2, TailFacts
    <3>2. s = <<h>> \o c
      BY <2>1, <2>2
    <3> QED BY <3>1, <3>2, TaskTable, NullIsNoTask
  <2>4. m.schedtsk = h /\ m.queue = [q EXCEPT ![n] = c]
    BY <1>0, <1>3, <2>2 DEF SearchSchedtsk, Scheduler
  <2>5. PICK q2 : q2 = m.queue
    OBVIOUS
  <2>6. q2 \in Families /\ q2[n] = c /\ \A p \in TaskPri : p # n => q2[p] = q[p]
    BY <1>1, <2>3, <2>4, <2>5 DEF Families
  <2>7. PICK a, b : Splits(Order(q), q, a, q[n], b, n) /\ Splits(Order(q2), q, a, q2[n], b, n)
    BY <1>1, <2>6, OrderSplits
  <2>8. /\ a \in Seq(TaskType) /\ b \in Seq(TaskType) /\ Above(a, q, n)
        /\ Order(q) = a \o (s \o b) /\ Order(q2) = a \o (c \o b)
    BY <2>2, <2>6, <2>7 DEF Splits
  <2>9. a = << >>
    <3>1. \A p \in TaskPri : p > n => Elements(q[p]) = {}
      <4> SUFFICES ASSUME NEW p \in TaskPri, p > n PROVE Elements(q[p]) = {}
        OBVIOUS
      <4>1. ~ (p <= n)
        BY <1>1
      <4>2. q[p] = << >>
        BY <2>1, <4>1
      <4> QED BY <4>2 DEF Elements
    <3>2. Elements(a) = {}
      BY <2>8, <3>1 DEF Above
    <3> QED BY <2>8, <3>2, NoElements
  <2>10. s \o b \in Seq(TaskType) /\ c \o b \in Seq(TaskType) /\ <<h>> \in Seq(TaskType)
    <3>1. s \in Seq(TaskType)
      BY <2>1, <2>2
    <3> QED BY <2>3, <2>8, <3>1, ConcatProperties
  <2>11. Order(q) = s \o b /\ Order(q2) = c \o b
    BY <2>8, <2>9, <2>10, ConcatEmptySeq
  <2>12. (<<h>> \o c) \o b = <<h>> \o (c \o b)
    BY <2>3, <2>8, <2>10, ConcatAssociative
  <2>13. Line(m) = <<h>> \o (c \o b)
    BY <2>3, <2>4, <2>5, <2>11 DEF Line
  <2> QED BY <1>0, <2>3, <2>11, <2>12, <2>13
<1> QED BY <1>2, <1>3

\* search_schedtsk drops the head of the line.
LEMMA LineLeaves ==
  ASSUME NEW r, NEW pri, NEW R \in SUBSET TaskType, Consistent(r, pri, R), r.schedtsk # TSKID_NULL
  PROVE  Line(SearchSchedtsk(r)) = Tail(Line(r))
<1>1. r \in Scheduler /\ MapExact(r)
  BY DEF Consistent, Sound
<1>2. Line(SearchSchedtsk(r)) = Order(r.queue)
  BY <1>1, SearchKeepsOrder
<1>3. LineOf(r, R)
  BY LineFacts
<1> QED BY <1>2, <1>3 DEF LineOf

SeqOf(S, x, y, z) == x \in Seq(S) /\ y \in Seq(S) /\ z \in Seq(S)

\* Three sequences joined.
LEMMA Reassociate ==
  ASSUME NEW S, NEW x, NEW y, NEW z, SeqOf(S, x, y, z)
  PROVE  (x \o y) \o z = x \o (y \o z)
<1>1. x \in Seq(S) /\ y \in Seq(S) /\ z \in Seq(S)
  BY DEF SeqOf
<1> QED BY <1>1, ConcatAssociative

\* Four sequences joined.
LEMMA Regroup ==
  ASSUME NEW S, NEW v, NEW a, NEW s, NEW b, SeqOf(S, v, a, s), SeqOf(S, a, s, b)
  PROVE  v \o (a \o (s \o b)) = ((v \o a) \o s) \o b
<1>1. PICK x, y : x = s \o b /\ y = v \o a
  OBVIOUS
<1>2. SeqOf(S, v, a, x) /\ SeqOf(S, y, s, b)
  <2>1. s \in Seq(S) /\ v \in Seq(S) /\ a \in Seq(S) /\ b \in Seq(S)
    BY DEF SeqOf
  <2>2. x \in Seq(S)
    BY <1>1, <2>1, ConcatProperties
  <2>3. y \in Seq(S)
    BY <1>1, <2>1, ConcatProperties
  <2> QED BY <2>1, <2>2, <2>3 DEF SeqOf
<1>3. (v \o a) \o x = v \o (a \o x)
  BY <1>2, Reassociate
<1>4. (y \o s) \o b = y \o (s \o b)
  BY <1>2, Reassociate
<1> QED BY <1>1, <1>3, <1>4

\* The priorities p are those of pri for the tasks of R.
Agree(p, pri, R) == \A x \in R : p[x] = pri[x]

\* make_runnable puts the new task behind its equals.
LEMMA LineArrives ==
  ASSUME NEW r, NEW pri \in [TaskType -> Nat], NEW R \in SUBSET TaskType, Consistent(r, pri, R),
         NEW t \in TaskType, t \notin R, pri[t] \in TaskPri,
         NEW p, Agree(p, pri, R \cup {t})
  PROVE  Line(MakeRunnable(r, pri, t)) = Abstract!BehindEquals(Line(r), p, t)
<1> SUFFICES ASSUME \A x \in R \cup {t} : p[x] = pri[x]
             PROVE  Line(MakeRunnable(r, pri, t)) = Abstract!BehindEquals(Line(r), p, t)
  BY DEF Agree
<1>0. PICK m, u, o, q, p0 :
        m = MakeRunnable(r, pri, t) /\ u = r.schedtsk /\ o = Order(r.queue) /\ q = r.queue
        /\ p0 = pri[t]
  OBVIOUS
<1>1. LineOf(r, R)
  BY LineFacts
<1>2. /\ r \in Scheduler /\ q \in Families /\ o \in Seq(TaskType)
      /\ u \in TaskType \cup {TSKID_NULL} /\ p0 \in TaskPri /\ TaskPri \in SUBSET Nat
      /\ Elements(o) \subseteq R \ {u} /\ t # TSKID_NULL
      /\ u # TSKID_NULL => u \in R /\ pri[u] \in Nat /\ pri[u] \in TaskPri \cup Nat
      /\ QueuesHold(q, pri, R \ {u}) /\ MapExact(r) /\ BestChosen(r, pri)
      /\ r.nextpri \in TaskPri
  <2>1. /\ r \in Scheduler /\ q \in Families /\ o \in Seq(TaskType)
        /\ QueuesHold(q, pri, R \ {u}) /\ MapExact(r) /\ BestChosen(r, pri)
        /\ Elements(o) \subseteq R \ {u} /\ (u # TSKID_NULL => u \in R)
    BY <1>0, <1>1 DEF Consistent, Sound, LineOf
  <2>2. u \in TaskType \cup {TSKID_NULL} /\ p0 \in TaskPri /\ TaskPri \in SUBSET Nat
        /\ t # TSKID_NULL /\ r.nextpri \in TaskPri
    BY <1>0, <2>1, Tables DEF Scheduler
  <2> QED BY <2>1, <2>2
<1>3. CASE u = TSKID_NULL
  <2>1. m = [r EXCEPT !.schedtsk = t]
    BY <1>0, <1>3 DEF MakeRunnable
  <2>2. m.schedtsk = t /\ m.queue = q
    BY <1>0, <1>2, <2>1 DEF Scheduler
  <2>3. Line(r) = << >> /\ o = << >>
    BY <1>0, <1>1, <1>3 DEF LineOf
  <2>4. Line(m) = <<t>> \o << >>
    BY <1>0, <1>2, <2>2, <2>3 DEF Line
  <2>5. << >> \in Seq(TaskType) /\ Elements(<< >>) = {}
    BY EmptySeq DEF Elements
  <2>6. Abstract!BehindEquals(<< >> \o << >>, p, t) = << >> \o (<<t>> \o << >>)
    <3>1. PICK e : e = << >>
      OBVIOUS
    <3>2. LastEquals(e, e, p, t)
      BY <2>5, <3>1 DEF LastEquals
    <3>3. Abstract!BehindEquals(e \o e, p, t) = e \o (<<t>> \o e)
      BY <3>2, StandsBehind
    <3> QED BY <3>1, <3>3
  <2>7. << >> \o << >> = << >> /\ <<t>> \o << >> = <<t>> /\ << >> \o <<t>> = <<t>>
    BY <2>5, ConcatEmptySeq
  <2> QED BY <1>0, <2>3, <2>4, <2>6, <2>7
<1>4. CASE u # TSKID_NULL /\ p0 <= pri[u]
  <2>1. PICK s, s2 : s = q[p0] /\ s2 = Append(s, t)
    OBVIOUS
  <2>2. s \in Seq(TaskType) /\ s2 \in Seq(TaskType) /\ s2 = s \o <<t>> /\ <<t>> \in Seq(TaskType)
    <3>1. s \in Seq(TaskType)
      BY <1>2, <2>1 DEF Families
    <3> QED BY <2>1, <3>1
  <2>3. PICK q2 : q2 = m.queue
    OBVIOUS
  <2>4. m.schedtsk = u /\ q2 = [q EXCEPT ![p0] = s2]
    BY <1>0, <1>2, <1>4, <2>1, <2>3 DEF MakeRunnable, InsertLast, Scheduler
  <2>5. q2 \in Families /\ q2[p0] = s2 /\ \A x \in TaskPri : x # p0 => q2[x] = q[x]
    BY <1>2, <2>2, <2>4 DEF Families
  <2>6. PICK a, b : Splits(Order(q), q, a, q[p0], b, p0) /\ Splits(Order(q2), q, a, q2[p0], b, p0)
    BY <1>2, <2>5, OrderSplits
  <2>7. Parted(q, pri, R \ {u}, a, s, b, p0)
    BY <1>2, <2>1, <2>6, SplitsParted
  <2>8. /\ a \in Seq(TaskType) /\ b \in Seq(TaskType) /\ o = a \o (s \o b)
        /\ Order(q2) = a \o (s2 \o b)
        /\ \A x \in Elements(a) : x \in R /\ pri[x] > p0
        /\ \A x \in Elements(s) : x \in R /\ pri[x] = p0
        /\ \A x \in Elements(b) : x \in R /\ pri[x] < p0
    BY <1>0, <2>5, <2>6, <2>7 DEF Parted, Splits
  \* What comes before the new task.
  <2>9. PICK d : d = (<<u>> \o a) \o s
    OBVIOUS
  <2>10. /\ d \in Seq(TaskType) /\ <<u>> \in Seq(TaskType) /\ <<u>> \o a \in Seq(TaskType)
         /\ u \in TaskType
    <3>1. u \in TaskType /\ <<u>> \in Seq(TaskType)
      BY <1>2, <1>4
    <3>2. <<u>> \o a \in Seq(TaskType)
      BY <2>8, <3>1, ConcatProperties
    <3> QED BY <2>2, <2>9, <3>1, <3>2, ConcatProperties
  <2>11. Elements(d) = Elements(a) \cup {u} \cup Elements(s)
    <3>1. PICK c : c = <<u>> \o a
      OBVIOUS
    <3>2. c \in Seq(TaskType) /\ d = c \o s
      BY <2>9, <2>10, <3>1
    <3>3. Elements(c) = Elements(a) \cup {u}
      BY <2>8, <2>10, <3>1, ConsFacts
    <3>4. Elements(d) = Elements(c) \cup Elements(s)
      BY <2>2, <3>2, JoinElements
    <3> QED BY <3>3, <3>4
  <2>12. Line(r) = d \o b /\ Line(m) = d \o (<<t>> \o b)
    <3>1. PICK v, w : v = <<u>> /\ w = <<t>> \o b
      OBVIOUS
    <3>2. /\ v \in Seq(TaskType) /\ a \in Seq(TaskType) /\ s \in Seq(TaskType)
          /\ b \in Seq(TaskType) /\ w \in Seq(TaskType)
      BY <2>2, <2>8, <2>10, <3>1, ConcatProperties
    <3>7. SeqOf(TaskType, v, a, s) /\ SeqOf(TaskType, a, s, b)
      BY <3>2 DEF SeqOf
    <3>8. SeqOf(TaskType, v, a, s) /\ SeqOf(TaskType, a, s, w)
      BY <3>2 DEF SeqOf
    <3>3. v \o (a \o (s \o b)) = ((v \o a) \o s) \o b
      BY <3>7, Regroup
    <3>4. v \o (a \o (s \o w)) = ((v \o a) \o s) \o w
      BY <3>8, Regroup
    <3>5. s2 \o b = s \o w
      <4>1. (s \o <<t>>) \o b = s \o (<<t>> \o b)
        BY <2>2, <2>8, ConcatAssociative
      <4> QED BY <2>2, <3>1, <4>1
    <3>6. Line(r) = v \o (a \o (s \o b)) /\ Line(m) = v \o (a \o (s \o w))
      BY <1>0, <1>4, <2>3, <2>4, <2>8, <3>1, <3>5 DEF Line
    <3> QED BY <2>9, <3>1, <3>3, <3>4, <3>6
  <2>13. \A x \in Elements(d) : p[x] >= p[t]
    <3>1. p[t] = p0 /\ p[u] = pri[u] /\ pri[u] \in Nat /\ p0 \in Nat
      BY <1>0, <1>2, <1>4
    <3>2. \A x \in Elements(a) : p[x] = pri[x] /\ pri[x] \in Nat /\ pri[x] > p0
      BY <2>8
    <3>3. \A x \in Elements(s) : p[x] = pri[x] /\ pri[x] = p0
      BY <2>8
    <3> QED BY <1>4, <2>11, <3>1, <3>2, <3>3
  <2>14. \A x \in Elements(b) : ~ (p[x] >= p[t])
    <3>1. p[t] = p0 /\ p0 \in Nat
      BY <1>0, <1>2
    <3>2. \A x \in Elements(b) : p[x] = pri[x] /\ pri[x] \in Nat /\ pri[x] < p0
      BY <2>8
    <3> QED BY <3>1, <3>2
  <2>15. Abstract!BehindEquals(d \o b, p, t) = d \o (<<t>> \o b)
    <3>1. LastEquals(d, b, p, t)
      BY <2>8, <2>10, <2>13, <2>14 DEF LastEquals
    <3> QED BY <3>1, StandsBehind
  <2> QED BY <1>0, <2>12, <2>15
<1>5. CASE u # TSKID_NULL /\ ~ (p0 <= pri[u])
  <2>1. PICK p1, l : p1 = pri[u] /\ l = Line(r)
    OBVIOUS
  <2>2. p1 \in Nat /\ p1 < p0 /\ p0 \in Nat /\ p1 \in TaskPri /\ u \in TaskType
    <3>1. p1 \in Nat /\ p0 \in Nat /\ p1 < p0 /\ p1 <= p0 /\ u \in TaskType
      BY <1>2, <1>5, <2>1
    <3> QED BY <1>2, <3>1, TaskTable, SchedulerFields
  <2>3. PICK s, s2 : s = q[p1] /\ s2 = <<u>> \o s
    OBVIOUS
  <2>4. s \in Seq(TaskType) /\ s2 \in Seq(TaskType) /\ <<u>> \in Seq(TaskType)
    <3>1. s \in Seq(TaskType) /\ <<u>> \in Seq(TaskType)
      BY <1>2, <2>2, <2>3 DEF Families
    <3> QED BY <2>3, <3>1, ConcatProperties
  <2>5. PICK q2 : q2 = m.queue
    OBVIOUS
  <2>6. m.schedtsk = t /\ q2 = [q EXCEPT ![p1] = s2]
    BY <1>0, <1>2, <1>5, <2>1, <2>3, <2>5 DEF MakeRunnable, InsertFirst, Scheduler
  <2>7. q2 \in Families /\ q2[p1] = s2 /\ \A x \in TaskPri : x # p1 => q2[x] = q[x]
    BY <1>2, <2>2, <2>4, <2>6 DEF Families
  <2>8. PICK a, b : Splits(Order(q), q, a, q[p1], b, p1) /\ Splits(Order(q2), q, a, q2[p1], b, p1)
    BY <1>2, <2>2, <2>7, OrderSplits
  <2>9. Parted(q, pri, R \ {u}, a, s, b, p1)
    BY <1>2, <2>2, <2>3, <2>8, SplitsParted
  <2>10. /\ a \in Seq(TaskType) /\ b \in Seq(TaskType) /\ o = a \o (s \o b)
         /\ Order(q2) = a \o (s2 \o b)
         /\ \A x \in Elements(a) : x \in R \ {u} /\ pri[x] > p1
    BY <1>0, <2>7, <2>8, <2>9 DEF Parted, Splits
  \* Nobody who is ready is better than the old schedtsk.
  <2>11. \A x \in R \ {u} : pri[x] <= p1
    <3>1. \A x \in R \ {u} : pri[x] \in r.primap /\ pri[x] <= r.nextpri
      BY <1>0, <1>2, NextpriBounds
    <3>2. r.primap # {} => p1 >= r.nextpri
      BY <1>0, <1>2, <1>5, <2>1 DEF BestChosen
    <3>3. \A x \in R \ {u} : r.primap # {} /\ pri[x] \in Nat
      BY <3>1
    <3>4. r.nextpri \in Nat
      BY <1>2
    <3> QED BY <2>2, <3>1, <3>2, <3>3, <3>4
  <2>12. a = << >>
    <3>1. \A x \in Elements(a) : pri[x] \in Nat /\ pri[x] > p1 /\ pri[x] <= p1
      BY <2>10, <2>11
    <3>2. Elements(a) = {}
      BY <2>2, <3>1
    <3> QED BY <2>10, <3>2, NoElements
  <2>13. s \o b \in Seq(TaskType) /\ s2 \o b \in Seq(TaskType)
    BY <2>4, <2>10, ConcatProperties
  <2>14. o = s \o b /\ Order(q2) = s2 \o b
    BY <2>10, <2>12, <2>13, ConcatEmptySeq
  <2>15. (<<u>> \o s) \o b = <<u>> \o (s \o b)
    <3>1. <<u>> \in Seq(TaskType) /\ s \in Seq(TaskType) /\ b \in Seq(TaskType)
      BY <2>4, <2>10
    <3> QED BY <3>1, ConcatAssociative
  <2>16. l = <<u>> \o o /\ l \in Seq(TaskType) /\ Elements(l) = Elements(o) \cup {u}
    <3>1. l = <<u>> \o o
      BY <1>0, <1>5, <2>1 DEF Line
    <3> QED BY <1>2, <2>2, <3>1, ConsFacts
  <2>17. Order(q2) = l
    BY <2>3, <2>14, <2>15, <2>16
  <2>18. Line(m) = <<t>> \o l
    BY <1>2, <2>5, <2>6, <2>17 DEF Line
  <2>19. \A x \in Elements(l) : ~ (p[x] >= p[t])
    <3>1. p[t] = p0 /\ p[u] = p1
      BY <1>0, <1>2, <1>5, <2>1
    <3>2. \A x \in Elements(o) : p[x] = pri[x] /\ pri[x] \in Nat /\ pri[x] <= p1
      BY <1>2, <2>11
    <3> QED BY <2>2, <2>16, <3>1, <3>2
  <2>20. << >> \in Seq(TaskType) /\ Elements(<< >>) = {}
    BY EmptySeq DEF Elements
  <2>21. Abstract!BehindEquals(<< >> \o l, p, t) = << >> \o (<<t>> \o l)
    <3>1. PICK e : e = << >>
      OBVIOUS
    <3>2. LastEquals(e, l, p, t)
      BY <2>16, <2>19, <2>20, <3>1 DEF LastEquals
    <3>3. Abstract!BehindEquals(e \o l, p, t) = e \o (<<t>> \o l)
      BY <3>2, StandsBehind
    <3> QED BY <3>1, <3>3
  <2>22. << >> \o l = l /\ << >> \o (<<t>> \o l) = <<t>> \o l
    <3>1. <<t>> \o l \in Seq(TaskType)
      BY <2>16, ConsFacts
    <3> QED BY <2>16, <3>1, ConcatEmptySeq
  <2> QED BY <1>0, <2>1, <2>18, <2>21, <2>22
<1> QED BY <1>3, <1>4, <1>5

\* preempt puts the scheduled task before its equals, and so do Schedule and
\* ReleaseResource when they find no better task.
LEMMA LineYields ==
  ASSUME NEW r, NEW pri \in [TaskType -> Nat], NEW R \in SUBSET TaskType,
         Sound(r, pri, R \ {r.schedtsk}), NEW u \in R, u = r.schedtsk, pri[u] < r.nextpri,
         NEW p, Agree(p, pri, R)
  PROVE  Line(Preempt(r, pri)) = Abstract!BeforeEquals(Order(r.queue), p, u)
<1> SUFFICES ASSUME \A x \in R : p[x] = pri[x]
             PROVE  Line(Preempt(r, pri)) = Abstract!BeforeEquals(Order(r.queue), p, u)
  BY DEF Agree
<1>0. PICK f, q, p0, X, n : f = InsertFirst(r, pri[u], u) /\ q = r.queue /\ p0 = pri[u]
                            /\ X = R \ {u} /\ n = r.nextpri
  OBVIOUS
<1>1. /\ r \in Scheduler /\ QueuesHold(q, pri, X) /\ MapExact(r) /\ X \in SUBSET TaskType
      /\ Sound(r, pri, X) /\ u \in TaskType /\ u \notin X /\ p0 \in Nat /\ p0 < n
  BY <1>0 DEF Sound
<1>2. q \in Families /\ n \in TaskPri /\ TaskPri \in SUBSET Nat /\ p0 \in TaskPri
  <2>1. q \in Families /\ n \in TaskPri /\ TaskPri \in SUBSET Nat
    BY <1>0, <1>1, TaskTable, SchedulerFields DEF Families
  <2>2. p0 <= n
    BY <1>1, <2>1
  <2> QED BY <1>1, <2>1, <2>2, TaskTable, SchedulerFields
<1>3. PICK s, s2, q2 : s = q[p0] /\ s2 = <<u>> \o s /\ q2 = f.queue
  OBVIOUS
<1>4. s \in Seq(TaskType) /\ s2 \in Seq(TaskType)
  <2>1. s \in Seq(TaskType)
    BY <1>2, <1>3 DEF Families
  <2> QED BY <1>1, <1>3, <2>1, ConsFacts
<1>5. f.queue = [q EXCEPT ![p0] = s2] /\ f \in Scheduler
  <2>1. f.queue = [q EXCEPT ![p0] = s2]
    BY <1>0, <1>1, <1>3 DEF InsertFirst, Scheduler
  <2>2. pri[u] = p0 /\ f = InsertFirst(r, p0, u)
    BY <1>0
  <2>3. Inserted(f, r, pri, X, u, p0)
    BY <1>1, <1>2, <2>2, InsertFirstFacts
  <2> QED BY <2>1, <2>3 DEF Inserted
<1>6. MapExact(f)
  <2>1. p0 = pri[u] /\ p0 < r.nextpri /\ f = InsertFirst(r, p0, u)
    BY <1>0, <1>1
  <2> QED BY <1>1, <1>2, <2>1, BackInQueue
<1>7. Line(Preempt(r, pri)) = Order(q2)
  <2>1. Preempt(r, pri) = SearchSchedtsk(f)
    BY <1>0 DEF Preempt
  <2> QED BY <1>3, <1>5, <1>6, <2>1, SearchKeepsOrder
<1>8. q2 \in Families /\ q2[p0] = s2 /\ \A x \in TaskPri : x # p0 => q2[x] = q[x]
  BY <1>2, <1>3, <1>4, <1>5 DEF Families
<1>9. PICK a, b : Splits(Order(q), q, a, q[p0], b, p0) /\ Splits(Order(q2), q, a, q2[p0], b, p0)
  BY <1>2, <1>8, OrderSplits
<1>10. Parted(q, pri, X, a, s, b, p0)
  BY <1>1, <1>2, <1>3, <1>9, SplitsParted
<1>11. /\ a \in Seq(TaskType) /\ b \in Seq(TaskType) /\ Order(q) = a \o (s \o b)
       /\ Order(q2) = a \o (s2 \o b)
       /\ \A x \in Elements(a) : x \in X /\ pri[x] > p0
       /\ \A x \in Elements(s) : x \in X /\ pri[x] = p0
       /\ \A x \in Elements(b) : x \in X /\ pri[x] < p0
  BY <1>8, <1>9, <1>10 DEF Parted, Splits
<1>12. PICK c : c = s \o b
  OBVIOUS
<1>13. c \in Seq(TaskType) /\ Elements(c) = Elements(s) \cup Elements(b)
  BY <1>4, <1>11, <1>12, ConcatProperties, JoinElements
<1>14. s2 \o b = <<u>> \o c
  <2>1. SeqOf(TaskType, <<u>>, s, b)
    BY <1>1, <1>4, <1>11 DEF SeqOf
  <2>2. (<<u>> \o s) \o b = <<u>> \o (s \o b)
    BY <2>1, Reassociate
  <2> QED BY <1>3, <1>12, <2>2
<1>15. \A x \in Elements(a) : p[x] > p[u]
  BY <1>0, <1>11
<1>16. \A x \in Elements(c) : ~ (p[x] > p[u])
  <2>1. p[u] = p0
    BY <1>0
  <2>2. \A x \in Elements(s) : p[x] = p0
    BY <1>0, <1>11
  <2>3. \A x \in Elements(b) : p[x] \in Nat /\ p[x] < p0
    BY <1>0, <1>11
  <2> QED BY <1>1, <1>13, <2>1, <2>2, <2>3
<1>17. Abstract!BeforeEquals(a \o c, p, u) = a \o (<<u>> \o c)
  <2>1. FirstEquals(a, c, p, u)
    BY <1>1, <1>11, <1>13, <1>15, <1>16 DEF FirstEquals
  <2> QED BY <2>1, StandsBefore
<1> QED BY <1>0, <1>7, <1>11, <1>12, <1>14, <1>17

\* Where preempt is not called the scheduled task already stands before its equals.
LEMMA LineStays ==
  ASSUME NEW r, NEW pri \in [TaskType -> Nat], NEW R \in SUBSET TaskType, Consistent(r, pri, R),
         NEW u \in R, u = r.schedtsk, NEW p, Agree(p, pri, R)
  PROVE  Line(r) = Abstract!BeforeEquals(Order(r.queue), p, u)
<1> SUFFICES ASSUME \A x \in R : p[x] = pri[x]
             PROVE  Line(r) = Abstract!BeforeEquals(Order(r.queue), p, u)
  BY DEF Agree
<1>0. PICK o, X : o = Order(r.queue) /\ X = R \ {u}
  OBVIOUS
<1>1. /\ LineOf(r, R) /\ u # TSKID_NULL /\ u \in TaskType
      /\ r \in Scheduler /\ QueuesHold(r.queue, pri, X) /\ MapExact(r) /\ BestChosen(r, pri)
  BY <1>0, LineFacts, Tables DEF Consistent, Sound
<1>2. Line(r) = <<u>> \o o /\ o \in Seq(TaskType) /\ Elements(o) \subseteq X
  BY <1>0, <1>1 DEF LineOf
<1>3. \A x \in X : pri[x] \in r.primap /\ pri[x] <= r.nextpri /\ pri[x] \in Nat
  <2>1. \A x \in X : pri[x] \in r.primap /\ pri[x] <= r.nextpri
    BY <1>1, NextpriBounds
  <2> QED BY <1>0, <2>1
<1>4. \A x \in Elements(o) : ~ (p[x] > p[u])
  <2>1. r.primap # {} => pri[u] >= r.nextpri
    BY <1>1 DEF BestChosen
  <2>2. r.nextpri \in Nat /\ pri[u] \in Nat
    BY <1>1, Tables DEF Scheduler
  <2>3. \A x \in X : pri[x] \in Nat /\ pri[x] <= pri[u]
    BY <1>3, <2>1, <2>2
  <2>4. p[u] = pri[u] /\ \A x \in X : p[x] = pri[x]
    BY <1>0
  <2> QED BY <1>2, <2>2, <2>3, <2>4
<1>5. << >> \in Seq(TaskType) /\ \A x \in Elements(<< >>) : p[x] > p[u]
  BY EmptySeq DEF Elements
<1>6. Abstract!BeforeEquals(<< >> \o o, p, u) = << >> \o (<<u>> \o o)
  <2>1. PICK e : e = << >>
    OBVIOUS
  <2>2. FirstEquals(e, o, p, u)
    BY <1>1, <1>2, <1>4, <1>5, <2>1 DEF FirstEquals
  <2>3. Abstract!BeforeEquals(e \o o, p, u) = e \o (<<u>> \o o)
    BY <2>2, StandsBefore
  <2> QED BY <2>1, <2>3
<1>7. << >> \o o = o /\ << >> \o (<<u>> \o o) = <<u>> \o o
  <2>1. <<u>> \o o \in Seq(TaskType)
    BY <1>1, <1>2, ConsFacts
  <2> QED BY <1>2, <2>1, ConcatEmptySeq
<1> QED BY <1>0, <1>2, <1>6, <1>7

--------------------------------------------------------------------------------
(* Priorities are those of the tables, and a task that gives back a resource does not *)
(* gain by it.                                                                        *)

\* The priority of t and those it will go back to are in the tables, and each one it goes
\* back to is not above the one before.
Nested(t) ==
  LET s == resstk[t] IN
  /\ tcb_curpri[t] \in usedPri
  /\ \A i \in 1 .. Len(s) :
       /\ rescb_prevpri[s[i]] \in usedPri
       /\ rescb_prevpri[s[i]] <= IF i = Len(s) THEN tcb_curpri[t] ELSE rescb_prevpri[s[i + 1]]

NestedPriorities == \A t \in TaskType : Nested(t)

\* pri differs from tcb_curpri for tasks that hold nothing, and by values of the tables.
Resets(pri) ==
  \A t \in TaskType : pri[t] = tcb_curpri[t] \/ (resstk[t] = << >> /\ pri[t] \in usedPri)

\* A step that leaves the resources alone.
LEMMA NestedReset ==
  ASSUME NestedPriorities, UNCHANGED rescb, Resets(tcb_curpri')
  PROVE  NestedPriorities'
<1> SUFFICES ASSUME NEW t \in TaskType PROVE Nested(t)'
  BY DEF NestedPriorities
<1>1. resstk' = resstk /\ rescb_prevpri' = rescb_prevpri
  BY DEF rescb
<1>2. Nested(t) /\ (tcb_curpri'[t] = tcb_curpri[t] \/ (resstk[t] = << >> /\ tcb_curpri'[t] \in usedPri))
  BY DEF NestedPriorities, Resets
<1>3. CASE tcb_curpri'[t] = tcb_curpri[t]
  BY <1>1, <1>2, <1>3 DEF Nested, usedPri
<1>4. CASE resstk[t] = << >> /\ tcb_curpri'[t] \in usedPri
  BY <1>1, <1>4 DEF Nested, usedPri
<1> QED BY <1>2, <1>3, <1>4

\* The dispatcher changes the priority of a task that holds nothing.
LEMMA DispatchResets ==
  ASSUME DispatchInv', NEW r, NEW pri \in [TaskType -> Nat], NEW k, StartDispatch(r, pri, k)
  PROVE  \A t \in TaskType : tcb_curpri'[t] = pri[t]
                             \/ (k[t] \in Fresh /\ tcb_curpri'[t] = tinib_exepri[t])
<1>1. PICK s : s = r.schedtsk
  OBVIOUS
<1>2. /\ runtsk' = s
      /\ tcb_curpri' = IF s # TSKID_NULL /\ k[s] \in Fresh
                       THEN [pri EXCEPT ![s] = tinib_exepri[s]] ELSE pri
  BY <1>1 DEF StartDispatch, Fresh
<1>3. s \in TaskType \cup {TSKID_NULL}
  BY <1>2 DEF DispatchInv, DispatchTypes
<1> QED BY <1>2, <1>3

\* A service that ends in the dispatcher, and one that may.
LEMMA NestedDispatch ==
  ASSUME NestedPriorities, DispatchInv', UNCHANGED rescb,
         NEW r, NEW pri \in [TaskType -> Nat], NEW k, StartDispatch(r, pri, k),
         Resets(pri), \A t \in TaskType : k[t] \in Fresh => resstk[t] = << >>
  PROVE  NestedPriorities'
<1>1. \A t \in TaskType : tcb_curpri'[t] = pri[t]
                          \/ (k[t] \in Fresh /\ tcb_curpri'[t] = tinib_exepri[t])
  BY DispatchResets
<1>2. Resets(tcb_curpri')
  BY <1>1 DEF Resets, usedPri
<1> QED BY <1>2, NestedReset

LEMMA NestedIfBetter ==
  ASSUME KernelInv, NestedPriorities, DispatchInv', UNCHANGED rescb,
         NEW r, NEW pri \in [TaskType -> Nat], NEW k \in [TaskType -> Continuation], NEW x,
         DispatchIfBetter(r, pri, k, x),
         Resets(pri), \A t \in TaskType : k[t] = tcxb_pc[t] \/ resstk[t] = << >>
  PROVE  NestedPriorities'
<1>1. CASE r.schedtsk = x /\ callevel = "TCL_TASK"
  <2> DEFINE k2 == [k EXCEPT ![runtsk] = "dispatcher_r"]
  <2>1. StartDispatch(r, pri, k2)
    BY <1>1 DEF DispatchIfBetter, Dispatch
  <2>2. runtsk \in TaskType
    BY <1>1, AtTask DEF AtTaskLevel, KernelInv
  <2>3. \A t \in TaskType : k2[t] = IF t = runtsk THEN "dispatcher_r" ELSE k[t]
    BY <2>2
  <2> HIDE DEF k2
  <2>4. ASSUME NEW t \in TaskType, k2[t] \in Fresh PROVE resstk[t] = << >>
    <3>1. t # runtsk /\ k[t] \in Fresh
      BY <2>3, <2>4 DEF Fresh
    <3>2. CASE k[t] = tcxb_pc[t]
      <4>1. tcxb_pc[t] \notin {"dispatcher_r", "ret_int_r"}
        BY <3>1, <3>2 DEF Fresh
      <4> QED BY <3>1, <4>1, HoldsNothing DEF KernelInv
    <3> QED BY <3>2
  <2> QED BY <2>1, <2>4, NestedDispatch
<1>2. CASE ~ (r.schedtsk = x /\ callevel = "TCL_TASK")
  BY <1>2, NestedReset DEF DispatchIfBetter
<1> QED BY <1>1, <1>2

\* A task about to take its execution priority holds nothing.
LEMMA FreshHoldsNothing ==
  ASSUME KernelInv, NEW t \in TaskType, t # runtsk, tcxb_pc[t] \in Fresh
  PROVE  resstk[t] = << >>
<1>1. tcxb_pc[t] \notin {"dispatcher_r", "ret_int_r"}
  BY DEF Fresh
<1> QED BY <1>1, HoldsNothing DEF KernelInv

\* What the steps below need of the kernel's invariant.
LEMMA PriTypes ==
  ASSUME KernelInv
  PROVE  /\ tcb_curpri \in [TaskType -> Nat] /\ tcxb_pc \in [TaskType -> Continuation]
         /\ tcb_tstat \in [TaskType -> TaskState] /\ Resets(tcb_curpri)
         /\ \A t \in TaskType : tinib_inipri[t] \in usedPri
BY DEF KernelInv, DispatchInv, DispatchTypes, BlockTypes, Resets, usedPri

\* The services one by one.
LEMMA InitializeNests ==
  ASSUME KernelInv, NestedPriorities, InitializeTask
  PROVE  NestedPriorities'
<1>1. /\ boot \in TaskType /\ tcb_tstat[boot] = "DORMANT" /\ UNCHANGED rescb
  BY Tables DEF InitializeTask, KernelInv, DispatchInv, Booting, Context, TaskType
<1>2. resstk[boot] = << >>
  BY <1>1, HoldsNothing DEF KernelInv
<1>3. tcb_curpri' = tcb_curpri \/ tcb_curpri' = ActivePri({boot})
  BY DEF InitializeTask, tcb
<1>4. Resets(tcb_curpri')
  BY <1>2, <1>3, PriTypes DEF Resets, ActivePri
<1> QED BY <1>1, <1>4, NestedReset

LEMMA IdleNests ==
  ASSUME KernelInv, NestedPriorities, DispatchInv', StartOS \/ LeaveIdle
  PROVE  NestedPriorities'
<1>1. /\ runtsk = TSKID_NULL /\ StartDispatch(rdy, tcb_curpri, tcxb_pc) /\ UNCHANGED rescb
  BY Tables DEF KernelInv, DispatchInv, Booting, StartOS, LeaveIdle
<1>2. \A t \in TaskType : tcxb_pc[t] \in Fresh => resstk[t] = << >>
  BY <1>1, FreshHoldsNothing, Tables
<1>3. tcb_curpri \in [TaskType -> Nat] /\ Resets(tcb_curpri)
  BY PriTypes
<1> QED BY <1>1, <1>2, <1>3, NestedDispatch

LEMMA ActivateNests ==
  ASSUME KernelInv, NestedPriorities, DispatchInv', NEW t \in TaskType, ActivateDormant(t)
  PROVE  NestedPriorities'
<1> DEFINE pri == ActivePri({t})
           k == ActivePc({t})
<1>1. PICK r : /\ DispatchIfBetter(r, pri, k, t) /\ UNCHANGED rescb /\ tcb_tstat[t] = "DORMANT"
  BY DEF ActivateDormant
<1>2. resstk[t] = << >>
  BY <1>1, HoldsNothing DEF KernelInv
<1>3. /\ pri \in [TaskType -> Nat] /\ k \in [TaskType -> Continuation]
      /\ \A x \in TaskType : x # t => k[x] = tcxb_pc[x] /\ pri[x] = tcb_curpri[x]
      /\ pri[t] = tinib_inipri[t]
  BY PriTypes, Tables DEF ActivePri, ActivePc, Continuation
<1> HIDE DEF pri, k
<1>4. Resets(pri)
  BY <1>2, <1>3, PriTypes DEF Resets
<1>5. \A x \in TaskType : k[x] = tcxb_pc[x] \/ resstk[x] = << >>
  BY <1>2, <1>3
<1> QED BY <1>1, <1>3, <1>4, <1>5, NestedIfBetter

LEMMA SetEventNests ==
  ASSUME KernelInv, NestedPriorities, DispatchInv', NEW t \in ExtTask, NEW mask \in Mask,
         SetEvent(t, mask)
  PROVE  NestedPriorities'
<1>1. /\ tcb_curpri \in [TaskType -> Nat] /\ tcxb_pc \in [TaskType -> Continuation]
      /\ Resets(tcb_curpri) /\ UNCHANGED rescb
  BY PriTypes DEF SetEvent
<1>2. CASE tcb_curevt'[t] \cap tcb_waievt[t] # EVTMASK_NONE
  <2>1. PICK r : DispatchIfBetter(r, tcb_curpri, tcxb_pc, t)
    BY <1>2 DEF SetEvent
  <2>2. \A x \in TaskType : tcxb_pc[x] = tcxb_pc[x] \/ resstk[x] = << >>
    OBVIOUS
  <2> QED BY <1>1, <2>1, <2>2, NestedIfBetter
<1>3. CASE tcb_curevt'[t] \cap tcb_waievt[t] = EVTMASK_NONE
  <2>1. tcb_curpri' = tcb_curpri
    BY <1>3 DEF SetEvent
  <2> QED BY <1>1, <2>1, NestedReset
<1> QED BY <1>2, <1>3

LEMMA EndTaskNests ==
  ASSUME KernelInv, NestedPriorities, DispatchInv', AtTaskLevel, HoldsNoResource,
         NEW again \in BOOLEAN, NEW t \in TaskType \cup {TSKID_NULL},
         t # TSKID_NULL => t # runtsk /\ tcb_tstat[t] = "DORMANT",
         EndTask(again, t)
  PROVE  NestedPriorities'
<1> DEFINE new == {x \in TaskType : x = t \/ (again /\ x = runtsk)}
           pri == ActivePri(new)
           k   == ActivePc(new)
<1>1. PICK r : StartDispatch(r, pri, k) /\ UNCHANGED rescb
  BY DEF EndTask
<1>2. runtsk \in TaskType
  BY AtTask DEF KernelInv
<1>3. resstk[runtsk] = << >>
  BY <1>2, HoldsNothing DEF HoldsNoResource, KernelInv
<1>4. \A x \in new : resstk[x] = << >>
  <2> SUFFICES ASSUME NEW x \in new, x # runtsk PROVE resstk[x] = << >>
    BY <1>3
  <2>1. x \in TaskType /\ tcb_tstat[x] = "DORMANT"
    BY Tables
  <2> QED BY <2>1, HoldsNothing DEF KernelInv
<1>5. /\ pri \in [TaskType -> Nat]
      /\ \A x \in TaskType : x \in new \/ (k[x] = tcxb_pc[x] /\ pri[x] = tcb_curpri[x])
      /\ \A x \in new : pri[x] = tinib_inipri[x]
  BY PriTypes, Tables DEF ActivePri, ActivePc
<1> HIDE DEF pri, k, new
<1>6. Resets(pri)
  BY <1>4, <1>5, PriTypes DEF Resets
<1>7. \A x \in TaskType : k[x] \in Fresh => resstk[x] = << >>
  BY <1>3, <1>4, <1>5, FreshHoldsNothing
<1> QED BY <1>1, <1>5, <1>6, <1>7, NestedDispatch

LEMMA YieldNests ==
  ASSUME KernelInv, NestedPriorities, DispatchInv', NEW mask, Schedule \/ WaitEvent(mask)
  PROVE  NestedPriorities'
<1> DEFINE pri == [tcb_curpri EXCEPT ![runtsk] = tinib_inipri[runtsk]]
           k   == [tcxb_pc EXCEPT ![runtsk] = "dispatcher_r_exepri"]
<1>1. PICK r : StartDispatch(r, pri, k) /\ UNCHANGED rescb /\ HoldsNoResource /\ AtTaskLevel
  BY DEF Schedule, WaitEvent, Dispatch
<1>2. runtsk \in TaskType
  BY <1>1, AtTask DEF KernelInv
<1>3. resstk[runtsk] = << >>
  BY <1>1, <1>2, HoldsNothing DEF HoldsNoResource, KernelInv
<1>4. /\ pri \in [TaskType -> Nat] /\ pri[runtsk] = tinib_inipri[runtsk]
      /\ \A x \in TaskType : x # runtsk => pri[x] = tcb_curpri[x] /\ k[x] = tcxb_pc[x]
  BY <1>2, PriTypes, Tables
<1> HIDE DEF pri, k
<1>5. Resets(pri)
  BY <1>3, <1>4, PriTypes DEF Resets
<1>6. \A x \in TaskType : k[x] \in Fresh => resstk[x] = << >>
  BY <1>3, <1>4, FreshHoldsNothing
<1> QED BY <1>1, <1>4, <1>5, <1>6, NestedDispatch

LEMMA ReturnNests ==
  ASSUME KernelInv, NestedPriorities, DispatchInv', InterruptReturn
  PROVE  NestedPriorities'
<1> DEFINE k == [tcxb_pc EXCEPT ![runtsk] = "ret_int_r"]
<1>1. /\ tcb_curpri \in [TaskType -> Nat] /\ tcxb_pc \in [TaskType -> Continuation]
      /\ Resets(tcb_curpri) /\ UNCHANGED rescb
  BY PriTypes DEF InterruptReturn
<1>2. StartDispatch(rdy, tcb_curpri, k) \/ tcb_curpri' = tcb_curpri
  BY DEF InterruptReturn, Dispatch
<1>3. ASSUME NEW x \in TaskType, k[x] \in Fresh PROVE resstk[x] = << >>
  <2>1. x # runtsk /\ tcxb_pc[x] \in Fresh
    BY <1>1, <1>3 DEF Fresh
  <2> QED BY <2>1, FreshHoldsNothing
<1> HIDE DEF k
<1> QED BY <1>1, <1>2, <1>3, NestedDispatch, NestedReset

LEMMA GetNests ==
  ASSUME KernelInv, NestedPriorities, NEW res \in ResourceType, GetResource(res)
  PROVE  NestedPriorities'
<1>0. PICK u, s, n, c : u = runtsk /\ s = resstk[u] /\ n = Len(s) /\ c = tcb_curpri[u]
  OBVIOUS
<1>1. /\ u \in TaskType /\ c \in Nat /\ resinib_ceilpri[res] \in Nat
      /\ tcb_curpri \in [TaskType -> Nat] /\ resstk \in [TaskType -> Seq(ResourceType)]
      /\ rescb_prevpri \in [ResourceType -> CurPri \cup {TPRI_NULL}]
  <2>1. u \in TaskType
    BY <1>0, AtTask DEF GetResource, KernelInv
  <2> QED BY <1>0, <2>1, PriTypes, Tables DEF KernelInv, ResourceInv, ResourceTypes
<1>2. /\ rescb_prevpri[res] = TPRI_NULL
      /\ rescb_prevpri' = [rescb_prevpri EXCEPT ![res] = c]
      /\ tcb_curpri' = [tcb_curpri EXCEPT ![u] = RaisedPri(c, res)]
      /\ resstk' = [resstk EXCEPT ![u] = Append(s, res)]
  BY <1>0, <1>1 DEF GetResource
<1>3. /\ rescb_prevpri'[res] = c /\ \A x \in ResourceType : x # res => rescb_prevpri'[x] = rescb_prevpri[x]
      /\ tcb_curpri'[u] = RaisedPri(c, res) /\ resstk'[u] = Append(s, res)
      /\ \A t \in TaskType : t # u => tcb_curpri'[t] = tcb_curpri[t] /\ resstk'[t] = resstk[t]
  BY <1>1, <1>2
\* Nobody holds res yet.
<1>4. ASSUME NEW t \in TaskType, NEW i \in 1 .. Len(resstk[t])
      PROVE  rescb_prevpri'[resstk[t][i]] = rescb_prevpri[resstk[t][i]]
  <2>1. resstk[t][i] \in ResourceType /\ resstk[t][i] \in Elements(resstk[t])
    BY <1>1 DEF Elements
  <2>2. rescb_prevpri[resstk[t][i]] # TPRI_NULL
    BY <2>1 DEF KernelInv, ResourceInv, TakenHeld
  <2> QED BY <1>2, <1>3, <2>1, <2>2
<1>5. ASSUME NEW t \in TaskType, t # u PROVE Nested(t)'
  <2>1. PICK z : z = resstk[t]
    OBVIOUS
  <2>2. Nested(t) /\ z \in Seq(ResourceType) /\ resstk'[t] = z /\ tcb_curpri'[t] = tcb_curpri[t]
    BY <1>1, <1>3, <1>5, <2>1 DEF NestedPriorities
  <2>3. \A i \in 1 .. Len(z) : /\ rescb_prevpri'[z[i]] = rescb_prevpri[z[i]]
                               /\ i # Len(z) => i + 1 \in 1 .. Len(z)
    BY <1>4, <2>1, <2>2
  <2>4. /\ tcb_curpri[t] \in usedPri
        /\ \A i \in 1 .. Len(z) :
             /\ rescb_prevpri[z[i]] \in usedPri
             /\ rescb_prevpri[z[i]] <= IF i = Len(z) THEN tcb_curpri[t] ELSE rescb_prevpri[z[i + 1]]
    BY <2>1, <2>2 DEF Nested
  <2>5. \A i \in 1 .. Len(z) :
          /\ rescb_prevpri'[z[i]] \in usedPri
          /\ rescb_prevpri'[z[i]] <= IF i = Len(z) THEN tcb_curpri'[t] ELSE rescb_prevpri'[z[i + 1]]
    BY <2>2, <2>3, <2>4
  <2> QED BY <2>2, <2>4, <2>5 DEF Nested, usedPri
<1>6. Nested(u)'
  <2>1. PICK z, p : z = Append(s, res) /\ p = RaisedPri(c, res)
    OBVIOUS
  <2>2. /\ s \in Seq(ResourceType) /\ n \in Nat /\ Len(z) = n + 1 /\ z[n + 1] = res
        /\ \A i \in 1 .. n : z[i] = s[i]
    <3>1. s \in Seq(ResourceType)
      BY <1>0, <1>1
    <3> QED BY <1>0, <2>1, <3>1
  <2>3. /\ c \in usedPri
        /\ \A i \in 1 .. n : /\ rescb_prevpri[s[i]] \in usedPri
                             /\ rescb_prevpri[s[i]] <= IF i = n THEN c ELSE rescb_prevpri[s[i + 1]]
    BY <1>0, <1>1 DEF NestedPriorities, Nested
  <2>4. p \in usedPri /\ c <= p
    BY <1>1, <2>1, <2>3 DEF RaisedPri, usedPri
  <2>5. \A i \in 1 .. n : rescb_prevpri'[z[i]] = rescb_prevpri[s[i]]
    BY <1>0, <1>1, <1>4, <2>2
  <2>6. rescb_prevpri'[z[n + 1]] = c
    BY <1>3, <2>2
  <2>7. ASSUME NEW i \in 1 .. Len(z)
        PROVE  /\ rescb_prevpri'[z[i]] \in usedPri
               /\ rescb_prevpri'[z[i]] <= IF i = Len(z) THEN p ELSE rescb_prevpri'[z[i + 1]]
    <3>1. CASE i = n + 1
      BY <2>2, <2>3, <2>4, <2>6, <3>1
    <3>2. CASE i = n
      BY <2>2, <2>3, <2>5, <2>6, <3>2
    <3>3. CASE i # n + 1 /\ i # n
      <4>1. i \in 1 .. n /\ i + 1 \in 1 .. n /\ i # Len(z)
        BY <2>2, <3>3
      <4> QED BY <2>3, <2>5, <3>3, <4>1
    <3> QED BY <3>1, <3>2, <3>3
  <2>8. resstk'[u] = z /\ tcb_curpri'[u] = p
    BY <1>3, <2>1
  <2> QED BY <2>4, <2>7, <2>8 DEF Nested, usedPri
<1> QED BY <1>5, <1>6 DEF NestedPriorities

LEMMA ReleaseNests ==
  ASSUME KernelInv, NestedPriorities, DispatchInv', NEW res \in ResourceType, ReleaseResource(res)
  PROVE  NestedPriorities'
<1>0. PICK u, s, n : u = runtsk /\ s = resstk[u] /\ n = Len(s)
  OBVIOUS
<1> DEFINE pri == [tcb_curpri EXCEPT ![u] = rescb_prevpri[res]]
           k == [tcxb_pc EXCEPT ![u] = "dispatcher_r"]
<1>1. /\ u \in TaskType
      /\ tcb_curpri \in [TaskType -> Nat] /\ resstk \in [TaskType -> Seq(ResourceType)]
      /\ rescb_prevpri \in [ResourceType -> CurPri \cup {TPRI_NULL}]
      /\ rescb_prevpri \in [ResourceType -> Nat] /\ tcxb_pc \in [TaskType -> Continuation]
  <2>1. u \in TaskType
    BY <1>0, AtTask DEF ReleaseResource, KernelInv
  <2> QED BY <2>1, PriTypes DEF KernelInv, ResourceInv, ResourceTypes, DispatchInv, BlockTypes
<1>2. /\ tcb_lastres[u] = res
      /\ rescb_prevpri' = [rescb_prevpri EXCEPT ![res] = TPRI_NULL]
      /\ resstk' = [resstk EXCEPT ![u] = SubSeq(s, 1, n - 1)]
      /\ StartDispatch(Preempt(rdy, pri), pri, k) \/ tcb_curpri' = pri
  BY <1>0, <1>1 DEF ReleaseResource, ReleaseInOrder, RestoredPri, Dispatch
<1>3. s \in Seq(ResourceType) /\ s # << >> /\ s[n] = res /\ n \in Nat /\ n \in 1 .. n
  <2>1. StackOf(u) /\ s \in Seq(ResourceType)
    BY <1>0, <1>1 DEF KernelInv, ResourceInv
  <2>2. s # << >> /\ s[n] = res
    BY <1>0, <1>2, <2>1, ResourceTables DEF StackOf
  <2> QED BY <1>0, <2>1, <2>2
<1>4. PICK z : z = SubSeq(s, 1, n - 1)
  OBVIOUS
<1>5. z \in Seq(ResourceType) /\ Len(z) = n - 1 /\ \A i \in 1 .. n - 1 : z[i] = s[i]
  BY <1>0, <1>3, <1>4, WithoutLast
<1>6. /\ resstk'[u] = z /\ \A t \in TaskType : t # u => resstk'[t] = resstk[t]
      /\ \A x \in ResourceType : x # res => rescb_prevpri'[x] = rescb_prevpri[x]
      /\ pri \in [TaskType -> Nat] /\ pri[u] = rescb_prevpri[res]
      /\ \A t \in TaskType : t # u => pri[t] = tcb_curpri[t] /\ k[t] = tcxb_pc[t]
      /\ k[u] \notin Fresh
  BY <1>1, <1>2, <1>4 DEF Fresh
<1> HIDE DEF pri, k
\* Nobody else holds res, and it is held once.
<1>7. ASSUME NEW t \in TaskType, NEW i \in 1 .. Len(resstk[t]), ~ (t = u /\ i = n)
      PROVE  rescb_prevpri'[resstk[t][i]] = rescb_prevpri[resstk[t][i]]
  <2>1. resstk[t][i] \in ResourceType
    BY <1>1
  <2>2. n \in 1 .. Len(resstk[u]) /\ resstk[u][n] = res
    BY <1>0, <1>3
  <2>3. resstk[t][i] # res
    BY <1>1, <1>7, <2>2 DEF KernelInv, ResourceInv, HeldOnce
  <2> QED BY <1>6, <2>1, <2>3
<1>8. ASSUME NEW t \in TaskType
      PROVE  tcb_curpri'[t] = pri[t]
             \/ (t # u /\ resstk[t] = << >> /\ tcb_curpri'[t] = tinib_exepri[t])
  <2>1. CASE tcb_curpri' = pri
    BY <2>1
  <2>2. CASE StartDispatch(Preempt(rdy, pri), pri, k)
    <3>1. \A x \in TaskType : tcb_curpri'[x] = pri[x]
                              \/ (k[x] \in Fresh /\ tcb_curpri'[x] = tinib_exepri[x])
      BY <1>6, <2>2, DispatchResets
    <3>2. k[t] \in Fresh => t # u /\ resstk[t] = << >>
      BY <1>0, <1>6, FreshHoldsNothing
    <3> QED BY <3>1, <3>2
  <2> QED BY <1>2, <2>1, <2>2
<1>9. ASSUME NEW t \in TaskType, t # u PROVE Nested(t)'
  <2>1. PICK x : x = resstk[t]
    OBVIOUS
  <2>2. Nested(t) /\ x \in Seq(ResourceType) /\ resstk'[t] = x
    BY <1>1, <1>6, <1>9, <2>1 DEF NestedPriorities
  <2>3. \A i \in 1 .. Len(x) : /\ rescb_prevpri'[x[i]] = rescb_prevpri[x[i]]
                               /\ i # Len(x) => i + 1 \in 1 .. Len(x)
    BY <1>7, <1>9, <2>1, <2>2
  <2>4. /\ tcb_curpri[t] \in usedPri
        /\ \A i \in 1 .. Len(x) :
             /\ rescb_prevpri[x[i]] \in usedPri
             /\ rescb_prevpri[x[i]] <= IF i = Len(x) THEN tcb_curpri[t] ELSE rescb_prevpri[x[i + 1]]
    BY <2>1, <2>2 DEF Nested
  <2>5. tcb_curpri'[t] \in usedPri /\ (x # << >> => tcb_curpri'[t] = tcb_curpri[t])
    BY <1>6, <1>8, <1>9, <2>1, <2>4 DEF usedPri
  <2>6. \A i \in 1 .. Len(x) :
          /\ rescb_prevpri'[x[i]] \in usedPri
          /\ rescb_prevpri'[x[i]] <= IF i = Len(x) THEN tcb_curpri'[t] ELSE rescb_prevpri'[x[i + 1]]
    BY <2>2, <2>3, <2>4, <2>5
  <2> QED BY <2>2, <2>5, <2>6 DEF Nested, usedPri
<1>10. Nested(u)'
  <2>1. PICK p : p = rescb_prevpri[res]
    OBVIOUS
  <2>2. /\ tcb_curpri[u] \in usedPri
        /\ \A i \in 1 .. n : /\ rescb_prevpri[s[i]] \in usedPri
                             /\ i # n => rescb_prevpri[s[i]] <= rescb_prevpri[s[i + 1]]
    BY <1>0, <1>1 DEF NestedPriorities, Nested
  <2>3. p \in usedPri /\ tcb_curpri'[u] = p
    BY <1>1, <1>3, <1>6, <1>8, <2>1, <2>2
  <2>4. \A i \in 1 .. n - 1 : rescb_prevpri'[z[i]] = rescb_prevpri[s[i]]
    <3> SUFFICES ASSUME NEW i \in 1 .. n - 1 PROVE rescb_prevpri'[z[i]] = rescb_prevpri[s[i]]
      OBVIOUS
    <3>1. i \in 1 .. Len(resstk[u]) /\ i # n
      BY <1>0, <1>3
    <3>2. rescb_prevpri'[resstk[u][i]] = rescb_prevpri[resstk[u][i]]
      BY <1>1, <1>7, <3>1
    <3>3. z[i] = s[i] /\ resstk[u][i] = s[i]
      BY <1>0, <1>5
    <3> QED BY <3>2, <3>3
  <2>5. ASSUME NEW i \in 1 .. Len(z)
        PROVE  /\ rescb_prevpri'[z[i]] \in usedPri
               /\ rescb_prevpri'[z[i]] <= IF i = Len(z) THEN p ELSE rescb_prevpri'[z[i + 1]]
    <3>1. i \in 1 .. n - 1 /\ i \in 1 .. n /\ i # n
      BY <1>3, <1>5
    <3>2. rescb_prevpri'[z[i]] = rescb_prevpri[s[i]] /\ rescb_prevpri[s[i]] \in usedPri
          /\ rescb_prevpri[s[i]] <= rescb_prevpri[s[i + 1]]
      BY <2>2, <2>4, <3>1
    <3>3. CASE i = n - 1
      <4>1. i + 1 = n /\ i = Len(z)
        BY <1>3, <1>5, <3>3
      <4> QED BY <1>3, <2>1, <3>2, <4>1
    <3>4. CASE i # n - 1
      <4>1. i + 1 \in 1 .. n - 1 /\ i # Len(z)
        BY <1>3, <1>5, <3>1, <3>4
      <4> QED BY <2>4, <3>2, <4>1
    <3> QED BY <3>3, <3>4
  <2> QED BY <1>6, <2>3, <2>5 DEF Nested, usedPri
<1> QED BY <1>9, <1>10 DEF NestedPriorities

LEMMA NextNests ==
  KernelInv /\ DispatchInv' /\ NestedPriorities /\ [Next]_vars => NestedPriorities'
<1> SUFFICES ASSUME KernelInv, DispatchInv', NestedPriorities, [Next]_vars PROVE NestedPriorities'
  OBVIOUS
<1>0. ASSUME UNCHANGED <<tcb_curpri, rescb>> PROVE NestedPriorities'
  BY <1>0, PriTypes, NestedReset DEF Resets
<1>1. CASE InitializeTask
  BY <1>1, InitializeNests
<1>2. CASE StartOS \/ LeaveIdle
  BY <1>2, IdleNests
<1>3. ASSUME NEW t \in TaskType, ActivateTask(t) PROVE NestedPriorities'
  <2>1. CASE ActivateDormant(t)
    BY <2>1, ActivateNests
  <2>2. CASE ActivateAgain(t)
    BY <1>0, <2>2 DEF ActivateAgain
  <2> QED BY <1>3, <2>1, <2>2 DEF ActivateTask
<1>4. (tcb_actcnt[runtsk] > 0) \in BOOLEAN /\ TSKID_NULL \in TaskType \cup {TSKID_NULL}
  OBVIOUS
<1>5. CASE TerminateTask
  BY <1>4, <1>5, EndTaskNests DEF TerminateTask
<1>6. CASE ChainSelf
  BY <1>4, <1>6, EndTaskNests DEF ChainSelf
<1>7. ASSUME NEW t \in TaskType, ChainOther(t) PROVE NestedPriorities'
  <2>1. PICK x : x = IF tcb_tstat[t] = "DORMANT" THEN t ELSE TSKID_NULL
    OBVIOUS
  <2>2. /\ x \in TaskType \cup {TSKID_NULL}
        /\ x # TSKID_NULL => x # runtsk /\ tcb_tstat[x] = "DORMANT"
    BY <1>7, <2>1 DEF ChainOther
  <2>3. AtTaskLevel /\ HoldsNoResource /\ EndTask(tcb_actcnt[runtsk] > 0, x)
    BY <1>7, <2>1 DEF ChainOther
  <2> QED BY <1>4, <2>2, <2>3, EndTaskNests
<1>8. CASE Schedule
  BY <1>8, YieldNests
<1>9. ASSUME NEW res \in ResourceType, GetResource(res) \/ ReleaseResource(res)
      PROVE  NestedPriorities'
  BY <1>9, GetNests, ReleaseNests
<1>10. ASSUME NEW t \in ExtTask, NEW mask \in Mask, SetEvent(t, mask) PROVE NestedPriorities'
  BY <1>10, SetEventNests
<1>11. ASSUME NEW mask \in Mask, ClearEvent(mask) \/ WaitEvent(mask) PROVE NestedPriorities'
  <2>1. CASE ClearEvent(mask)
    BY <1>0, <2>1 DEF ClearEvent
  <2>2. CASE WaitEvent(mask)
    BY <2>2, YieldNests
  <2> QED BY <1>11, <2>1, <2>2
<1>12. ASSUME NEW i \in IsrType, Interrupt(i) PROVE NestedPriorities'
  BY <1>0, <1>12 DEF Interrupt, tcb
<1>13. CASE InterruptReturn
  BY <1>13, ReturnNests
<1>14. CASE UNCHANGED vars
  BY <1>0, <1>14 DEF vars, tcb
<1> QED BY <1>1, <1>2, <1>3, <1>5, <1>6, <1>7, <1>8, <1>9, <1>10, <1>11, <1>12, <1>13, <1>14
        DEF Next

LEMMA InitNests == Init => NestedPriorities
<1> SUFFICES ASSUME Init, NEW t \in TaskType PROVE Nested(t)
  BY DEF NestedPriorities
<1>1. resstk[t] = << >> /\ tcb_curpri[t] = TPRI_MINTASK
  BY DEF Init
<1> QED BY <1>1 DEF Nested, usedPri

--------------------------------------------------------------------------------
(* The services in terms of the order. *)

\* The priorities of the runnable tasks R.
Shown(pri, R) == [t \in TaskType |-> IF t \in R THEN pri[t] ELSE 0]

\* The refinement mapping in terms of Line and Shown.
LEMMA OrderIs ==
  /\ precedence = Line(rdy) /\ precedencePri = Shown(tcb_curpri, Runnable)
  /\ precedence' = Line(rdy') /\ precedencePri' = Shown(tcb_curpri', Runnable')
BY PrecedenceIsLine DEF precedencePri, Shown

LEMMA ShownSame ==
  ASSUME NEW R, NEW pri, NEW pri2, \A t \in R : pri2[t] = pri[t]
  PROVE  Shown(pri2, R) = Shown(pri, R)
BY DEF Shown

\* A service that leaves the scheduler data r and the priorities pri.
LEMMA SettlesPlainly ==
  ASSUME NEW r, NEW pri, rdy' = r, tcb_curpri' = pri
  PROVE  Abstract!Settle(Line(r), Shown(pri, Runnable'))
BY OrderIs DEF Abstract!Settle

\* A service that ends in the dispatcher.
LEMMA Settles ==
  ASSUME NEW r, NEW pri \in [TaskType -> Nat], NEW k, NEW R \in SUBSET TaskType, R = Runnable',
         Consistent(r, pri, R), StartDispatch(r, pri, k),
         \A t \in R : k[t] \in Fresh => pri[t] = tinib_inipri[t]
  PROVE  Abstract!Settle(Line(r), Shown(pri, R))
<1>0. PICK s, l, p : s = r.schedtsk /\ l = Line(r) /\ p = Shown(pri, R)
  OBVIOUS
<1>1. /\ rdy' = r
      /\ tcb_curpri' = IF s # TSKID_NULL /\ k[s] \in Fresh
                       THEN [pri EXCEPT ![s] = tinib_exepri[s]] ELSE pri
  BY <1>0 DEF StartDispatch, Fresh
<1>2. precedence' = l /\ precedencePri' = Shown(tcb_curpri', R)
  BY <1>0, <1>1, OrderIs
<1>3. CASE s # TSKID_NULL /\ k[s] \in Fresh
  <2>1. LineOf(r, R) /\ s \in R
    BY <1>0, <1>3, LineFacts DEF Consistent
  <2>2. l # << >> /\ Head(l) = s /\ s \in TaskType
    BY <1>0, <1>3, <2>1 DEF LineOf
  <2>3. PICK q : q = tinib_exepri[s]
    OBVIOUS
  <2>4. q \in usedPri /\ q >= p[s]
    <3>1. p[s] = tinib_inipri[s]
      BY <1>0, <1>3, <2>1, <2>2 DEF Shown
    <3>2. tinib_inipri[s] <= q /\ q \in Nat /\ tinib_inipri[s] \in Nat
      BY <2>2, <2>3, Tables
    <3> QED BY <2>2, <2>3, <3>1, <3>2 DEF usedPri
  <2>5. Shown(tcb_curpri', R) = Abstract!Set(p, s, q)
    BY <1>0, <1>1, <1>3, <2>1, <2>2, <2>3 DEF Shown, Abstract!Set
  <2>6. \E x \in usedPri : x >= p[Head(l)] /\ precedencePri' = Abstract!Set(p, Head(l), x)
    BY <1>2, <2>2, <2>4, <2>5
  <2> QED BY <1>0, <1>2, <2>2, <2>6 DEF Abstract!Settle
<1>4. CASE ~ (s # TSKID_NULL /\ k[s] \in Fresh)
  BY <1>0, <1>1, <1>2, <1>4 DEF Abstract!Settle
<1> QED BY <1>3, <1>4

\* A service that may have found a better task.
LEMMA IfBetterSettles ==
  ASSUME KernelInv, NEW r, NEW pri \in [TaskType -> Nat], NEW k \in [TaskType -> Continuation],
         NEW x, NEW R \in SUBSET TaskType, R = Runnable',
         Consistent(r, pri, R), DispatchIfBetter(r, pri, k, x),
         \A t \in R : t # runtsk /\ k[t] \in Fresh => pri[t] = tinib_inipri[t]
  PROVE  Abstract!Settle(Line(r), Shown(pri, R))
<1>1. CASE r.schedtsk = x /\ callevel = "TCL_TASK"
  <2> DEFINE k2 == [k EXCEPT ![runtsk] = "dispatcher_r"]
  <2>1. StartDispatch(r, pri, k2)
    BY <1>1 DEF DispatchIfBetter, Dispatch
  <2>2. runtsk \in TaskType
    BY <1>1, AtTask DEF AtTaskLevel, KernelInv
  <2>3. \A t \in TaskType : k2[t] = IF t = runtsk THEN "dispatcher_r" ELSE k[t]
    BY <2>2
  <2> HIDE DEF k2
  <2>4. \A t \in R : k2[t] \in Fresh => pri[t] = tinib_inipri[t]
    BY <2>3 DEF Fresh
  <2> QED BY <2>1, <2>4, Settles
<1>2. CASE ~ (r.schedtsk = x /\ callevel = "TCL_TASK")
  BY <1>2, SettlesPlainly DEF DispatchIfBetter
<1> QED BY <1>1, <1>2

\* make_runnable in terms of the order and the priorities shown.
Joins(r, pri, R, t, p, p1) ==
  /\ p1 = Abstract!Set(p, t, pri[t])
  /\ Line(MakeRunnable(r, pri, t)) = Abstract!BehindEquals(Line(r), p1, t)
  /\ t \in TaskType \ Abstract!InOrder(Line(r))
  /\ Consistent(MakeRunnable(r, pri, t), pri, R \cup {t})

\* A task that becomes runnable joins the line.
LEMMA ArrivesInLine ==
  ASSUME NEW r, NEW pri \in [TaskType -> Nat], NEW R \in SUBSET TaskType, Consistent(r, pri, R),
         NEW t \in TaskType, t \notin R, pri[t] \in TaskPri,
         NEW p, NEW p1, p = Shown(pri, R), p1 = Shown(pri, R \cup {t})
  PROVE  Joins(r, pri, R, t, p, p1)
<1>1. p1 = Abstract!Set(p, t, pri[t])
  BY DEF Shown, Abstract!Set
<1>2. Agree(p1, pri, R \cup {t})
  BY DEF Shown, Agree
<1>3. Line(MakeRunnable(r, pri, t)) = Abstract!BehindEquals(Line(r), p1, t)
  BY <1>2, LineArrives
<1>4. LineOf(r, R)
  BY LineFacts
<1>5. t \notin Elements(Line(r))
  BY <1>4 DEF LineOf
<1>6. t \notin Abstract!InOrder(Line(r))
  BY <1>5 DEF Elements, Abstract!InOrder
<1>7. Consistent(MakeRunnable(r, pri, t), pri, R \cup {t})
  BY TaskArrives
<1> QED BY <1>1, <1>3, <1>6, <1>7 DEF Joins

\* The steps of PriorityOrder, with the order and the priorities of the kernel.
LEMMA IsSettle ==
  ASSUME NEW p, p = Shown(tcb_curpri, Runnable), Abstract!Settle(Line(rdy), p)
  PROVE  Abstract!Next
BY OrderIs DEF Abstract!Next

LEMMA IsArrive ==
  ASSUME NEW t \in TaskType \ Abstract!InOrder(Line(rdy)), NEW q \in usedPri, NEW p, NEW o,
         p = Abstract!Set(Shown(tcb_curpri, Runnable), t, q),
         o = Abstract!BehindEquals(Line(rdy), p, t), Abstract!Settle(o, p)
  PROVE  Abstract!Next
BY OrderIs DEF Abstract!Next, Abstract!Arrive

LEMMA IsYield ==
  ASSUME NEW u, NEW p0, NEW l, NEW q \in usedPri, NEW p, NEW o,
         l = Line(rdy), p0 = Shown(tcb_curpri, Runnable),
         l # << >>, u = Head(l), q <= p0[u], p = Abstract!Set(p0, u, q),
         o = Abstract!BeforeEquals(Tail(l), p, u), Abstract!Settle(o, p)
  PROVE  Abstract!Next
BY OrderIs DEF Abstract!Next, Abstract!Yield

\* The order and the priorities once the head u has left them.
Left(l, u, o, p0) ==
  /\ l = Line(rdy) /\ l # << >> /\ u = Head(l) /\ o = Tail(l)
  /\ p0 = Abstract!Set(Shown(tcb_curpri, Runnable), u, 0)

LEMMA IsLeave ==
  ASSUME NEW u, NEW l, NEW o, NEW p0, Left(l, u, o, p0), Abstract!Settle(o, p0)
  PROVE  Abstract!Next
BY OrderIs DEF Left, Abstract!Next, Abstract!Leave

LEMMA IsLeaveArrive ==
  ASSUME NEW u, NEW l, NEW o, NEW p0, Left(l, u, o, p0),
         NEW t \in TaskType \ Abstract!InOrder(o), NEW q \in usedPri, NEW p1, NEW o1,
         p1 = Abstract!Set(p0, t, q), o1 = Abstract!BehindEquals(o, p1, t),
         Abstract!Settle(o1, p1)
  PROVE  Abstract!Next
BY OrderIs DEF Left, Abstract!Next, Abstract!Leave

LEMMA IsLeaveArriveArrive ==
  ASSUME NEW u, NEW l, NEW o, NEW p0, Left(l, u, o, p0),
         u \in TaskType \ Abstract!InOrder(o), NEW q \in usedPri, NEW p1, NEW o1,
         p1 = Abstract!Set(p0, u, q), o1 = Abstract!BehindEquals(o, p1, u),
         NEW t \in TaskType \ Abstract!InOrder(o1), NEW s \in usedPri, NEW p2, NEW o2,
         p2 = Abstract!Set(p1, t, s), o2 = Abstract!BehindEquals(o1, p2, t),
         Abstract!Settle(o2, p2)
  PROVE  Abstract!Next
BY OrderIs DEF Left, Abstract!Next, Abstract!Leave

\* A service that leaves the order alone.
LEMMA Stutters ==
  ASSUME UNCHANGED <<rdy, tcb_curpri, tcb_tstat>>
  PROVE  UNCHANGED <<precedence, precedencePri>>
BY OrderIs DEF Runnable

\* The set of the runnable tasks, before and after.
LEMMA Runners ==
  ASSUME KernelInv
  PROVE  /\ Consistent(rdy, tcb_curpri, Runnable) /\ Runnable \in SUBSET TaskType
         /\ LineOf(rdy, Runnable)
<1>1. Consistent(rdy, tcb_curpri, Runnable) /\ Runnable \in SUBSET TaskType
  BY Pack DEF KernelInv, DispatchInv
<1> QED BY <1>1, LineFacts

\* A service that makes the task t runnable.
Arriving(t, pri) ==
  /\ t \in TaskType /\ t \notin Runnable /\ Runnable' = Runnable \cup {t}
  /\ pri \in [TaskType -> Nat] /\ pri[t] \in TaskPri /\ pri[t] \in usedPri
  /\ \A x \in Runnable : pri[x] = tcb_curpri[x]

\* Making a task runnable is an Arrive once the dispatcher has settled.
LEMMA Arrives ==
  ASSUME KernelInv, NEW t, NEW pri, Arriving(t, pri), NEW r, r = MakeRunnable(rdy, pri, t)
  PROVE  /\ Consistent(r, pri, Runnable') /\ Runnable' \in SUBSET TaskType
         /\ Abstract!Settle(Line(r), Shown(pri, Runnable')) => Abstract!Next
<1>0. PICK R, p, p1 : R = Runnable /\ p = Shown(pri, R) /\ p1 = Shown(pri, R \cup {t})
  OBVIOUS
<1>1. /\ t \in TaskType /\ t \notin R /\ Runnable' = R \cup {t} /\ R \in SUBSET TaskType
      /\ pri \in [TaskType -> Nat] /\ pri[t] \in TaskPri /\ pri[t] \in usedPri
      /\ \A x \in R : pri[x] = tcb_curpri[x]
  BY <1>0, Runners DEF Arriving
<1>2. Consistent(rdy, pri, R)
  <2>1. Consistent(rdy, tcb_curpri, R)
    BY <1>0, Runners
  <2> QED BY <1>1, <2>1, OtherPriorities
<1>3. Joins(rdy, pri, R, t, p, p1)
  BY <1>0, <1>1, <1>2, ArrivesInLine
<1>4. p = Shown(tcb_curpri, Runnable)
  BY <1>0, <1>1, ShownSame
<1>5. /\ t \in TaskType \ Abstract!InOrder(Line(rdy)) /\ p1 = Abstract!Set(p, t, pri[t])
      /\ Line(r) = Abstract!BehindEquals(Line(rdy), p1, t) /\ Consistent(r, pri, R \cup {t})
  BY <1>3 DEF Joins
<1>6. ASSUME Abstract!Settle(Line(r), p1) PROVE Abstract!Next
  BY <1>1, <1>4, <1>5, <1>6, IsArrive
<1> QED BY <1>0, <1>1, <1>5, <1>6

\* make_active gives a task its initial priority.
LEMMA InitialPri ==
  ASSUME KernelInv, NEW t \in TaskType, NEW pri, pri = ActivePri({t})
  PROVE  /\ pri \in [TaskType -> Nat] /\ pri[t] \in TaskPri /\ pri[t] \in usedPri
         /\ \A x \in TaskType : x # t => pri[x] = tcb_curpri[x]
<1>1. tcb_curpri \in [TaskType -> Nat] /\ tinib_inipri[t] \in usedPri
  BY PriTypes
<1>2. tinib_inipri[t] \in TaskPri /\ \A x \in TaskType : tinib_inipri[x] \in Nat
  BY Tables
<1> QED BY <1>1, <1>2 DEF ActivePri

\* The services one by one: start-up and the services that make a task runnable.
LEMMA InitializeOrders ==
  ASSUME KernelInv, InitializeTask
  PROVE  Abstract!Next \/ UNCHANGED <<precedence, precedencePri>>
<1>1. boot \in TaskType /\ tcb_tstat[boot] = "DORMANT"
  BY Tables DEF InitializeTask, KernelInv, DispatchInv, Booting, Context, TaskType
<1>2. CASE boot \notin Autostart
  BY <1>2, Stutters DEF InitializeTask, tcb
<1>3. CASE boot \in Autostart
  <2>1. PICK t, pri, r : t = boot /\ pri = ActivePri({t}) /\ r = MakeRunnable(rdy, pri, t)
    OBVIOUS
  <2>2. tcb_tstat' = [tcb_tstat EXCEPT ![t] = "RUNNABLE"] /\ rdy' = r /\ tcb_curpri' = pri
    BY <1>3, <2>1 DEF InitializeTask
  <2>3. Arriving(t, pri)
    <3>1. Runnable' = Runnable \cup {t} /\ t \notin Runnable
      BY <1>1, <2>1, <2>2, PriTypes DEF Runnable
    <3> QED BY <1>1, <2>1, <3>1, InitialPri DEF Arriving, Runnable
  <2>4. Abstract!Settle(Line(r), Shown(pri, Runnable'))
    BY <2>2, SettlesPlainly
  <2> QED BY <2>1, <2>3, <2>4, Arrives
<1> QED BY <1>2, <1>3

LEMMA ActivateOrders ==
  ASSUME KernelInv, NEW t \in TaskType, ActivateDormant(t)
  PROVE  Abstract!Next
<1>1. PICK pri, k, r : pri = ActivePri({t}) /\ k = ActivePc({t}) /\ r = MakeRunnable(rdy, pri, t)
  OBVIOUS
<1>2. /\ tcb_tstat' = [tcb_tstat EXCEPT ![t] = "RUNNABLE"] /\ tcb_tstat[t] = "DORMANT"
      /\ DispatchIfBetter(r, pri, k, t)
  BY <1>1 DEF ActivateDormant
<1>3. Arriving(t, pri)
  <2>1. Runnable' = Runnable \cup {t} /\ t \notin Runnable
    BY <1>2, PriTypes DEF Runnable
  <2> QED BY <1>1, <2>1, InitialPri DEF Arriving, Runnable
<1>4. /\ Consistent(r, pri, Runnable') /\ Runnable' \in SUBSET TaskType
      /\ Abstract!Settle(Line(r), Shown(pri, Runnable')) => Abstract!Next
  BY <1>1, <1>3, Arrives
<1>5. /\ pri \in [TaskType -> Nat] /\ k \in [TaskType -> Continuation]
      /\ \A x \in TaskType : x # t => k[x] = tcxb_pc[x] /\ pri[x] = tcb_curpri[x]
      /\ pri[t] = tinib_inipri[t]
  BY <1>1, PriTypes, Tables DEF ActivePri, ActivePc, Continuation
<1>6. ASSUME NEW x \in Runnable', x # runtsk, k[x] \in Fresh PROVE pri[x] = tinib_inipri[x]
  <2>1. CASE x = t
    BY <1>5, <2>1
  <2>2. CASE x # t
    <3>1. x \in TaskType /\ tcb_tstat[x] # "DORMANT"
      BY <1>2, <2>2, <1>6, PriTypes DEF Runnable
    <3> QED BY <1>5, <1>6, <2>2, <3>1 DEF KernelInv, DispatchInv, FreshAtInitial, AtInitial
  <2> QED BY <2>1, <2>2
<1>7. PICK R : R = Runnable'
  OBVIOUS
<1>8. Abstract!Settle(Line(r), Shown(pri, R))
  BY <1>2, <1>4, <1>5, <1>6, <1>7, IfBetterSettles
<1> QED BY <1>4, <1>7, <1>8

LEMMA SetEventOrders ==
  ASSUME KernelInv, NestedPriorities, NEW t \in ExtTask, NEW mask \in Mask, SetEvent(t, mask)
  PROVE  Abstract!Next \/ UNCHANGED <<precedence, precedencePri>>
<1>1. t \in TaskType
  BY TaskTable DEF TaskType, ExtTask
<1>2. CASE tcb_curevt'[t] \cap tcb_waievt[t] = EVTMASK_NONE
  BY <1>2, Stutters DEF SetEvent
<1>3. CASE tcb_curevt'[t] \cap tcb_waievt[t] # EVTMASK_NONE
  <2>1. PICK r : r = MakeRunnable(rdy, tcb_curpri, t)
    OBVIOUS
  <2>2. /\ tcb_tstat' = [tcb_tstat EXCEPT ![t] = "RUNNABLE"]
        /\ DispatchIfBetter(r, tcb_curpri, tcxb_pc, t)
    BY <1>3, <2>1 DEF SetEvent
  <2>3. tcb_tstat[t] = "WAITING"
    <3>1. tcb_waievt[t] # EVTMASK_NONE
      BY <1>3 DEF EVTMASK_NONE
    <3> QED BY <3>1 DEF KernelInv, DispatchInv, NoLostWakeup
  <2>4. Arriving(t, tcb_curpri)
    <3>1. Runnable' = Runnable \cup {t} /\ t \notin Runnable
      BY <1>1, <2>2, <2>3, PriTypes DEF Runnable
    <3>2. tcb_curpri[t] \in TaskPri /\ tcb_curpri[t] \in usedPri
      BY <1>1, <2>3 DEF KernelInv, DispatchInv, FreshAtInitial, AtInitial, NestedPriorities, Nested
    <3> QED BY <1>1, <3>1, <3>2, PriTypes DEF Arriving
  <2>5. /\ Consistent(r, tcb_curpri, Runnable') /\ Runnable' \in SUBSET TaskType
        /\ Abstract!Settle(Line(r), Shown(tcb_curpri, Runnable')) => Abstract!Next
    BY <2>1, <2>4, Arrives
  <2>6. ASSUME NEW x \in Runnable', x # runtsk, tcxb_pc[x] \in Fresh
        PROVE  tcb_curpri[x] = tinib_inipri[x]
    <3>1. x \in TaskType /\ tcb_tstat[x] # "DORMANT"
      BY <1>1, <2>2, <2>3, <2>6, PriTypes DEF Runnable
    <3> QED BY <2>6, <3>1 DEF KernelInv, DispatchInv, FreshAtInitial, AtInitial
  <2>7. PICK R : R = Runnable'
    OBVIOUS
  <2>8. Abstract!Settle(Line(r), Shown(tcb_curpri, R))
    BY <2>2, <2>5, <2>6, <2>7, PriTypes, IfBetterSettles
  <2> QED BY <2>5, <2>7, <2>8
<1> QED BY <1>2, <1>3

\* The dispatcher called with nothing changed: StartOS, the idle loop, the interrupt exit.
LEMMA IdleOrders ==
  ASSUME KernelInv, StartOS \/ LeaveIdle
  PROVE  Abstract!Next
<1>1. /\ runtsk = TSKID_NULL /\ StartDispatch(rdy, tcb_curpri, tcxb_pc) /\ tcb_tstat' = tcb_tstat
  BY Tables DEF KernelInv, DispatchInv, Booting, StartOS, LeaveIdle
<1>2. PICK R : R = Runnable
  OBVIOUS
<1>3. R = Runnable' /\ R \in SUBSET TaskType /\ Consistent(rdy, tcb_curpri, R)
  BY <1>1, <1>2, Runners DEF Runnable
<1>4. ASSUME NEW x \in R, tcxb_pc[x] \in Fresh PROVE tcb_curpri[x] = tinib_inipri[x]
  <2>1. x \in TaskType /\ x # runtsk /\ tcb_tstat[x] # "DORMANT"
    BY <1>1, <1>2, <1>4, Tables DEF Runnable
  <2> QED BY <1>4, <2>1 DEF KernelInv, DispatchInv, FreshAtInitial, AtInitial
<1>5. Abstract!Settle(Line(rdy), Shown(tcb_curpri, R))
  BY <1>1, <1>3, <1>4, PriTypes, Settles
<1> QED BY <1>2, <1>5, IsSettle

LEMMA ReturnOrders ==
  ASSUME KernelInv, InterruptReturn
  PROVE  Abstract!Next \/ UNCHANGED <<precedence, precedencePri>>
<1> DEFINE k == [tcxb_pc EXCEPT ![runtsk] = "ret_int_r"]
<1>1. /\ tcb_tstat' = tcb_tstat
      /\ UNCHANGED <<rdy, tcb_curpri>> \/ StartDispatch(rdy, tcb_curpri, k)
  BY DEF InterruptReturn, Dispatch
<1>2. \A x \in TaskType : k[x] \in Fresh => x # runtsk /\ tcxb_pc[x] \in Fresh
  BY PriTypes DEF Fresh
<1> HIDE DEF k
<1>3. CASE UNCHANGED <<rdy, tcb_curpri>>
  BY <1>1, <1>3, Stutters
<1>4. CASE StartDispatch(rdy, tcb_curpri, k)
  <2>1. PICK R : R = Runnable
    OBVIOUS
  <2>2. R = Runnable' /\ R \in SUBSET TaskType /\ Consistent(rdy, tcb_curpri, R)
    BY <1>1, <2>1, Runners DEF Runnable
  <2>3. ASSUME NEW x \in R, k[x] \in Fresh PROVE tcb_curpri[x] = tinib_inipri[x]
    <3>1. x \in TaskType /\ tcb_tstat[x] # "DORMANT"
      BY <2>1, <2>3 DEF Runnable
    <3>2. x # runtsk /\ tcxb_pc[x] \in Fresh
      BY <1>2, <2>3, <3>1
    <3> QED BY <3>1, <3>2 DEF KernelInv, DispatchInv, FreshAtInitial, AtInitial
  <2>4. Abstract!Settle(Line(rdy), Shown(tcb_curpri, R))
    BY <1>4, <2>2, <2>3, PriTypes, Settles
  <2> QED BY <2>1, <2>4, IsSettle
<1> QED BY <1>1, <1>3, <1>4

\* The running task is the head of the order.
LEMMA HeadRuns ==
  ASSUME KernelInv, AtTaskLevel
  PROVE  /\ runtsk = rdy.schedtsk /\ runtsk \in TaskType /\ runtsk \in Runnable
         /\ Line(rdy) # << >> /\ Head(Line(rdy)) = runtsk /\ Tail(Line(rdy)) = Order(rdy.queue)
<1>1. runtsk = rdy.schedtsk /\ runtsk \in TaskType /\ runtsk \in Runnable
  BY AtTask DEF KernelInv
<1>2. rdy.schedtsk # TSKID_NULL
  BY <1>1, Tables
<1> QED BY <1>1, <1>2, Runners DEF LineOf

\* search_schedtsk called while a task runs is the first half of a Leave.
LEMMA HeadLeaves ==
  ASSUME KernelInv, AtTaskLevel, NEW r, r = SearchSchedtsk(rdy)
  PROVE  /\ Consistent(r, tcb_curpri, Runnable \ {runtsk})
         /\ Left(Line(rdy), runtsk, Line(r), Shown(tcb_curpri, Runnable \ {runtsk}))
<1>0. PICK R : R = Runnable
  OBVIOUS
<1>1. /\ runtsk = rdy.schedtsk /\ runtsk \in TaskType
      /\ Line(rdy) # << >> /\ Head(Line(rdy)) = runtsk /\ rdy.schedtsk # TSKID_NULL
  BY HeadRuns, Tables
<1>2. R \in SUBSET TaskType /\ Consistent(rdy, tcb_curpri, R) /\ tcb_curpri \in [TaskType -> Nat]
  BY <1>0, Runners, PriTypes
<1>3. Consistent(r, tcb_curpri, R \ {runtsk})
  BY <1>1, <1>2, ScheduledLeaves
<1>4. Line(r) = Tail(Line(rdy))
  BY <1>1, <1>2, LineLeaves
<1>5. Shown(tcb_curpri, R \ {runtsk}) = Abstract!Set(Shown(tcb_curpri, R), runtsk, 0)
  BY <1>1 DEF Shown, Abstract!Set
<1> QED BY <1>0, <1>1, <1>3, <1>4, <1>5 DEF Left

\* GetResource raises the head and moves nobody.
LEMMA GetOrders ==
  ASSUME KernelInv, NestedPriorities, NEW res \in ResourceType, GetResource(res)
  PROVE  Abstract!Next
<1>1. PICK u, c, q, R, p : /\ u = runtsk /\ c = tcb_curpri[u] /\ q = RaisedPri(c, res)
                           /\ R = Runnable /\ p = Shown(tcb_curpri, R)
  OBVIOUS
<1>2. /\ u \in TaskType /\ u \in R /\ Line(rdy) # << >> /\ Head(Line(rdy)) = u
  BY <1>1, HeadRuns DEF GetResource
<1>3. rdy' = rdy /\ tcb_curpri' = [tcb_curpri EXCEPT ![u] = q] /\ Runnable' = R
  BY <1>1, <1>2, PriTypes DEF GetResource, Runnable
<1>4. q \in usedPri /\ q >= p[u]
  <2>1. c \in usedPri /\ c \in Nat /\ resinib_ceilpri[res] \in Nat /\ p[u] = c
    BY <1>1, <1>2, PriTypes, Tables DEF NestedPriorities, Nested, Shown
  <2> QED BY <1>1, <2>1 DEF RaisedPri, usedPri
<1>5. Shown(tcb_curpri', R) = Abstract!Set(p, u, q)
  BY <1>1, <1>2, <1>3, PriTypes DEF Shown, Abstract!Set
<1>6. Abstract!Settle(Line(rdy), p)
  <2>1. precedence' = Line(rdy) /\ precedencePri' = Abstract!Set(p, u, q)
    BY <1>3, <1>5, OrderIs
  <2>2. \E x \in usedPri : x >= p[Head(Line(rdy))] /\ precedencePri' = Abstract!Set(p, Head(Line(rdy)), x)
    BY <1>2, <1>4, <2>1
  <2> QED BY <1>2, <2>1, <2>2 DEF Abstract!Settle
<1> QED BY <1>1, <1>6, IsSettle

LEMMA WaitOrders ==
  ASSUME KernelInv, NEW mask \in Mask, WaitEvent(mask)
  PROVE  Abstract!Next
<1> DEFINE pri == [tcb_curpri EXCEPT ![runtsk] = tinib_inipri[runtsk]]
           k   == [tcxb_pc EXCEPT ![runtsk] = "dispatcher_r_exepri"]
<1>1. PICK r, R : r = SearchSchedtsk(rdy) /\ R = Runnable \ {runtsk}
  OBVIOUS
<1>2. /\ StartDispatch(r, pri, k) /\ tcb_tstat' = [tcb_tstat EXCEPT ![runtsk] = "WAITING"]
      /\ AtTaskLevel
  BY <1>1 DEF WaitEvent, Dispatch
<1>3. runtsk \in TaskType /\ runtsk \in Runnable
  BY <1>2, HeadRuns
<1>4. R = Runnable' /\ R \in SUBSET TaskType
  BY <1>1, <1>2, <1>3, PriTypes DEF Runnable
<1>5. /\ pri \in [TaskType -> Nat]
      /\ \A x \in R : pri[x] = tcb_curpri[x] /\ k[x] = tcxb_pc[x]
  BY <1>1, <1>3, <1>4, PriTypes, Tables
<1> HIDE DEF pri, k
<1>6. Consistent(r, tcb_curpri, R) /\ Left(Line(rdy), runtsk, Line(r), Shown(tcb_curpri, R))
  BY <1>1, <1>2, HeadLeaves
<1>7. Consistent(r, pri, R) /\ Shown(pri, R) = Shown(tcb_curpri, R)
  BY <1>4, <1>5, <1>6, OtherPriorities, ShownSame
<1>8. ASSUME NEW x \in R, k[x] \in Fresh PROVE pri[x] = tinib_inipri[x]
  <2>1. x \in TaskType /\ x # runtsk /\ tcb_tstat[x] # "DORMANT" /\ tcxb_pc[x] \in Fresh
    BY <1>1, <1>5, <1>8 DEF Runnable
  <2> QED BY <1>5, <1>8, <2>1 DEF KernelInv, DispatchInv, FreshAtInitial, AtInitial
<1>9. Abstract!Settle(Line(r), Shown(pri, R))
  BY <1>2, <1>4, <1>5, <1>7, <1>8, Settles
<1> QED BY <1>6, <1>7, <1>9, IsLeave

\* The running task takes the priority pri[runtsk], which is not above its own.
Lowers(pri) ==
  /\ pri \in [TaskType -> Nat] /\ pri[runtsk] \in usedPri /\ pri[runtsk] <= tcb_curpri[runtsk]
  /\ \A x \in TaskType : x # runtsk => pri[x] = tcb_curpri[x]

\* The head at a lower priority, before its equals, is a Yield.
LEMMA HeadLowers ==
  ASSUME KernelInv, AtTaskLevel, NEW pri, Lowers(pri), NEW p, p = Shown(pri, Runnable),
         NEW l, l = Abstract!BeforeEquals(Order(rdy.queue), p, runtsk), Abstract!Settle(l, p)
  PROVE  Abstract!Next
<1>0. PICK u, R, p0, q, m : /\ u = runtsk /\ R = Runnable /\ p0 = Shown(tcb_curpri, R)
                            /\ q = pri[runtsk] /\ m = Line(rdy)
  OBVIOUS
<1>1. u \in TaskType /\ u \in R /\ m # << >> /\ Head(m) = u /\ Tail(m) = Order(rdy.queue)
  BY <1>0, HeadRuns
<1>2. q \in usedPri /\ q <= p0[u] /\ p = Abstract!Set(p0, u, q)
  <2>1. p0[u] = tcb_curpri[u]
    BY <1>0, <1>1 DEF Shown
  <2>2. p = Abstract!Set(p0, u, q)
    BY <1>0, <1>1 DEF Lowers, Shown, Abstract!Set
  <2> QED BY <1>0, <2>1, <2>2 DEF Lowers
<1>3. l = Abstract!BeforeEquals(Tail(m), p, u)
  BY <1>0, <1>1
<1> QED BY <1>0, <1>1, <1>2, <1>3, IsYield

\* With a better task in the queues preempt does that.
LEMMA HeadYields ==
  ASSUME KernelInv, AtTaskLevel, NEW pri, Lowers(pri), pri[runtsk] < rdy.nextpri,
         NEW r, r = Preempt(rdy, pri)
  PROVE  /\ Consistent(r, pri, Runnable)
         /\ Abstract!Settle(Line(r), Shown(pri, Runnable)) => Abstract!Next
<1>0. PICK R, p, u : R = Runnable /\ p = Shown(pri, R) /\ u = runtsk
  OBVIOUS
<1>1. /\ u = rdy.schedtsk /\ u \in TaskType /\ u \in R /\ R \in SUBSET TaskType
      /\ Consistent(rdy, tcb_curpri, R)
  BY <1>0, HeadRuns, Runners
<1>2. pri \in [TaskType -> Nat] /\ \A x \in TaskType : x # u => pri[x] = tcb_curpri[x]
  BY <1>0 DEF Lowers
<1>3. Sound(rdy, pri, R \ {rdy.schedtsk})
  <2>1. \A x \in R \ {rdy.schedtsk} : pri[x] = tcb_curpri[x]
    BY <1>1, <1>2
  <2> QED BY <1>1, <2>1, SoundOther DEF Consistent
<1>4. Consistent(r, pri, R)
  BY <1>0, <1>1, <1>2, <1>3, ScheduledYields
<1>5. Agree(p, pri, R)
  BY <1>0, <1>1 DEF Agree, Shown
<1>6. pri[u] < rdy.nextpri
  BY <1>0
<1>7. Line(r) = Abstract!BeforeEquals(Order(rdy.queue), p, u)
  BY <1>1, <1>2, <1>3, <1>5, <1>6, LineYields
<1>8. ASSUME Abstract!Settle(Line(r), p) PROVE Abstract!Next
  BY <1>0, <1>7, <1>8, HeadLowers
<1> QED BY <1>0, <1>4, <1>8

\* With no better task nothing moves, which is the same.
LEMMA HeadStays ==
  ASSUME KernelInv, AtTaskLevel, NEW pri, Lowers(pri), ~ (pri[runtsk] < rdy.nextpri),
         Abstract!Settle(Line(rdy), Shown(pri, Runnable))
  PROVE  Abstract!Next
<1>0. PICK R, p, u : R = Runnable /\ p = Shown(pri, R) /\ u = runtsk
  OBVIOUS
<1>1. /\ u = rdy.schedtsk /\ u \in TaskType /\ u \in R /\ R \in SUBSET TaskType
      /\ Consistent(rdy, tcb_curpri, R) /\ TSKID_NULL \notin R
  BY <1>0, HeadRuns, Runners, Tables
<1>2. pri \in [TaskType -> Nat] /\ \A x \in TaskType : x # u => pri[x] = tcb_curpri[x]
  BY <1>0 DEF Lowers
<1>3. Sound(rdy, pri, R \ {rdy.schedtsk})
  <2>1. \A x \in R \ {rdy.schedtsk} : pri[x] = tcb_curpri[x]
    BY <1>1, <1>2
  <2> QED BY <1>1, <2>1, SoundOther DEF Consistent
<1>4. pri[rdy.schedtsk] >= rdy.nextpri
  <2>1. rdy.nextpri \in Nat
    BY <1>1, TaskTable, SchedulerFields DEF Consistent, Sound
  <2> QED BY <1>0, <1>1, <1>2, <2>1
<1>5. Consistent(rdy, pri, R)
  BY <1>1, <1>3, <1>4, ScheduledPriority
<1>6. Agree(p, pri, R)
  BY <1>0, <1>1 DEF Agree, Shown
<1>7. Line(rdy) = Abstract!BeforeEquals(Order(rdy.queue), p, u)
  BY <1>1, <1>2, <1>5, <1>6, LineStays
<1> QED BY <1>0, <1>7, HeadLowers

LEMMA ScheduleOrders ==
  ASSUME KernelInv, LeadInv, Schedule
  PROVE  Abstract!Next
<1> DEFINE pri == [tcb_curpri EXCEPT ![runtsk] = tinib_inipri[runtsk]]
           k   == [tcxb_pc EXCEPT ![runtsk] = "dispatcher_r_exepri"]
<1>1. PICK r, R : r = Preempt(rdy, pri) /\ R = Runnable
  OBVIOUS
<1>2. /\ StartDispatch(r, pri, k) /\ tcb_tstat' = tcb_tstat /\ AtTaskLevel
      /\ tinib_inipri[runtsk] < rdy.nextpri
  BY <1>1 DEF Schedule, Dispatch
<1>3. runtsk \in TaskType /\ runtsk \in Runnable
  BY <1>2, HeadRuns
<1>4. R = Runnable' /\ R \in SUBSET TaskType
  BY <1>1, <1>2, Runners DEF Runnable
<1>5. /\ pri \in [TaskType -> Nat] /\ pri[runtsk] = tinib_inipri[runtsk]
      /\ \A x \in TaskType : x # runtsk => pri[x] = tcb_curpri[x] /\ k[x] = tcxb_pc[x]
  BY <1>3, PriTypes, Tables
<1>6. Lowers(pri)
  <2>1. tinib_inipri[runtsk] <= tcb_curpri[runtsk] /\ tinib_inipri[runtsk] \in usedPri
    BY <1>3, PriTypes DEF LeadInv, AboveInitial, Runnable
  <2> QED BY <1>3, <1>5, <2>1 DEF Lowers
<1> HIDE DEF pri, k
<1>7. Consistent(r, pri, R) /\ (Abstract!Settle(Line(r), Shown(pri, R)) => Abstract!Next)
  BY <1>1, <1>2, <1>5, <1>6, HeadYields
<1>8. ASSUME NEW x \in R, k[x] \in Fresh PROVE pri[x] = tinib_inipri[x]
  <2>1. CASE x = runtsk
    BY <1>5, <2>1
  <2>2. CASE x # runtsk
    <3>1. x \in TaskType /\ tcb_tstat[x] # "DORMANT"
      BY <1>1, <1>8 DEF Runnable
    <3> QED BY <1>5, <1>8, <2>2, <3>1 DEF KernelInv, DispatchInv, FreshAtInitial, AtInitial
  <2> QED BY <2>1, <2>2
<1>9. Abstract!Settle(Line(r), Shown(pri, R))
  BY <1>2, <1>4, <1>5, <1>7, <1>8, Settles
<1> QED BY <1>7, <1>9

LEMMA ReleaseOrders ==
  ASSUME KernelInv, NestedPriorities, NEW res \in ResourceType, ReleaseResource(res)
  PROVE  Abstract!Next
<1> DEFINE pri == [tcb_curpri EXCEPT ![runtsk] = rescb_prevpri[res]]
           k   == [tcxb_pc EXCEPT ![runtsk] = "dispatcher_r"]
<1>1. PICK r, R, u : r = Preempt(rdy, pri) /\ R = Runnable /\ u = runtsk
  OBVIOUS
<1>2. /\ tcb_tstat' = tcb_tstat /\ AtTaskLevel /\ tcb_lastres[u] = res
      /\ IF pri[u] < rdy.nextpri THEN StartDispatch(r, pri, k)
         ELSE rdy' = rdy /\ tcb_curpri' = pri
  BY <1>1 DEF ReleaseResource, ReleaseInOrder, RestoredPri, Dispatch
<1>3. u \in TaskType /\ u \in Runnable
  BY <1>1, <1>2, HeadRuns
<1>4. R = Runnable' /\ R \in SUBSET TaskType
  BY <1>1, <1>2, Runners DEF Runnable
\* res is the last resource u took.
<1>5. rescb_prevpri[res] \in usedPri /\ rescb_prevpri[res] <= tcb_curpri[u]
      /\ rescb_prevpri[res] \in Nat
  <2>1. PICK s, n : s = resstk[u] /\ n = Len(s)
    OBVIOUS
  <2>2. /\ StackOf(u) /\ s \in Seq(ResourceType) /\ Nested(u)
        /\ rescb_prevpri \in [ResourceType -> Nat]
    BY <1>3, <2>1 DEF KernelInv, ResourceInv, ResourceTypes, DispatchInv, BlockTypes,
                      NestedPriorities
  <2>3. s # << >> /\ s[n] = res
    BY <1>2, <2>1, <2>2, ResourceTables DEF StackOf
  <2>4. n \in 1 .. n
    BY <2>1, <2>2, <2>3
  <2> QED BY <2>1, <2>2, <2>3, <2>4 DEF Nested
<1>6. /\ pri \in [TaskType -> Nat] /\ pri[u] = rescb_prevpri[res]
      /\ \A x \in TaskType : x # u => pri[x] = tcb_curpri[x] /\ k[x] = tcxb_pc[x]
      /\ k[u] \notin Fresh
  BY <1>1, <1>3, <1>5, PriTypes DEF Fresh
<1> HIDE DEF pri, k
<1>7. Lowers(pri)
  BY <1>1, <1>5, <1>6 DEF Lowers
<1>8. CASE pri[u] < rdy.nextpri
  <2>1. Consistent(r, pri, R) /\ (Abstract!Settle(Line(r), Shown(pri, R)) => Abstract!Next)
    BY <1>1, <1>2, <1>7, <1>8, HeadYields
  <2>2. ASSUME NEW x \in R, k[x] \in Fresh PROVE pri[x] = tinib_inipri[x]
    <3>1. x # u /\ x \in TaskType /\ tcb_tstat[x] # "DORMANT"
      BY <1>1, <1>6, <2>2 DEF Runnable
    <3> QED BY <1>1, <1>6, <2>2, <3>1 DEF KernelInv, DispatchInv, FreshAtInitial, AtInitial
  <2>3. Abstract!Settle(Line(r), Shown(pri, R))
    BY <1>2, <1>4, <1>6, <1>8, <2>1, <2>2, Settles
  <2> QED BY <2>1, <2>3
<1>9. CASE ~ (pri[u] < rdy.nextpri)
  <2>1. Abstract!Settle(Line(rdy), Shown(pri, R))
    BY <1>2, <1>4, <1>9, SettlesPlainly
  <2> QED BY <1>1, <1>2, <1>7, <1>9, <2>1, HeadStays
<1> QED BY <1>8, <1>9

\* What EndTask does, in its three steps: the head leaves, comes again, and is followed.
LEMMA EndTaskOrders ==
  ASSUME KernelInv, AtTaskLevel, NEW again \in BOOLEAN, NEW t \in TaskType \cup {TSKID_NULL},
         t # TSKID_NULL => t # runtsk /\ tcb_tstat[t] = "DORMANT",
         EndTask(again, t)
  PROVE  Abstract!Next
<1> DEFINE new == {x \in TaskType : x = t \/ (again /\ x = runtsk)}
           pri == ActivePri(new)
           k   == ActivePc(new)
<1>0. PICK r0, r1, r2, u :
        /\ r0 = SearchSchedtsk(rdy) /\ u = runtsk
        /\ r1 = IF again THEN MakeRunnable(r0, pri, u) ELSE r0
        /\ r2 = IF t # TSKID_NULL THEN MakeRunnable(r1, pri, t) ELSE r1
  OBVIOUS
<1>1. /\ tcb_tstat' = [x \in TaskType |-> IF x \in new THEN "RUNNABLE"
                                          ELSE IF x = u THEN "DORMANT" ELSE tcb_tstat[x]]
      /\ StartDispatch(r2, pri, k)
  BY <1>0 DEF EndTask
<1>2. u \in TaskType /\ u \in Runnable
  BY <1>0, HeadRuns
<1>3. /\ pri \in [TaskType -> Nat]
      /\ \A x \in new : pri[x] = tinib_inipri[x] /\ pri[x] \in TaskPri /\ pri[x] \in usedPri
      /\ \A x \in TaskType : x \notin new => pri[x] = tcb_curpri[x]
  <2>1. tcb_curpri \in [TaskType -> Nat] /\ \A x \in TaskType : tinib_inipri[x] \in usedPri
    BY PriTypes
  <2>2. \A x \in TaskType : tinib_inipri[x] \in TaskPri /\ tinib_inipri[x] \in Nat
    BY Tables
  <2> QED BY <2>1, <2>2 DEF ActivePri
<1>4. \A x \in TaskType : x \notin new => k[x] = tcxb_pc[x]
  BY DEF ActivePc
<1>5. /\ new \in SUBSET TaskType /\ (u \in new <=> again)
      /\ t # TSKID_NULL => t \in new /\ t \in TaskType /\ t \notin Runnable /\ t # u
      /\ \A x \in new : x = t \/ x = u
  BY <1>0, <1>2, Tables DEF Runnable
<1>6. TSKID_NULL \notin new
  BY <1>5, Tables
<1> HIDE DEF new, pri, k
<1>7. PICK R0, R1, R2 : /\ R0 = Runnable \ {u} /\ R1 = (IF again THEN R0 \cup {u} ELSE R0)
                        /\ R2 = (IF t # TSKID_NULL THEN R1 \cup {t} ELSE R1)
  OBVIOUS
<1>8. /\ R0 \in SUBSET TaskType /\ R1 \in SUBSET TaskType /\ R2 \in SUBSET TaskType
      /\ \A x \in R0 : x \notin new
      /\ u \notin R0 /\ (t # TSKID_NULL => t \notin R1)
  <2>1. Runnable \in SUBSET TaskType
    BY Runners
  <2>2. R0 \in SUBSET TaskType /\ R1 \in SUBSET TaskType /\ R2 \in SUBSET TaskType
    BY <1>2, <1>5, <1>7, <2>1
  <2>3. ASSUME NEW x \in R0 PROVE x \notin new
    <3>1. x # u /\ x \in Runnable /\ x # TSKID_NULL
      BY <1>7, <2>1, <2>3, Tables
    <3> QED BY <1>5, <3>1
  <2> QED BY <1>5, <1>7, <2>2, <2>3
<1>9. R2 = Runnable'
  <2>1. Runnable' = new \cup R0
    BY <1>1, <1>5, <1>7 DEF Runnable
  <2>2. new = (IF again THEN {u} ELSE {}) \cup (IF t # TSKID_NULL THEN {t} ELSE {})
    BY <1>5, <1>6
  <2> QED BY <1>7, <2>1, <2>2
<1>10. PICK l, o, p0, p1, p2 : /\ l = Line(rdy) /\ o = Line(r0) /\ p0 = Shown(pri, R0)
                               /\ p1 = Shown(pri, R1) /\ p2 = Shown(pri, R2)
  OBVIOUS
<1>11. Consistent(r0, pri, R0) /\ Left(l, u, o, p0)
  <2>1. Consistent(r0, tcb_curpri, R0) /\ Left(l, u, o, Shown(tcb_curpri, R0))
    BY <1>0, <1>7, <1>10, HeadLeaves
  <2>2. \A x \in R0 : pri[x] = tcb_curpri[x]
    BY <1>3, <1>8
  <2>3. Consistent(r0, pri, R0)
    BY <1>8, <2>1, <2>2, OtherPriorities
  <2>4. p0 = Shown(tcb_curpri, R0)
    BY <1>10, <2>2, ShownSame
  <2> QED BY <2>1, <2>3, <2>4
<1>12. again => Joins(r0, pri, R0, u, p0, p1)
  BY <1>2, <1>3, <1>5, <1>7, <1>8, <1>10, <1>11, ArrivesInLine
<1>13. Consistent(r1, pri, R1)
  BY <1>0, <1>7, <1>11, <1>12 DEF Joins
<1>14. t # TSKID_NULL => Joins(r1, pri, R1, t, p1, p2)
  BY <1>3, <1>5, <1>7, <1>8, <1>10, <1>13, ArrivesInLine
<1>15. Consistent(r2, pri, R2)
  BY <1>0, <1>7, <1>13, <1>14 DEF Joins
<1>16. Abstract!Settle(Line(r2), p2)
  <2>1. ASSUME NEW x \in R2, k[x] \in Fresh PROVE pri[x] = tinib_inipri[x]
    <3>1. CASE x \in new
      BY <1>3, <3>1
    <3>2. CASE x \notin new
      <4>1. x \in TaskType /\ x # u /\ tcb_tstat[x] # "DORMANT" /\ tcxb_pc[x] \in Fresh
        BY <1>4, <1>5, <1>7, <1>8, <2>1, <3>2 DEF Runnable
      <4> QED BY <1>0, <1>3, <3>2, <4>1 DEF KernelInv, DispatchInv, FreshAtInitial, AtInitial
    <3> QED BY <3>1, <3>2
  <2> QED BY <1>1, <1>3, <1>8, <1>9, <1>10, <1>15, <2>1, Settles
<1>17. CASE ~ again /\ t = TSKID_NULL
  <2>1. Line(r2) = o /\ p2 = p0
    BY <1>0, <1>7, <1>10, <1>17
  <2> QED BY <1>11, <1>16, <2>1, IsLeave
<1>18. CASE again /\ t = TSKID_NULL
  <2>1. Line(r2) = Line(r1) /\ p2 = p1 /\ r1 = MakeRunnable(r0, pri, u)
    BY <1>0, <1>7, <1>10, <1>18
  <2>2. /\ u \in TaskType \ Abstract!InOrder(o) /\ pri[u] \in usedPri
        /\ p1 = Abstract!Set(p0, u, pri[u]) /\ Line(r1) = Abstract!BehindEquals(o, p1, u)
    BY <1>3, <1>5, <1>10, <1>12, <1>18, <2>1 DEF Joins
  <2> QED BY <1>11, <1>16, <2>1, <2>2, IsLeaveArrive
<1>19. CASE ~ again /\ t # TSKID_NULL
  <2>1. r1 = r0 /\ p1 = p0 /\ r2 = MakeRunnable(r1, pri, t) /\ Line(r1) = o
    BY <1>0, <1>7, <1>10, <1>19
  <2>2. /\ t \in TaskType \ Abstract!InOrder(o) /\ pri[t] \in usedPri
        /\ p2 = Abstract!Set(p0, t, pri[t]) /\ Line(r2) = Abstract!BehindEquals(o, p2, t)
    BY <1>3, <1>5, <1>14, <1>19, <2>1 DEF Joins
  <2> QED BY <1>11, <1>16, <2>2, IsLeaveArrive
<1>20. CASE again /\ t # TSKID_NULL
  <2>1. r1 = MakeRunnable(r0, pri, u) /\ r2 = MakeRunnable(r1, pri, t)
    BY <1>0, <1>20
  <2>2. /\ u \in TaskType \ Abstract!InOrder(o) /\ pri[u] \in usedPri
        /\ p1 = Abstract!Set(p0, u, pri[u]) /\ Line(r1) = Abstract!BehindEquals(o, p1, u)
    BY <1>3, <1>5, <1>10, <1>12, <1>20, <2>1 DEF Joins
  <2>3. /\ t \in TaskType \ Abstract!InOrder(Line(r1)) /\ pri[t] \in usedPri
        /\ p2 = Abstract!Set(p1, t, pri[t]) /\ Line(r2) = Abstract!BehindEquals(Line(r1), p2, t)
    BY <1>3, <1>5, <1>14, <1>20, <2>1 DEF Joins
  <2> QED BY <1>11, <1>16, <2>2, <2>3, IsLeaveArriveArrive
<1> QED BY <1>17, <1>18, <1>19, <1>20

\* Every step of the kernel is a step of PriorityOrder, or moves nobody.
LEMMA NextOrders ==
  ASSUME KernelInv, LeadInv, NestedPriorities, [Next]_vars
  PROVE  Abstract!Next \/ UNCHANGED <<precedence, precedencePri>>
<1>1. CASE InitializeTask
  BY <1>1, InitializeOrders
<1>2. CASE StartOS \/ LeaveIdle
  BY <1>2, IdleOrders
<1>3. ASSUME NEW t \in TaskType, ActivateTask(t)
      PROVE  Abstract!Next \/ UNCHANGED <<precedence, precedencePri>>
  <2>1. CASE ActivateDormant(t)
    BY <2>1, ActivateOrders
  <2>2. CASE ActivateAgain(t)
    BY <2>2, Stutters DEF ActivateAgain
  <2> QED BY <1>3, <2>1, <2>2 DEF ActivateTask
<1>4. (tcb_actcnt[runtsk] > 0) \in BOOLEAN /\ TSKID_NULL \in TaskType \cup {TSKID_NULL}
  OBVIOUS
<1>5. CASE TerminateTask
  BY <1>4, <1>5, EndTaskOrders DEF TerminateTask
<1>6. CASE ChainSelf
  BY <1>4, <1>6, EndTaskOrders DEF ChainSelf
<1>7. ASSUME NEW t \in TaskType, ChainOther(t) PROVE Abstract!Next
  <2>1. PICK x : x = IF tcb_tstat[t] = "DORMANT" THEN t ELSE TSKID_NULL
    OBVIOUS
  <2>2. /\ x \in TaskType \cup {TSKID_NULL}
        /\ x # TSKID_NULL => x # runtsk /\ tcb_tstat[x] = "DORMANT"
    BY <1>7, <2>1 DEF ChainOther
  <2>3. AtTaskLevel /\ EndTask(tcb_actcnt[runtsk] > 0, x)
    BY <1>7, <2>1 DEF ChainOther
  <2> QED BY <1>4, <2>2, <2>3, EndTaskOrders
<1>8. CASE Schedule
  BY <1>8, ScheduleOrders
<1>9. ASSUME NEW res \in ResourceType, GetResource(res) \/ ReleaseResource(res)
      PROVE  Abstract!Next
  BY <1>9, GetOrders, ReleaseOrders
<1>10. ASSUME NEW t \in ExtTask, NEW mask \in Mask, SetEvent(t, mask)
       PROVE  Abstract!Next \/ UNCHANGED <<precedence, precedencePri>>
  BY <1>10, SetEventOrders
<1>11. ASSUME NEW mask \in Mask, ClearEvent(mask) \/ WaitEvent(mask)
       PROVE  Abstract!Next \/ UNCHANGED <<precedence, precedencePri>>
  <2>1. CASE ClearEvent(mask)
    BY <2>1, Stutters DEF ClearEvent
  <2>2. CASE WaitEvent(mask)
    BY <2>2, WaitOrders
  <2> QED BY <1>11, <2>1, <2>2
<1>12. ASSUME NEW i \in IsrType, Interrupt(i) PROVE UNCHANGED <<precedence, precedencePri>>
  BY <1>12, Stutters DEF Interrupt, tcb
<1>13. CASE InterruptReturn
  BY <1>13, ReturnOrders
<1>14. CASE UNCHANGED vars
  BY <1>14, Stutters DEF vars, tcb
<1> QED BY <1>1, <1>2, <1>3, <1>5, <1>6, <1>7, <1>8, <1>9, <1>10, <1>11, <1>12, <1>13, <1>14
        DEF Next

\* At power-up no task is runnable.
LEMMA InitOrders == Init => Abstract!Init
<1> SUFFICES ASSUME Init PROVE Abstract!Init
  OBVIOUS
<1>1. KernelInv
  BY InitDispatch, InitStacks DEF KernelInv
<1>2. LineOf(rdy, Runnable)
  BY <1>1, Runners
<1>3. precedence = << >>
  BY <1>2, OrderIs DEF LineOf, Init, NoTaskReady
<1>4. precedencePri = [t \in TaskType |-> 0]
  BY OrderIs DEF Shown, Init, Runnable
<1> QED BY <1>3, <1>4 DEF Abstract!Init

\* The kernel implements PriorityOrder: schedtsk followed by the ready queues, joined from
\* the highest priority down, is one order of the runnable tasks, and task_manage.c,
\* event.c, resource.c, the dispatcher and the interrupt exit move tasks in it only as the
\* scheduler promises. An arriving task goes behind its equals, a task that is preempted
\* or gives back a resource stays before them, and only the head leaves or changes its
\* priority.
THEOREM PriorityOrderImplemented == Spec => ImplementsPriorityOrder
<1>1. Init => KernelInv /\ LeadInv /\ NestedPriorities /\ Abstract!Init
  BY InitDispatch, InitStacks, InitLeads, InitNests, InitOrders DEF KernelInv
<1>2. KernelInv /\ LeadInv /\ NestedPriorities /\ [Next]_vars
        => (KernelInv /\ LeadInv /\ NestedPriorities)'
  <2> SUFFICES ASSUME KernelInv, LeadInv, NestedPriorities, [Next]_vars
               PROVE  (KernelInv /\ LeadInv /\ NestedPriorities)'
    OBVIOUS
  <2>1. DispatchInv' /\ ResourceInv'
    BY NextDispatch, NextStacks DEF KernelInv
  <2> QED BY <2>1, NextLeads, NextNests DEF KernelInv
<1>3. KernelInv /\ LeadInv /\ NestedPriorities /\ [Next]_vars
        => [Abstract!Next]_<<precedence, precedencePri>>
  BY NextOrders
<1> QED BY <1>1, <1>2, <1>3, PTL DEF Spec, ImplementsPriorityOrder, Abstract!Spec

--------------------------------------------------------------------------------
(* ready_primap as a set of priorities: what setting and clearing a bit do to the other *)
(* bits, by halving the map.                                                            *)

BitNumber == 0 .. 15

\* The bits are powers of two.
LEMMA BitDoubles ==
  /\ PRIMAP_BIT(0) = 1
  /\ \A k \in BitNumber : PRIMAP_BIT(k) \in Nat /\ PRIMAP_BIT(k) > 0
  /\ \A k \in 0 .. 14 : PRIMAP_BIT(k + 1) = 2 * PRIMAP_BIT(k)
<1>1. \A k \in BitNumber : k \in {0, 1, 2, 3, 4, 5, 6, 7, 8, 9, 10, 11, 12, 13, 14, 15}
  BY DEF BitNumber
<1>2. \A k \in 0 .. 14 : k \in {0, 1, 2, 3, 4, 5, 6, 7, 8, 9, 10, 11, 12, 13, 14}
  OBVIOUS
<1>3. \A k \in BitNumber : PRIMAP_BIT(k) \in Nat /\ PRIMAP_BIT(k) > 0
  BY <1>1, Bits
<1>4. \A k \in 0 .. 14 : PRIMAP_BIT(k + 1) = 2 * PRIMAP_BIT(k)
  BY <1>2, Bits
<1>5. PRIMAP_BIT(0) = 1
  BY Bits
<1> QED BY <1>3, <1>4, <1>5

LEMMA HalfDivided ==
  ASSUME NEW b \in Nat, NEW m \in Nat, m > 0
  PROVE  b \div (2 * m) = (b \div 2) \div m
OBVIOUS

LEMMA LessDivided ==
  ASSUME NEW b \in Nat, NEW m \in Nat, m > 0, b < m
  PROVE  b \div m = 0
OBVIOUS

\* A bit of a map is the bit below it of half the map.
LEMMA BitOfHalf ==
  ASSUME NEW b \in Nat
  PROVE  /\ b \div 2 \in Nat
         /\ HasBit(b, 0) <=> b % 2 = 1
         /\ \A k \in 0 .. 14 : HasBit(b, k + 1) <=> HasBit(b \div 2, k)
<1>1. ASSUME NEW k \in 0 .. 14 PROVE HasBit(b, k + 1) <=> HasBit(b \div 2, k)
  <2>0. k \in BitNumber
    BY DEF BitNumber
  <2>1. PICK m \in Nat : m = PRIMAP_BIT(k) /\ m > 0
    BY <2>0, BitDoubles
  <2>5. PRIMAP_BIT(k + 1) = 2 * m
    BY <2>1, BitDoubles
  <2>2. b \div (2 * m) = (b \div 2) \div m
    BY <2>1, HalfDivided
  <2> QED BY <2>1, <2>2, <2>5 DEF HasBit
<1>2. HasBit(b, 0) <=> b % 2 = 1
  BY BitDoubles DEF HasBit
<1> QED BY <1>1, <1>2

\* Setting or clearing a bit above the lowest is setting or clearing it in the half.
LEMMA HalfOfSet ==
  ASSUME NEW b \in Nat, NEW p \in 0 .. 14
  PROVE  /\ SetBit(b, p + 1) \in Nat /\ SetBit(b, p + 1) % 2 = b % 2
         /\ SetBit(b, p + 1) \div 2 = SetBit(b \div 2, p)
<1>0. p \in BitNumber
  BY DEF BitNumber
<1>1. PICK m \in Nat : m = PRIMAP_BIT(p) /\ m > 0
  BY <1>0, BitDoubles
<1>5. PRIMAP_BIT(p + 1) = 2 * m
  BY <1>1, BitDoubles
<1>2. (b + 2 * m) % 2 = b % 2 /\ (b + 2 * m) \div 2 = (b \div 2) + m
  OBVIOUS
<1>3. HasBit(b, p + 1) <=> HasBit(b \div 2, p)
  BY BitOfHalf
<1> QED BY <1>1, <1>2, <1>3, <1>5 DEF SetBit

LEMMA HalfOfClear ==
  ASSUME NEW b \in Nat, NEW p \in 0 .. 14
  PROVE  /\ ClearBit(b, p + 1) \in Nat /\ ClearBit(b, p + 1) % 2 = b % 2
         /\ ClearBit(b, p + 1) \div 2 = ClearBit(b \div 2, p)
<1>0. p \in BitNumber
  BY DEF BitNumber
<1>1. PICK m \in Nat : m = PRIMAP_BIT(p) /\ m > 0
  BY <1>0, BitDoubles
<1>5. PRIMAP_BIT(p + 1) = 2 * m
  BY <1>1, BitDoubles
<1>2. (b - 2 * m) % 2 = b % 2 /\ (b - 2 * m) \div 2 = (b \div 2) - m
  OBVIOUS
<1>3. HasBit(b, p + 1) <=> HasBit(b \div 2, p)
  BY BitOfHalf
<1>4. HasBit(b, p + 1) => b - 2 * m \in Nat
  <2>3. PICK n \in Nat : n = 2 * m /\ n > 0
    BY <1>1
  <2>1. b < n => b \div n = 0
    BY <2>3, LessDivided
  <2>2. HasBit(b, p + 1) => b \div (2 * m) # 0
    BY <1>5 DEF HasBit
  <2>4. HasBit(b, p + 1) => ~ (b < n)
    BY <2>1, <2>2, <2>3
  <2> QED BY <2>3, <2>4
<1> QED BY <1>1, <1>2, <1>3, <1>4, <1>5 DEF ClearBit

\* What holds at 0, and at a number when it holds at the one before, holds of all bits.
LEMMA EveryBit ==
  ASSUME NEW P, 0 \in P, \A p \in 0 .. 14 : p \in P => p + 1 \in P
  PROVE  BitNumber \subseteq P
<1>1. \A p \in BitNumber :
        p \in {0, 1, 2, 3, 4, 5, 6, 7, 8, 9, 10, 11, 12, 13, 14, 15}
  BY DEF BitNumber
<1>2. 0 + 1 \in P /\ 1 + 1 \in P /\ 2 + 1 \in P /\ 3 + 1 \in P /\ 4 + 1 \in P /\ 5 + 1 \in P
      /\ 6 + 1 \in P /\ 7 + 1 \in P /\ 8 + 1 \in P /\ 9 + 1 \in P /\ 10 + 1 \in P
      /\ 11 + 1 \in P /\ 12 + 1 \in P /\ 13 + 1 \in P /\ 14 + 1 \in P
  OBVIOUS
<1> QED BY <1>1, <1>2

\* b | PRIMAP_BIT(p) adds the bit p and no other.
LEMMA SetBitFacts ==
  ASSUME NEW b \in Nat, NEW p \in BitNumber, NEW k \in BitNumber
  PROVE  SetBit(b, p) \in Nat /\ (HasBit(SetBit(b, p), k) <=> k = p \/ HasBit(b, k))
<1> DEFINE Sets(x, q) == \A j \in BitNumber : HasBit(SetBit(x, q), j) <=> j = q \/ HasBit(x, j)
           P == {q \in BitNumber : \A x \in Nat : SetBit(x, q) \in Nat /\ Sets(x, q)}
<1>1. 0 \in P
  <2> SUFFICES ASSUME NEW x \in Nat PROVE SetBit(x, 0) \in Nat /\ Sets(x, 0)
    BY DEF BitNumber
  <2>1. PICK y : y = SetBit(x, 0)
    OBVIOUS
  <2>2. y \in Nat /\ y % 2 = 1 /\ y \div 2 = x \div 2
    <3>1. y = IF x % 2 = 1 THEN x ELSE x + 1
      BY <2>1, BitOfHalf, BitDoubles DEF SetBit
    <3> QED BY <3>1
  <2>3. ASSUME NEW j \in BitNumber PROVE HasBit(y, j) <=> j = 0 \/ HasBit(x, j)
    <3>1. CASE j = 0
      BY <2>2, <3>1, BitOfHalf
    <3>2. CASE j # 0
      <4>1. j - 1 \in 0 .. 14 /\ (j - 1) + 1 = j
        BY <3>2 DEF BitNumber
      <4> QED BY <2>2, <3>2, <4>1, BitOfHalf
    <3> QED BY <3>1, <3>2
  <2> QED BY <2>1, <2>2, <2>3
<1>2. ASSUME NEW q \in 0 .. 14, q \in P PROVE q + 1 \in P
  <2> SUFFICES ASSUME NEW x \in Nat PROVE SetBit(x, q + 1) \in Nat /\ Sets(x, q + 1)
    BY DEF BitNumber
  <2>1. PICK y : y = SetBit(x, q + 1)
    OBVIOUS
  <2>2. PICK h \in Nat : h = x \div 2
    OBVIOUS
  <2>3. y \in Nat /\ y % 2 = x % 2 /\ y \div 2 = SetBit(h, q)
    BY <2>1, <2>2, HalfOfSet
  <2>4. Sets(h, q)
    BY <1>2
  <2>5. ASSUME NEW j \in BitNumber PROVE HasBit(y, j) <=> j = q + 1 \/ HasBit(x, j)
    <3>1. CASE j = 0
      BY <2>3, <3>1, BitOfHalf
    <3>2. CASE j # 0
      <4>1. PICK i \in 0 .. 14 : j = i + 1
        BY <3>2 DEF BitNumber
      <4>2. HasBit(y, j) <=> HasBit(SetBit(h, q), i)
        BY <2>3, <4>1, BitOfHalf
      <4>3. HasBit(x, j) <=> HasBit(h, i)
        BY <2>2, <4>1, BitOfHalf
      <4>4. HasBit(SetBit(h, q), i) <=> i = q \/ HasBit(h, i)
        BY <2>4 DEF BitNumber
      <4> QED BY <4>1, <4>2, <4>3, <4>4
    <3> QED BY <3>1, <3>2
  <2> QED BY <2>1, <2>3, <2>5
<1> HIDE DEF P
<1>3. p \in P
  BY <1>1, <1>2, EveryBit
<1> QED BY <1>3 DEF P

\* b & ~PRIMAP_BIT(p) takes the bit p away and no other.
LEMMA ClearBitFacts ==
  ASSUME NEW b \in Nat, NEW p \in BitNumber, NEW k \in BitNumber
  PROVE  ClearBit(b, p) \in Nat /\ (HasBit(ClearBit(b, p), k) <=> k # p /\ HasBit(b, k))
<1> DEFINE Clears(x, q) ==
             \A j \in BitNumber : HasBit(ClearBit(x, q), j) <=> j # q /\ HasBit(x, j)
           P == {q \in BitNumber : \A x \in Nat : ClearBit(x, q) \in Nat /\ Clears(x, q)}
<1>1. 0 \in P
  <2> SUFFICES ASSUME NEW x \in Nat PROVE ClearBit(x, 0) \in Nat /\ Clears(x, 0)
    BY DEF BitNumber
  <2>1. PICK y : y = ClearBit(x, 0)
    OBVIOUS
  <2>2. y \in Nat /\ y % 2 = 0 /\ y \div 2 = x \div 2
    <3>1. y = IF x % 2 = 1 THEN x - 1 ELSE x
      BY <2>1, BitOfHalf, BitDoubles DEF ClearBit
    <3> QED BY <3>1
  <2>3. ASSUME NEW j \in BitNumber PROVE HasBit(y, j) <=> j # 0 /\ HasBit(x, j)
    <3>1. CASE j = 0
      BY <2>2, <3>1, BitOfHalf
    <3>2. CASE j # 0
      <4>1. j - 1 \in 0 .. 14 /\ (j - 1) + 1 = j
        BY <3>2 DEF BitNumber
      <4> QED BY <2>2, <3>2, <4>1, BitOfHalf
    <3> QED BY <3>1, <3>2
  <2> QED BY <2>1, <2>2, <2>3
<1>2. ASSUME NEW q \in 0 .. 14, q \in P PROVE q + 1 \in P
  <2> SUFFICES ASSUME NEW x \in Nat PROVE ClearBit(x, q + 1) \in Nat /\ Clears(x, q + 1)
    BY DEF BitNumber
  <2>1. PICK y : y = ClearBit(x, q + 1)
    OBVIOUS
  <2>2. PICK h \in Nat : h = x \div 2
    OBVIOUS
  <2>3. y \in Nat /\ y % 2 = x % 2 /\ y \div 2 = ClearBit(h, q)
    BY <2>1, <2>2, HalfOfClear
  <2>4. Clears(h, q)
    BY <1>2
  <2>5. ASSUME NEW j \in BitNumber PROVE HasBit(y, j) <=> j # q + 1 /\ HasBit(x, j)
    <3>1. CASE j = 0
      BY <2>3, <3>1, BitOfHalf
    <3>2. CASE j # 0
      <4>1. PICK i \in 0 .. 14 : j = i + 1
        BY <3>2 DEF BitNumber
      <4>2. HasBit(y, j) <=> HasBit(ClearBit(h, q), i)
        BY <2>3, <4>1, BitOfHalf
      <4>3. HasBit(x, j) <=> HasBit(h, i)
        BY <2>2, <4>1, BitOfHalf
      <4>4. HasBit(ClearBit(h, q), i) <=> i # q /\ HasBit(h, i)
        BY <2>4 DEF BitNumber
      <4> QED BY <4>1, <4>2, <4>3, <4>4
    <3> QED BY <3>1, <3>2
  <2> QED BY <2>1, <2>3, <2>5
<1> HIDE DEF P
<1>3. p \in P
  BY <1>1, <1>2, EveryBit
<1> QED BY <1>3 DEF P

\* The maps of 16 bits.
Word == {b \in Nat : b < 65536}

\* The map stays one of 16 bits.
LEMMA WordKept ==
  ASSUME NEW b \in Word, NEW p \in BitNumber
  PROVE  SetBit(b, p) \in Word /\ ClearBit(b, p) \in Word
<1>1. b \in Nat /\ b < 65536
  BY DEF Word
<1>2. p \in {0, 1, 2, 3, 4, 5, 6, 7, 8, 9, 10, 11, 12, 13, 14, 15}
  BY DEF BitNumber
<1>3. PICK m \in Nat : m = PRIMAP_BIT(p) /\ m > 0
  BY BitDoubles
<1>4. m \in {1, 2, 4, 8, 16, 32, 64, 128, 256, 512, 1024, 2048, 4096, 8192, 16384, 32768}
  BY <1>2, <1>3, Bits
<1>5. (b \div m) % 2 # 1 => b + m < 65536
  BY <1>1, <1>4
<1>6. SetBit(b, p) < 65536 /\ ClearBit(b, p) < 65536
  BY <1>1, <1>3, <1>5 DEF SetBit, ClearBit, HasBit
<1> QED BY <1>1, <1>6, SetBitFacts, ClearBitFacts DEF Word

\* A bit that is set is not above the highest power in the map.
LEMMA HighestBit ==
  ASSUME NEW b \in Word, NEW s \in BitNumber, PRIMAP_BIT(s) <= b, b < 2 * PRIMAP_BIT(s)
  PROVE  HasBit(b, s) /\ \A k \in BitNumber : HasBit(b, k) => k <= s
<1>1. PICK m \in Nat : m = PRIMAP_BIT(s) /\ m > 0
  BY BitDoubles
<1>2. b \in Nat /\ m <= b /\ b < 2 * m
  BY <1>1 DEF Word
<1>3. b \div m = 1
  BY <1>1, <1>2
<1>4. ASSUME NEW k \in BitNumber, s < k PROVE ~ HasBit(b, k)
  <2>1. PICK n \in Nat : n = PRIMAP_BIT(k) /\ n > 0
    BY BitDoubles
  <2>2. 2 * m <= n
    <3>1. /\ s \in {0, 1, 2, 3, 4, 5, 6, 7, 8, 9, 10, 11, 12, 13, 14, 15}
          /\ k \in {0, 1, 2, 3, 4, 5, 6, 7, 8, 9, 10, 11, 12, 13, 14, 15}
      BY DEF BitNumber
    <3> QED BY <1>1, <1>4, <2>1, <3>1, Bits
  <2>3. b < n
    BY <1>2, <2>1, <2>2
  <2>4. b \div n = 0
    BY <1>2, <2>1, <2>3, LessDivided
  <2> QED BY <2>1, <2>4 DEF HasBit
<1>5. HasBit(b, s)
  BY <1>1, <1>3 DEF HasBit
<1>6. \A k \in BitNumber : s < k \/ k <= s
  BY DEF BitNumber
<1> QED BY <1>4, <1>5, <1>6

\* bitmap_search finds the highest bit of a map that is not empty.
LEMMA SearchedBit ==
  ASSUME NEW b \in Word, b # 0
  PROVE  /\ bitmap_search(b) \in BitNumber /\ HasBit(b, bitmap_search(b))
         /\ \A k \in BitNumber : HasBit(b, k) => k <= bitmap_search(b)
<1>1. b \in BitMaps
  BY DEF Word, BitMaps
<1>2. PICK s : s = bitmap_search(b)
  OBVIOUS
<1>3. s \in BitNumber /\ PRIMAP_BIT(s) <= b /\ b < 2 * PRIMAP_BIT(s)
  BY <1>1, <1>2, SearchIsHighest DEF BitNumber
<1> QED BY <1>2, <1>3, HighestBit

LEMMA NoBitOfZero ==
  ASSUME NEW k \in BitNumber
  PROVE  ~ HasBit(0, k)
<1>1. PICK m \in Nat : m = PRIMAP_BIT(k) /\ m > 0
  BY BitDoubles
<1>2. 0 \div m = 0
  BY <1>1
<1> QED BY <1>1, <1>2 DEF HasBit

--------------------------------------------------------------------------------
(* Walking a linked list. *)

TaskOrNull == TaskType \cup {TSKID_NULL}

\* Walk for any pointers: W is the table of the walks along next.
Walks(W, next) ==
  W = [n \in 0 .. tnum_task |-> [t \in TaskOrNull |->
         IF n = 0 \/ t = TSKID_NULL THEN << >> ELSE <<t>> \o W[n - 1][next[t]]]]

WalkFrom(next, t) == (CHOOSE W : Walks(W, next))[tnum_task][t]

\* What holds at 0, and at a number when it holds at the one before, holds up to N.
LEMMA CountUp ==
  ASSUME NEW N \in Nat, NEW P, 0 \in P, \A n \in 0 .. N : n # N /\ n \in P => n + 1 \in P
  PROVE  0 .. N \subseteq P
<1> DEFINE T == {n \in Nat : n <= N /\ n \notin P}
           R == {ss \in Nat \X Nat : ss[1] < ss[2]}
<1> SUFFICES ASSUME T # {} PROVE FALSE
  OBVIOUS
<1>1. T \subseteq Nat
  OBVIOUS
<1>2. IsWellFoundedOn(R, Nat)
  BY NatLessThanWellFounded DEF OpToRel
<1>3. PICK x \in T : \A y \in T : ~ (<<y, x>> \in R)
  <2> HIDE DEF T, R
  <2> QED BY <1>1, <1>2, WFMin
<1>4. x \in Nat /\ x <= N /\ x \notin P /\ x # 0
  OBVIOUS
<1>5. PICK y \in 0 .. N : x = y + 1 /\ y # N
  <2>1. x - 1 \in 0 .. N /\ x = (x - 1) + 1 /\ x - 1 # N
    BY <1>4
  <2> QED BY <2>1
<1>6. y \notin P
  BY <1>4, <1>5
<1>7. y \in T /\ y < x
  BY <1>5, <1>6
<1> QED BY <1>3, <1>7

\* The recursion of Walk has a solution.
LEMMA WalkExists ==
  ASSUME NEW next \in [TaskType -> TaskOrNull]
  PROVE  \E W : Walks(W, next)
<1> DEFINE step(g, n, t) ==
             IF n = 0 \/ t = TSKID_NULL THEN << >> ELSE <<t>> \o g[n - 1][next[t]]
           upto(g, m) == g = [n \in 0 .. m |-> [t \in TaskOrNull |-> step(g, n, t)]]
           P == {m \in 0 .. tnum_task : \E g : upto(g, m)}
<1>0. tnum_task \in Nat
  BY TaskTable
<1>1. 0 \in P
  <2>1. PICK g : g = [n \in 0 .. 0 |-> [t \in TaskOrNull |-> << >>]]
    OBVIOUS
  <2>2. upto(g, 0)
    BY <2>1
  <2> QED BY <1>0, <2>2
<1>2. ASSUME NEW m \in 0 .. tnum_task, m # tnum_task, m \in P PROVE m + 1 \in P
  <2>1. PICK g : upto(g, m)
    BY <1>2
  <2>2. PICK h : h = [n \in 0 .. m + 1 |-> [t \in TaskOrNull |-> step(g, n, t)]]
    OBVIOUS
  <2>3. ASSUME NEW n \in 0 .. m, NEW t \in TaskOrNull PROVE h[n][t] = g[n][t]
    <3>1. h[n][t] = step(g, n, t)
      BY <2>2
    <3>2. g[n][t] = step(g, n, t)
      <4> HIDE DEF step
      <4> QED BY <2>1
    <3> QED BY <3>1, <3>2
  <2>4. ASSUME NEW n \in 0 .. m + 1, NEW t \in TaskOrNull PROVE step(g, n, t) = step(h, n, t)
    <3>1. CASE n = 0 \/ t = TSKID_NULL
      BY <3>1
    <3>2. CASE ~ (n = 0 \/ t = TSKID_NULL)
      <4>1. n - 1 \in 0 .. m /\ next[t] \in TaskOrNull
        BY <3>2 DEF TaskOrNull
      <4> QED BY <2>3, <4>1
    <3> QED BY <3>1, <3>2
  <2>5. upto(h, m + 1)
    <3> HIDE DEF step
    <3> QED BY <2>2, <2>4
  <2>6. m + 1 \in 0 .. tnum_task
    BY <1>0, <1>2
  <2> QED BY <2>5, <2>6
<1>3. tnum_task \in P
  <2> HIDE DEF P
  <2> QED BY <1>0, <1>1, <1>2, CountUp
<1> QED BY <1>3 DEF Walks

\* Task i of a queue, and the end of the list behind the last.
At(q, i) == IF i \in 1 .. Len(q) THEN q[i] ELSE TSKID_NULL

\* A queue without repetitions is not longer than the table of tasks.
LEMMA ShortQueue ==
  ASSUME NEW q \in Seq(TaskType), Distinct(q)
  PROVE  Len(q) <= tnum_task
<1> DEFINE n == Len(q)
           S == 1 .. n
<1>1. n \in Nat /\ tnum_task \in Nat /\ tnum_task >= 1
  BY TaskTable
<1>2. IsFiniteSet(S) /\ Cardinality(S) = n
  <2>1. 1 \in Int /\ n \in Int
    BY <1>1
  <2>2. IsFiniteSet(1 .. n) /\ Cardinality(1 .. n) = IF 1 > n THEN 0 ELSE n - 1 + 1
    BY <2>1, FS_Interval
  <2> QED BY <1>1, <2>2
<1>3. IsFiniteSet(TaskType) /\ Cardinality(TaskType) = tnum_task
  <2>1. 0 \in Int /\ tnum_task - 1 \in Int
    BY <1>1
  <2>2. /\ IsFiniteSet(0 .. tnum_task - 1)
        /\ Cardinality(0 .. tnum_task - 1)
             = IF 0 > tnum_task - 1 THEN 0 ELSE (tnum_task - 1) - 0 + 1
    BY <2>1, FS_Interval
  <2> QED BY <1>1, <2>2 DEF TaskType
<1>4. q \in [S -> TaskType]
  OBVIOUS
<1> SUFFICES ASSUME tnum_task < n PROVE FALSE
  BY <1>1
<1>5. PICK i, j \in S : i # j /\ q[i] = q[j]
  <2> HIDE DEF S, n
  <2> QED BY <1>2, <1>3, <1>4, FS_PigeonHole
<1> QED BY <1>5 DEF Distinct

\* The walk along the pointers of a queue, from its first task, is the queue.
LEMMA WalkIsQueue ==
  ASSUME NEW next \in [TaskType -> TaskOrNull], NEW q \in Seq(TaskType), Distinct(q),
         \A i \in 1 .. Len(q) : next[q[i]] = At(q, i + 1)
  PROVE  WalkFrom(next, At(q, 1)) = q
<1>1. PICK W : W = CHOOSE V : Walks(V, next)
  OBVIOUS
<1>2. Walks(W, next)
  BY <1>1, WalkExists
<1>3. \A n \in 0 .. tnum_task : \A t \in TaskOrNull :
        W[n][t] = IF n = 0 \/ t = TSKID_NULL THEN << >> ELSE <<t>> \o W[n - 1][next[t]]
  <2> DEFINE step(n, t) == IF n = 0 \/ t = TSKID_NULL THEN << >> ELSE <<t>> \o W[n - 1][next[t]]
  <2>1. W = [n \in 0 .. tnum_task |-> [t \in TaskOrNull |-> step(n, t)]]
    BY <1>2 DEF Walks
  <2> HIDE DEF step
  <2>2. \A n \in 0 .. tnum_task : \A t \in TaskOrNull : W[n][t] = step(n, t)
    BY <2>1
  <2> QED BY <2>2 DEF step
<1>4. PICK k : k = Len(q) /\ k \in Nat /\ k <= tnum_task
  BY ShortQueue
<1>5. tnum_task \in Nat
  BY TaskTable
<1>6. \A i \in 1 .. k : At(q, i) = q[i] /\ q[i] \in TaskType /\ q[i] # TSKID_NULL
  BY <1>4, Tables DEF At
<1>7. At(q, k + 1) = TSKID_NULL
  BY <1>4 DEF At
<1>14. \A n \in 0 .. tnum_task : W[n][TSKID_NULL] = << >>
  BY <1>3 DEF TaskOrNull
<1>15. \A n \in 0 .. tnum_task : \A t \in TaskType :
         n # 0 => W[n][t] = <<t>> \o W[n - 1][next[t]]
  BY <1>3, Tables DEF TaskOrNull
<1> DEFINE Rest(s, i) == /\ s \in Seq(TaskType) /\ Len(s) = k - i + 1
                         /\ \A j \in 1 .. Len(s) : s[j] = q[i + j - 1]
           P == {n \in 0 .. tnum_task :
                   \A i \in 1 .. k + 1 : k - i + 1 <= n => Rest(W[n][At(q, i)], i)}
<1>8. 0 \in P
  <2> SUFFICES ASSUME NEW i \in 1 .. k + 1, k - i + 1 <= 0 PROVE Rest(W[0][At(q, i)], i)
    BY <1>5
  <2>1. i = k + 1
    BY <1>4
  <2>2. W[0][At(q, i)] = << >>
    BY <1>5, <1>7, <1>14, <2>1
  <2>3. << >> \in Seq(TaskType) /\ Len(<< >>) = 0
    OBVIOUS
  <2> QED BY <1>4, <2>1, <2>2, <2>3
<1>9. ASSUME NEW n \in 0 .. tnum_task, n # tnum_task, n \in P PROVE n + 1 \in P
  <2>1. n + 1 \in 0 .. tnum_task /\ n + 1 # 0 /\ (n + 1) - 1 = n
    BY <1>5, <1>9
  <2> SUFFICES ASSUME NEW i \in 1 .. k + 1, k - i + 1 <= n + 1
               PROVE  Rest(W[n + 1][At(q, i)], i)
    BY <2>1
  <2>2. CASE i = k + 1
    <3>1. W[n + 1][At(q, i)] = << >>
      BY <1>7, <1>14, <2>1, <2>2
    <3>2. << >> \in Seq(TaskType) /\ Len(<< >>) = 0
      OBVIOUS
    <3> QED BY <1>4, <2>2, <3>1, <3>2
  <2>3. CASE i # k + 1
    <3>1. i \in 1 .. k /\ i + 1 \in 1 .. k + 1 /\ k - (i + 1) + 1 <= n
      BY <1>4, <2>3
    <3>2. PICK s : s = W[n][At(q, i + 1)]
      OBVIOUS
    <3>3. Rest(s, i + 1)
      BY <1>9, <3>1, <3>2
    <3>4. next[q[i]] = At(q, i + 1)
      BY <1>4, <3>1
    <3>5. W[n + 1][At(q, i)] = <<q[i]>> \o s
      <4>1. At(q, i) = q[i] /\ q[i] \in TaskType
        BY <1>6, <3>1
      <4>2. W[n + 1][q[i]] = <<q[i]>> \o W[n][next[q[i]]]
        BY <1>15, <2>1, <4>1
      <4> QED BY <3>2, <3>4, <4>1, <4>2
    <3>6. PICK u : u = <<q[i]>> \o s
      OBVIOUS
    <3>7. /\ u \in Seq(TaskType) /\ Len(u) = Len(s) + 1 /\ Len(s) \in Nat /\ u[1] = q[i]
          /\ \A j \in 1 .. Len(u) : j # 1 => j - 1 \in 1 .. Len(s) /\ u[j] = s[j - 1]
      BY <1>6, <3>1, <3>3, <3>6
    <3>8. \A j \in 1 .. Len(u) : u[j] = q[i + j - 1]
      <4> TAKE j \in 1 .. Len(u)
      <4>1. CASE j = 1
        BY <3>1, <3>7, <4>1
      <4>2. CASE j # 1
        <5>1. j - 1 \in 1 .. Len(s) /\ u[j] = s[j - 1]
          BY <3>7, <4>2
        <5>2. s[j - 1] = q[(i + 1) + (j - 1) - 1]
          BY <3>3, <5>1
        <5>3. (i + 1) + (j - 1) - 1 = i + j - 1
          BY <3>1, <3>7
        <5> QED BY <5>1, <5>2, <5>3
      <4> QED BY <4>1, <4>2
    <3>9. Len(u) = k - i + 1
      BY <1>4, <3>1, <3>3, <3>7
    <3> QED BY <3>5, <3>6, <3>7, <3>8, <3>9
  <2> QED BY <2>2, <2>3
<1>10. tnum_task \in P
  <2> HIDE DEF P
  <2>1. 0 .. tnum_task \subseteq P
    BY <1>5, <1>8, <1>9, CountUp
  <2>2. tnum_task \in 0 .. tnum_task
    BY <1>5
  <2> QED BY <2>1, <2>2
<1>11. Rest(W[tnum_task][At(q, 1)], 1)
  <2>1. \A i \in 1 .. k + 1 : k - i + 1 <= tnum_task => Rest(W[tnum_task][At(q, i)], i)
    BY <1>10
  <2>2. 1 \in 1 .. k + 1 /\ k - 1 + 1 <= tnum_task
    BY <1>4
  <2> HIDE DEF Rest, At, P
  <2> QED BY <2>1, <2>2
<1>12. \A j \in 1 .. k : W[tnum_task][At(q, 1)][j] = q[j]
  BY <1>4, <1>11
<1>13. W[tnum_task][At(q, 1)] = q
  <2> HIDE DEF P
  <2> QED BY <1>4, <1>11, <1>12, SeqEqual
<1> QED BY <1>1, <1>13 DEF WalkFrom

--------------------------------------------------------------------------------
(* The static variables of task.c stand for scheduler data: every list holds its queue *)
(* and ends, and the map has the bits of the queues that are not empty.                *)

StoredLists == [first    : [TaskPri -> TaskOrNull],
                last     : [TaskPri -> TaskType],
                next     : [TaskType -> TaskOrNull],
                primap   : Word,
                nextpri  : TaskPri,
                schedtsk : TaskOrNull]

\* The list p of s holds the queue q.
Chained(s, p, q) ==
  /\ s.first[p] = At(q, 1)
  /\ \A i \in 1 .. Len(q) : s.next[q[i]] = At(q, i + 1)
  /\ q # << >> => s.last[p] = q[Len(q)]

StandsFor(s, r) ==
  /\ s \in StoredLists
  /\ s.nextpri = r.nextpri /\ s.schedtsk = r.schedtsk
  /\ \A k \in BitNumber : HasBit(s.primap, k) <=> k \in r.primap
  /\ \A p \in TaskPri : Chained(s, p, r.queue[p])

\* The fields of the stored lists.
LEMMA StoredFields ==
  ASSUME NEW s \in StoredLists
  PROVE  /\ s.first \in [TaskPri -> TaskOrNull] /\ s.last \in [TaskPri -> TaskType]
         /\ s.next \in [TaskType -> TaskOrNull] /\ s.primap \in Word
         /\ s.nextpri \in TaskPri /\ s.schedtsk \in TaskOrNull
         /\ s = [first |-> s.first, last |-> s.last, next |-> s.next, primap |-> s.primap,
                 nextpri |-> s.nextpri, schedtsk |-> s.schedtsk]
BY DEF StoredLists

\* Every priority has a bit.
LEMMA PriorityBits == TaskPri \subseteq BitNumber
BY TaskTable DEF TaskPri, TPRI_MINTASK, TPRI_MAXTASK, BitNumber

\* An empty queue is a list without a first task.
LEMMA FirstOfEmpty ==
  ASSUME NEW q \in Seq(TaskType)
  PROVE  /\ At(q, 1) = TSKID_NULL <=> q = << >>
         /\ q # << >> => At(q, 1) = q[1] /\ At(q, 1) = Head(q) /\ q[1] \in TaskType
         /\ q # << >> => q[Len(q)] \in Elements(q) /\ Len(q) \in 1 .. Len(q)
<1>1. CASE q = << >>
  BY <1>1 DEF At
<1>2. CASE q # << >>
  <2>1. 1 \in 1 .. Len(q) /\ Len(q) \in 1 .. Len(q) /\ q[1] \in TaskType /\ Head(q) = q[1]
    BY <1>2
  <2>2. At(q, 1) = q[1]
    BY <2>1 DEF At
  <2>3. q[Len(q)] \in Elements(q)
    BY <2>1 DEF Elements
  <2>4. q[1] # TSKID_NULL
    BY <2>1, Tables
  <2> QED BY <1>2, <2>1, <2>2, <2>3, <2>4
<1> QED BY <1>1, <1>2

\* A list keeps its queue when its pointers and those of its tasks are left alone.
LEMMA ChainKept ==
  ASSUME NEW s, NEW s2, NEW p, NEW q, Chained(s, p, q),
         s2.first[p] = s.first[p], s2.last[p] = s.last[p],
         \A x \in Elements(q) : s2.next[x] = s.next[x]
  PROVE  Chained(s2, p, q)
<1>1. \A i \in 1 .. Len(q) : q[i] \in Elements(q)
  BY DEF Elements
<1> QED BY <1>1 DEF Chained

\* A list with a task put in front.
LEMMA ChainFirst ==
  ASSUME NEW s, NEW s2, NEW p, NEW q \in Seq(TaskType), NEW t \in TaskType, Chained(s, p, q),
         t \notin Elements(q),
         s2.first[p] = t, s2.next[t] = s.first[p],
         \A x \in Elements(q) : s2.next[x] = s.next[x],
         s2.last[p] = IF s.first[p] = TSKID_NULL THEN t ELSE s.last[p]
  PROVE  Chained(s2, p, <<t>> \o q)
<1>1. PICK c, n : c = <<t>> \o q /\ n = Len(q)
  OBVIOUS
<1>2. /\ n \in Nat /\ Len(c) = n + 1 /\ c[1] = t /\ c # << >>
      /\ \A i \in 1 .. n : c[i + 1] = q[i] /\ q[i] \in Elements(q)
  BY <1>1 DEF Elements
<1>3. ASSUME NEW i \in 0 .. n PROVE At(c, i + 2) = At(q, i + 1)
  <2>1. CASE i = n
    BY <1>1, <1>2, <2>1 DEF At
  <2>2. CASE i # n
    <3>1. i + 1 \in 1 .. n /\ i + 2 \in 1 .. n + 1 /\ (i + 1) + 1 = i + 2
      BY <1>2, <2>2
    <3> QED BY <1>1, <1>2, <3>1 DEF At
  <2> QED BY <2>1, <2>2
<1>4. At(c, 1) = t
  BY <1>2 DEF At
<1>5. ASSUME NEW i \in 1 .. n + 1 PROVE s2.next[c[i]] = At(c, i + 1)
  <2>1. CASE i = 1
    <3>1. At(c, 0 + 2) = At(q, 0 + 1)
      BY <1>2, <1>3
    <3> QED BY <1>2, <2>1, <3>1 DEF Chained
  <2>2. CASE i # 1
    <3>1. PICK j \in 1 .. n : i = j + 1
      <4>1. i - 1 \in 1 .. n /\ i = (i - 1) + 1
        BY <1>2, <2>2
      <4> QED BY <4>1
    <3>2. c[i] = q[j] /\ q[j] \in Elements(q)
      BY <1>2, <3>1
    <3>3. s.next[q[j]] = At(q, j + 1)
      BY <1>1 DEF Chained
    <3>4. At(c, j + 2) = At(q, j + 1) /\ i + 1 = j + 2
      BY <1>3, <3>1
    <3> QED BY <3>2, <3>3, <3>4
  <2> QED BY <2>1, <2>2
<1>6. s2.last[p] = c[n + 1]
  <2>1. s.first[p] = TSKID_NULL <=> q = << >>
    BY FirstOfEmpty DEF Chained
  <2>2. CASE q = << >>
    BY <1>1, <1>2, <2>1, <2>2
  <2>3. CASE q # << >>
    BY <1>1, <1>2, <2>1, <2>3, FirstOfEmpty DEF Chained
  <2> QED BY <2>2, <2>3
<1> QED BY <1>1, <1>2, <1>4, <1>5, <1>6 DEF Chained

\* A list with a task put behind the last.
LEMMA ChainLast ==
  ASSUME NEW s, NEW s2, NEW p, NEW q \in Seq(TaskType), NEW t \in TaskType, Chained(s, p, q),
         t \notin Elements(q), Distinct(q),
         s2.first[p] = IF s.first[p] = TSKID_NULL THEN t ELSE s.first[p],
         s2.last[p] = t, s2.next[t] = TSKID_NULL,
         \A x \in Elements(q) :
           s2.next[x] = IF s.first[p] # TSKID_NULL /\ x = s.last[p] THEN t ELSE s.next[x]
  PROVE  Chained(s2, p, Append(q, t))
<1>1. PICK c, n : c = Append(q, t) /\ n = Len(q)
  OBVIOUS
<1>2. /\ n \in Nat /\ Len(c) = n + 1 /\ c[n + 1] = t /\ c # << >>
      /\ \A i \in 1 .. n : c[i] = q[i] /\ q[i] \in Elements(q)
  BY <1>1 DEF Elements
<1>3. s.first[p] = TSKID_NULL <=> q = << >>
  BY FirstOfEmpty DEF Chained
<1>4. At(c, 1) = s2.first[p]
  <2>1. CASE q = << >>
    BY <1>1, <1>2, <1>3, <2>1 DEF At
  <2>2. CASE q # << >>
    <3>1. 1 \in 1 .. n
      BY <1>1, <2>2
    <3>2. At(c, 1) = q[1]
      BY <1>2, <3>1 DEF At
    <3> QED BY <1>3, <2>2, <3>2, FirstOfEmpty DEF Chained
  <2> QED BY <2>1, <2>2
<1>5. ASSUME NEW i \in 1 .. n + 1 PROVE s2.next[c[i]] = At(c, i + 1)
  <2>1. CASE i = n + 1
    BY <1>2, <2>1 DEF At
  <2>2. CASE i # n + 1
    <3>1. i \in 1 .. n /\ q # << >> /\ c[i] = q[i] /\ q[i] \in Elements(q)
      BY <1>1, <1>2, <2>2
    <3>2. s.last[p] = q[n] /\ n \in 1 .. n
      BY <1>1, <3>1, FirstOfEmpty DEF Chained
    <3>3. q[i] = q[n] <=> i = n
      BY <1>1, <3>1, <3>2 DEF Distinct
    <3>4. s2.next[c[i]] = IF i = n THEN t ELSE s.next[q[i]]
      BY <1>3, <3>1, <3>2, <3>3
    <3>5. s.next[q[i]] = At(q, i + 1)
      BY <1>1, <3>1 DEF Chained
    <3>6. i + 1 \in 1 .. n + 1 /\ (i # n => i + 1 \in 1 .. n)
      BY <1>2, <3>1
    <3>7. At(c, i + 1) = IF i = n THEN t ELSE q[i + 1]
      BY <1>2, <3>6 DEF At
    <3>8. i # n => At(q, i + 1) = q[i + 1]
      BY <1>1, <3>6 DEF At
    <3> QED BY <3>4, <3>5, <3>7, <3>8
  <2> QED BY <2>1, <2>2
<1> QED BY <1>1, <1>2, <1>4, <1>5 DEF Chained

\* A list without its first task.
LEMMA ChainTail ==
  ASSUME NEW s, NEW s2, NEW p, NEW q \in Seq(TaskType), Chained(s, p, q), q # << >>,
         s2.first[p] = s.next[s.first[p]], s2.last[p] = s.last[p], s2.next = s.next
  PROVE  /\ Chained(s2, p, Tail(q))
         /\ s.first[p] = Head(q)
         /\ s.next[s.first[p]] = TSKID_NULL <=> Tail(q) = << >>
<1>1. PICK c, n : c = Tail(q) /\ n = Len(q)
  OBVIOUS
<1>2. /\ n \in Nat /\ n >= 1 /\ c \in Seq(TaskType) /\ Len(c) = n - 1
      /\ \A i \in 1 .. n - 1 : c[i] = q[i + 1]
  BY <1>1
<1>3. \A i \in 1 .. n : At(c, i) = At(q, i + 1)
  <2> TAKE i \in 1 .. n
  <2>1. CASE i = n
    BY <1>1, <1>2, <2>1 DEF At
  <2>2. CASE i # n
    <3>1. i \in 1 .. n - 1 /\ i + 1 \in 1 .. n
      BY <1>2, <2>2
    <3> QED BY <1>1, <1>2, <3>1 DEF At
  <2> QED BY <2>1, <2>2
<1>4. s.first[p] = Head(q) /\ s.first[p] = q[1]
  BY FirstOfEmpty DEF Chained
<1>5. \A i \in 1 .. n : s.next[q[i]] = At(q, i + 1)
  BY <1>1 DEF Chained
<1>6. s.next[s.first[p]] = At(c, 1)
  BY <1>2, <1>3, <1>4, <1>5
<1>7. ASSUME NEW i \in 1 .. n - 1 PROVE s2.next[c[i]] = At(c, i + 1)
  <2>1. i + 1 \in 1 .. n /\ c[i] = q[i + 1]
    BY <1>2
  <2>2. s.next[q[i + 1]] = At(q, (i + 1) + 1)
    BY <1>5, <2>1
  <2> QED BY <1>3, <2>1, <2>2
<1>8. c # << >> => s2.last[p] = c[Len(c)]
  <2> HAVE c # << >>
  <2>1. n - 1 \in 1 .. n - 1 /\ (n - 1) + 1 = n
    BY <1>2
  <2> QED BY <1>1, <1>2, <2>1 DEF Chained
<1>9. At(c, 1) = TSKID_NULL <=> c = << >>
  BY <1>2, FirstOfEmpty
<1> QED BY <1>1, <1>2, <1>4, <1>6, <1>7, <1>8, <1>9 DEF Chained

\* The operators of OsekReadyList on the map are those of OsekBitmap.
LEMMA SameMap ==
  /\ \A b, p : Map!SetBit(b, p) = SetBit(b, p) /\ Map!ClearBit(b, p) = ClearBit(b, p)
  /\ \A b, p : Map!HasBit(b, p) <=> HasBit(b, p)
  /\ \A b : Map!bitmap_search(b) = bitmap_search(b)
<1>1. \A b, p : Map!HasBit(b, p) <=> HasBit(b, p)
  BY DEF Map!HasBit, HasBit, Map!PRIMAP_BIT, PRIMAP_BIT
<1>2. \A b, p : Map!SetBit(b, p) = SetBit(b, p) /\ Map!ClearBit(b, p) = ClearBit(b, p)
  BY <1>1 DEF Map!SetBit, SetBit, Map!ClearBit, ClearBit, Map!PRIMAP_BIT, PRIMAP_BIT
<1>3. \A b : Map!bitmap_search(b) = bitmap_search(b)
  BY DEF Map!bitmap_search, bitmap_search, Map!High, High, Map!Upper, Upper, Map!Byte, Byte,
         Map!Nibble, Nibble, Map!search_table, search_table
<1> QED BY <1>1, <1>2, <1>3

\* The queues of sound scheduler data are disjoint and hold no task twice.
LEMMA SoundQueues ==
  ASSUME NEW r, NEW pri, NEW X \in SUBSET TaskType, Sound(r, pri, X)
  PROVE  /\ r \in Scheduler
         /\ \A p \in TaskPri : /\ r.queue[p] \in Seq(TaskType) /\ Distinct(r.queue[p])
                               /\ Elements(r.queue[p]) \subseteq X
                               /\ \A x \in Elements(r.queue[p]) : pri[x] = p
BY DEF Sound, QueuesHold, Scheduler

\* The map with the bit of a priority that a queue has got.
LEMMA MapGains ==
  ASSUME NEW b \in Word, NEW P, \A k \in BitNumber : HasBit(b, k) <=> k \in P,
         NEW p \in TaskPri
  PROVE  /\ Map!SetBit(b, p) \in Word
         /\ \A k \in BitNumber : HasBit(Map!SetBit(b, p), k) <=> k \in P \cup {p}
<1>1. b \in Nat /\ p \in BitNumber
  BY PriorityBits DEF Word
<1>2. Map!SetBit(b, p) = SetBit(b, p)
  BY SameMap
<1>3. SetBit(b, p) \in Word
  BY <1>1, WordKept
<1>4. \A k \in BitNumber : HasBit(SetBit(b, p), k) <=> k = p \/ HasBit(b, k)
  BY <1>1, SetBitFacts
<1> QED BY <1>2, <1>3, <1>4

Store(F, L, N, M, a, u) ==
  [first |-> F, last |-> L, next |-> N, primap |-> M, nextpri |-> a, schedtsk |-> u]

\* The insertions with the update of the map that follows each.
StoreFirst(s, p, t) == [ready_insert_first(s, p, t) EXCEPT !.primap = Map!SetBit(@, p)]
StoreLast(s, p, t)  == [ready_insert_last(s, p, t) EXCEPT !.primap = Map!SetBit(@, p)]

\* The fields assigned one by one.
LEMMA FieldsFirst ==
  ASSUME NEW s \in StoredLists, NEW p, NEW t, NEW l,
         s.first[p] = TSKID_NULL => l = t, s.first[p] # TSKID_NULL => l = s.last[p]
  PROVE  StoreFirst(s, p, t)
           = Store([s.first EXCEPT ![p] = t], [s.last EXCEPT ![p] = l],
                   [s.next EXCEPT ![t] = s.first[p]], Map!SetBit(s.primap, p), s.nextpri,
                   s.schedtsk)
<1>0. PICK F, L, N, M, a, u : /\ F = s.first /\ L = s.last /\ N = s.next /\ M = s.primap
                              /\ a = s.nextpri /\ u = s.schedtsk
  OBVIOUS
<1>10. s = Store(F, L, N, M, a, u)
  BY <1>0, StoredFields DEF Store
<1>11. l = IF F[p] = TSKID_NULL THEN t ELSE L[p]
  BY <1>0
<1>12. PICK n : n = [N EXCEPT ![t] = F[p]]
  OBVIOUS
<1>1. PICK F2, L2, M2 : /\ F2 = [F EXCEPT ![p] = t] /\ L2 = [L EXCEPT ![p] = l]
                        /\ M2 = Map!SetBit(M, p)
  OBVIOUS
<1>2. PICK s1 : s1 = [s EXCEPT !.first[p] = t]
  OBVIOUS
<1>3. s1 = Store(F2, L, N, M, a, u)
  BY <1>1, <1>2, <1>10 DEF Store
<1>4. PICK s2 : s2 = [s1 EXCEPT !.next[t] = F[p]]
  OBVIOUS
<1>5. s2 = Store(F2, L, n, M, a, u)
  BY <1>3, <1>4, <1>12 DEF Store
<1>6. PICK s3 : s3 = [s2 EXCEPT !.last[p] = l]
  OBVIOUS
<1>7. s3 = Store(F2, L2, n, M, a, u)
  BY <1>1, <1>5, <1>6 DEF Store
<1>8. ready_insert_first(s, p, t) = s3
  BY <1>2, <1>4, <1>6, <1>10, <1>11 DEF ready_insert_first, Store
<1>9. [s3 EXCEPT !.primap = Map!SetBit(@, p)] = Store(F2, L2, n, M2, a, u)
  BY <1>1, <1>7 DEF Store
<1> QED BY <1>0, <1>1, <1>8, <1>9, <1>12 DEF StoreFirst

LEMMA FieldsLast ==
  ASSUME NEW F, NEW L, NEW N, NEW M, NEW a, NEW u, NEW s, s = Store(F, L, N, M, a, u),
         NEW p, NEW t, NEW f, f = (IF F[p] = TSKID_NULL THEN t ELSE F[p]),
         F \in [TaskPri -> TaskOrNull], p \in TaskPri,
         NEW n, n = (IF F[p] = TSKID_NULL THEN [N EXCEPT ![t] = TSKID_NULL]
                     ELSE [N EXCEPT ![L[p]] = t, ![t] = TSKID_NULL])
  PROVE  StoreLast(s, p, t) = Store([F EXCEPT ![p] = f], [L EXCEPT ![p] = t], n, Map!SetBit(M, p), a, u)
<1>1. PICK F2, L2, M2 : /\ F2 = [F EXCEPT ![p] = f] /\ L2 = [L EXCEPT ![p] = t]
                        /\ M2 = Map!SetBit(M, p)
  OBVIOUS
<1>2. PICK s3 : s3 = ready_insert_last(s, p, t)
  OBVIOUS
<1>3. ASSUME F[p] = TSKID_NULL PROVE s3 = Store(F2, L2, n, M, a, u)
  <2>1. PICK s1 : s1 = [s EXCEPT !.first[p] = t]
    OBVIOUS
  <2>2. s1 = Store(F2, L, N, M, a, u)
    BY <1>1, <1>3, <2>1 DEF Store
  <2>3. PICK s2 : s2 = [s1 EXCEPT !.last[p] = t]
    OBVIOUS
  <2>4. s2 = Store(F2, L2, N, M, a, u)
    BY <1>1, <2>2, <2>3 DEF Store
  <2>5. [s2 EXCEPT !.next[t] = TSKID_NULL] = Store(F2, L2, n, M, a, u)
    BY <1>3, <2>4 DEF Store
  <2>6. s3 = [s2 EXCEPT !.next[t] = TSKID_NULL]
    BY <1>2, <1>3, <2>1, <2>3 DEF ready_insert_last, Store
  <2> QED BY <2>5, <2>6
<1>4. ASSUME F[p] # TSKID_NULL PROVE s3 = Store(F2, L2, n, M, a, u)
  <2>1. F2 = F
    BY <1>1, <1>4
  <2>2. PICK s1 : s1 = [s EXCEPT !.next = n]
    OBVIOUS
  <2>3. s1 = Store(F2, L, n, M, a, u)
    BY <2>1, <2>2 DEF Store
  <2>4. [s1 EXCEPT !.last[p] = t] = Store(F2, L2, n, M, a, u)
    BY <1>1, <2>3 DEF Store
  <2>5. s3 = [s1 EXCEPT !.last[p] = t]
    BY <1>2, <1>4, <2>2 DEF ready_insert_last, Store
  <2> QED BY <2>4, <2>5
<1>5. s3 = Store(F2, L2, n, M, a, u)
  BY <1>3, <1>4
<1>6. [s3 EXCEPT !.primap = Map!SetBit(@, p)] = Store(F2, L2, n, M2, a, u)
  BY <1>1, <1>5 DEF Store
<1> QED BY <1>1, <1>2, <1>6 DEF StoreLast

\* ready_insert_first and the update of the map.
LEMMA StoredFirst ==
  ASSUME NEW s, NEW r, NEW pri, NEW X \in SUBSET TaskType, StandsFor(s, r), Sound(r, pri, X),
         NEW t \in TaskType, t \notin X, NEW p \in TaskPri
  PROVE  StandsFor(StoreFirst(s, p, t), InsertFirst(r, p, t))
<1>1. PICK s2, r2 : s2 = StoreFirst(s, p, t) /\ r2 = InsertFirst(r, p, t)
  OBVIOUS
<1>2. s \in StoredLists /\ r \in Scheduler
  BY SoundQueues DEF StandsFor
<1>3. PICK l, b : /\ l = (IF s.first[p] = TSKID_NULL THEN t ELSE s.last[p])
                  /\ b = Map!SetBit(s.primap, p)
  OBVIOUS
<1>4. s2 = [first |-> [s.first EXCEPT ![p] = t], last |-> [s.last EXCEPT ![p] = l],
            next |-> [s.next EXCEPT ![t] = s.first[p]], primap |-> b,
            nextpri |-> s.nextpri, schedtsk |-> s.schedtsk]
  <2>1. s = Store(s.first, s.last, s.next, s.primap, s.nextpri, s.schedtsk)
    BY <1>2, StoredFields DEF Store
  <2>2. s2 = Store([s.first EXCEPT ![p] = t], [s.last EXCEPT ![p] = l],
                   [s.next EXCEPT ![t] = s.first[p]], b, s.nextpri, s.schedtsk)
    <3>1. /\ s.first[p] = TSKID_NULL => l = t
          /\ s.first[p] # TSKID_NULL => l = s.last[p]
      BY <1>3
    <3>2. s2 = Store([s.first EXCEPT ![p] = t], [s.last EXCEPT ![p] = l],
                     [s.next EXCEPT ![t] = s.first[p]], Map!SetBit(s.primap, p), s.nextpri,
                     s.schedtsk)
      BY <1>1, <1>2, <3>1, FieldsFirst
    <3> QED BY <1>3, <3>2
  <2> QED BY <2>2 DEF Store
<1>5. r2 = [queue |-> [r.queue EXCEPT ![p] = <<t>> \o r.queue[p]],
            primap |-> r.primap \cup {p}, nextpri |-> r.nextpri, schedtsk |-> r.schedtsk]
  BY <1>1, <1>2 DEF InsertFirst, Scheduler
<1>6. b \in Word /\ \A k \in BitNumber : HasBit(b, k) <=> k \in r2.primap
  BY <1>2, <1>3, <1>5, MapGains DEF StandsFor, StoredLists
<1>7. /\ s.first \in [TaskPri -> TaskOrNull] /\ s.last \in [TaskPri -> TaskType]
      /\ s.next \in [TaskType -> TaskOrNull] /\ r.queue \in [TaskPri -> Seq(TaskType)]
      /\ s.nextpri \in TaskPri /\ s.schedtsk \in TaskOrNull
  BY <1>2, StoredFields DEF Scheduler
<1>8. l \in TaskType /\ t \in TaskOrNull
  BY <1>3, <1>7 DEF TaskOrNull
<1>9. s2 \in StoredLists
  BY <1>4, <1>6, <1>7, <1>8 DEF StoredLists
<1>10. ASSUME NEW k \in TaskPri PROVE Chained(s2, k, r2.queue[k])
  <2>1. /\ r.queue[k] \in Seq(TaskType) /\ t \notin Elements(r.queue[k])
        /\ Elements(r.queue[k]) \subseteq TaskType /\ Chained(s, k, r.queue[k])
    BY SoundQueues DEF StandsFor
  <2>2. \A x \in Elements(r.queue[k]) : s2.next[x] = s.next[x]
    BY <1>4, <1>7, <2>1
  <2>3. CASE k = p
    <3>1. s2.first[k] = t /\ s2.last[k] = l /\ s2.next[t] = s.first[k]
      BY <1>4, <1>7, <2>3
    <3>2. r2.queue[k] = <<t>> \o r.queue[k]
      BY <1>5, <1>7, <2>3
    <3>3. PICK q \in Seq(TaskType) : q = r.queue[k]
      BY <2>1
    <3>4. s2.last[k] = IF s.first[k] = TSKID_NULL THEN t ELSE s.last[k]
      BY <1>3, <2>3, <3>1
    <3>5. /\ Chained(s, k, q) /\ t \notin Elements(q)
          /\ \A x \in Elements(q) : s2.next[x] = s.next[x]
      BY <2>1, <2>2, <3>3
    <3>6. Chained(s2, k, <<t>> \o q)
      BY <3>1, <3>4, <3>5, ChainFirst
    <3> QED BY <3>2, <3>3, <3>6
  <2>4. CASE k # p
    <3>1. s2.first[k] = s.first[k] /\ s2.last[k] = s.last[k] /\ r2.queue[k] = r.queue[k]
      BY <1>4, <1>5, <1>7, <2>4
    <3> QED BY <2>1, <2>2, <3>1, ChainKept
  <2> QED BY <2>3, <2>4
<1>11. s2.nextpri = r2.nextpri /\ s2.schedtsk = r2.schedtsk /\ s2.primap = b
  BY <1>4, <1>5 DEF StandsFor
<1> QED BY <1>1, <1>6, <1>9, <1>10, <1>11 DEF StandsFor

\* ready_insert_last and the update of the map.
LEMMA StoredLast ==
  ASSUME NEW s, NEW r, NEW pri, NEW X \in SUBSET TaskType, StandsFor(s, r), Sound(r, pri, X),
         NEW t \in TaskType, t \notin X, NEW p \in TaskPri
  PROVE  StandsFor(StoreLast(s, p, t), InsertLast(r, p, t))
<1>1. PICK s2, r2 : s2 = StoreLast(s, p, t) /\ r2 = InsertLast(r, p, t)
  OBVIOUS
<1>2. s \in StoredLists /\ r \in Scheduler
  BY SoundQueues DEF StandsFor
<1>3. PICK f, n, b : /\ f = (IF s.first[p] = TSKID_NULL THEN t ELSE s.first[p])
                     /\ n = (IF s.first[p] = TSKID_NULL THEN [s.next EXCEPT ![t] = TSKID_NULL]
                             ELSE [s.next EXCEPT ![s.last[p]] = t, ![t] = TSKID_NULL])
                     /\ b = Map!SetBit(s.primap, p)
  OBVIOUS
<1>4. s2 = [first |-> [s.first EXCEPT ![p] = f], last |-> [s.last EXCEPT ![p] = t],
            next |-> n, primap |-> b, nextpri |-> s.nextpri, schedtsk |-> s.schedtsk]
  <2>1. s = Store(s.first, s.last, s.next, s.primap, s.nextpri, s.schedtsk)
    BY <1>2, StoredFields DEF Store
  <2>2. s.first \in [TaskPri -> TaskOrNull]
    BY <1>2, StoredFields
  <2>3. s2 = Store([s.first EXCEPT ![p] = f], [s.last EXCEPT ![p] = t], n, b, s.nextpri,
                   s.schedtsk)
    BY <1>1, <1>3, <2>1, <2>2, FieldsLast
  <2> QED BY <2>3 DEF Store
<1>5. r2 = [queue |-> [r.queue EXCEPT ![p] = Append(r.queue[p], t)],
            primap |-> r.primap \cup {p}, nextpri |-> r.nextpri, schedtsk |-> r.schedtsk]
  BY <1>1, <1>2 DEF InsertLast, Scheduler
<1>6. b \in Word /\ \A k \in BitNumber : HasBit(b, k) <=> k \in r2.primap
  BY <1>2, <1>3, <1>5, MapGains DEF StandsFor, StoredLists
<1>7. /\ s.first \in [TaskPri -> TaskOrNull] /\ s.last \in [TaskPri -> TaskType]
      /\ s.next \in [TaskType -> TaskOrNull] /\ r.queue \in [TaskPri -> Seq(TaskType)]
      /\ s.nextpri \in TaskPri /\ s.schedtsk \in TaskOrNull
  BY <1>2, StoredFields DEF Scheduler
<1>8. /\ f \in TaskOrNull /\ t \in TaskOrNull /\ TSKID_NULL \in TaskOrNull
      /\ n \in [TaskType -> TaskOrNull] /\ s.last[p] \in TaskType
  BY <1>3, <1>7 DEF TaskOrNull
<1>9. s2 \in StoredLists
  BY <1>4, <1>6, <1>7, <1>8 DEF StoredLists
<1>12. /\ n[t] = TSKID_NULL
       /\ \A x \in TaskType : x # t =>
            n[x] = IF s.first[p] # TSKID_NULL /\ x = s.last[p] THEN t ELSE s.next[x]
  BY <1>3, <1>7, <1>8
<1>10. ASSUME NEW k \in TaskPri PROVE Chained(s2, k, r2.queue[k])
  <2>1. /\ r.queue[k] \in Seq(TaskType) /\ t \notin Elements(r.queue[k])
        /\ Elements(r.queue[k]) \subseteq TaskType /\ Chained(s, k, r.queue[k])
        /\ Distinct(r.queue[k]) /\ \A x \in Elements(r.queue[k]) : pri[x] = k
    BY SoundQueues DEF StandsFor
  <2>3. CASE k = p
    <3>1. s2.first[k] = f /\ s2.last[k] = t /\ s2.next = n
      BY <1>4, <1>7, <2>3
    <3>2. r2.queue[k] = Append(r.queue[k], t)
      BY <1>5, <1>7, <2>3
    <3>3. \A x \in Elements(r.queue[k]) :
            s2.next[x] = IF s.first[k] # TSKID_NULL /\ x = s.last[k] THEN t ELSE s.next[x]
      BY <1>12, <2>1, <2>3, <3>1
    <3>4. PICK q \in Seq(TaskType) : q = r.queue[k]
      BY <2>1
    <3>5. s2.first[k] = (IF s.first[k] = TSKID_NULL THEN t ELSE s.first[k])
          /\ s2.last[k] = t /\ s2.next[t] = TSKID_NULL
      BY <1>3, <1>12, <2>3, <3>1
    <3>6. /\ Chained(s, k, q) /\ t \notin Elements(q) /\ Distinct(q)
          /\ \A x \in Elements(q) :
               s2.next[x] = IF s.first[k] # TSKID_NULL /\ x = s.last[k] THEN t ELSE s.next[x]
      BY <2>1, <3>3, <3>4
    <3>7. Chained(s2, k, Append(q, t))
      BY <3>5, <3>6, ChainLast
    <3> QED BY <3>2, <3>4, <3>7
  <2>4. CASE k # p
    <3>1. s2.first[k] = s.first[k] /\ s2.last[k] = s.last[k] /\ r2.queue[k] = r.queue[k]
          /\ s2.next = n
      BY <1>4, <1>5, <1>7, <2>4
    <3>2. s.first[p] # TSKID_NULL => s.last[p] \in Elements(r.queue[p])
      BY SoundQueues, FirstOfEmpty DEF StandsFor, Chained
    <3>3. \A x \in Elements(r.queue[p]) : pri[x] = p
      BY SoundQueues
    <3>4. \A x \in Elements(r.queue[k]) : s2.next[x] = s.next[x]
      BY <1>12, <2>1, <2>4, <3>1, <3>2, <3>3
    <3> QED BY <2>1, <3>1, <3>4, ChainKept
  <2> QED BY <2>3, <2>4
<1>11. s2.nextpri = r2.nextpri /\ s2.schedtsk = r2.schedtsk /\ s2.primap = b
  BY <1>4, <1>5 DEF StandsFor
<1> QED BY <1>1, <1>6, <1>9, <1>10, <1>11 DEF StandsFor

\* nextpri and schedtsk assigned.
LEMMA StoredChoice ==
  ASSUME NEW s, NEW r \in Scheduler, StandsFor(s, r), NEW n \in TaskPri, NEW u \in TaskOrNull
  PROVE  /\ StandsFor([s EXCEPT !.nextpri = n, !.schedtsk = u],
                      [r EXCEPT !.nextpri = n, !.schedtsk = u])
         /\ StandsFor([s EXCEPT !.nextpri = n], [r EXCEPT !.nextpri = n])
         /\ StandsFor([s EXCEPT !.schedtsk = u], [r EXCEPT !.schedtsk = u])
<1>1. /\ s = [first |-> s.first, last |-> s.last, next |-> s.next, primap |-> s.primap,
              nextpri |-> s.nextpri, schedtsk |-> s.schedtsk]
      /\ s.first \in [TaskPri -> TaskOrNull] /\ s.last \in [TaskPri -> TaskType]
      /\ s.next \in [TaskType -> TaskOrNull] /\ s.primap \in Word
      /\ s.nextpri \in TaskPri /\ s.schedtsk \in TaskOrNull
  BY StoredFields DEF StandsFor
<1>2. r = [queue |-> r.queue, primap |-> r.primap, nextpri |-> r.nextpri,
           schedtsk |-> r.schedtsk]
  BY DEF Scheduler
<1>3. ASSUME NEW a \in TaskPri, NEW w \in TaskOrNull, NEW s2, NEW r2,
             s2 = [first |-> s.first, last |-> s.last, next |-> s.next, primap |-> s.primap,
                   nextpri |-> a, schedtsk |-> w],
             r2 = [queue |-> r.queue, primap |-> r.primap, nextpri |-> a, schedtsk |-> w]
      PROVE  StandsFor(s2, r2)
  <2>1. s2 \in StoredLists
    BY <1>1, <1>3 DEF StoredLists
  <2>2. \A p \in TaskPri : Chained(s2, p, r2.queue[p])
    BY <1>3 DEF StandsFor, Chained
  <2> QED BY <1>3, <2>1, <2>2 DEF StandsFor
<1>4. s.nextpri = r.nextpri /\ s.schedtsk = r.schedtsk
  BY DEF StandsFor
<1>5. StandsFor([s EXCEPT !.nextpri = n, !.schedtsk = u],
                [r EXCEPT !.nextpri = n, !.schedtsk = u])
  <2>1. PICK s1, r1 : s1 = [s EXCEPT !.nextpri = n] /\ r1 = [r EXCEPT !.nextpri = n]
    OBVIOUS
  <2>2. /\ s1 = [first |-> s.first, last |-> s.last, next |-> s.next, primap |-> s.primap,
                 nextpri |-> n, schedtsk |-> s.schedtsk]
        /\ r1 = [queue |-> r.queue, primap |-> r.primap, nextpri |-> n,
                 schedtsk |-> r.schedtsk]
    BY <1>1, <1>2, <2>1
  <2>3. /\ [s1 EXCEPT !.schedtsk = u]
             = [first |-> s.first, last |-> s.last, next |-> s.next, primap |-> s.primap,
                nextpri |-> n, schedtsk |-> u]
        /\ [r1 EXCEPT !.schedtsk = u]
             = [queue |-> r.queue, primap |-> r.primap, nextpri |-> n, schedtsk |-> u]
    BY <2>2
  <2>4. /\ [s EXCEPT !.nextpri = n, !.schedtsk = u] = [s1 EXCEPT !.schedtsk = u]
        /\ [r EXCEPT !.nextpri = n, !.schedtsk = u] = [r1 EXCEPT !.schedtsk = u]
    BY <2>1
  <2> QED BY <1>3, <2>3, <2>4
<1>6. StandsFor([s EXCEPT !.nextpri = n], [r EXCEPT !.nextpri = n])
  BY <1>1, <1>2, <1>3, <1>4
<1>7. StandsFor([s EXCEPT !.schedtsk = u], [r EXCEPT !.schedtsk = u])
  BY <1>1, <1>2, <1>3, <1>4
<1> QED BY <1>5, <1>6, <1>7

\* Writing p to the front of its list is what the functions below do first.
\* make_runnable.
LEMMA StoredArrival ==
  ASSUME NEW s, NEW r, NEW pri \in [TaskType -> TaskPri], NEW R \in SUBSET TaskType,
         StandsFor(s, r), Consistent(r, pri, R), NEW t \in TaskType, t \notin R
  PROVE  StandsFor(make_runnable(s, pri, t), MakeRunnable(r, pri, t))
<1>1. PICK u, X : u = s.schedtsk /\ X = R \ {u}
  OBVIOUS
<1>2. /\ r \in Scheduler /\ Sound(r, pri, X) /\ X \in SUBSET TaskType /\ t \notin X
      /\ u = r.schedtsk /\ u \in TaskOrNull /\ u \notin X /\ s.nextpri = r.nextpri
      /\ r.nextpri \in TaskPri /\ s \in StoredLists
  BY <1>1, SoundQueues DEF Consistent, StandsFor, StoredLists, Scheduler
<1>3. TaskPri \in SUBSET Nat /\ TSKID_NULL \notin TaskType /\ pri[t] \in TaskPri
  BY Tables
<1>4. PICK s2, r2 : s2 = make_runnable(s, pri, t) /\ r2 = MakeRunnable(r, pri, t)
  OBVIOUS
<1>5. CASE u = TSKID_NULL
  <2>1. s2 = [s EXCEPT !.schedtsk = t] /\ r2 = [r EXCEPT !.schedtsk = t]
    BY <1>1, <1>2, <1>4, <1>5 DEF make_runnable, MakeRunnable
  <2>2. t \in TaskOrNull
    BY DEF TaskOrNull
  <2>3. StandsFor([s EXCEPT !.schedtsk = t], [r EXCEPT !.schedtsk = t])
    BY <1>2, <2>2, StoredChoice
  <2> QED BY <1>4, <2>1, <2>3
<1>6. CASE u # TSKID_NULL /\ pri[t] <= pri[u]
  <2>1. PICK s1, r1, n : /\ s1 = StoreLast(s, pri[t], t) /\ r1 = InsertLast(r, pri[t], t)
                         /\ n = (IF pri[t] > r.nextpri THEN pri[t] ELSE r.nextpri)
    OBVIOUS
  <2>2. StandsFor(s1, r1)
    BY <1>2, <1>3, <2>1, StoredLast
  <2>3. Inserted(r1, r, pri, X, t, pri[t])
    BY <1>2, <1>3, <2>1, InsertLastFacts
  <2>4. r1 \in Scheduler /\ r1.nextpri = r.nextpri
    BY <2>3 DEF Inserted
  <2>5. r2 = [r1 EXCEPT !.nextpri = n]
    BY <1>1, <1>2, <1>4, <1>6, <2>1, <2>4 DEF MakeRunnable
  <2>6. n \in TaskPri
    BY <1>2, <1>3, <2>1
  <2>7. s2 = [s1 EXCEPT !.nextpri = n]
    <3>1. s1.nextpri = r.nextpri
      BY <2>2, <2>4 DEF StandsFor
    <3>2. s2 = [s1 EXCEPT !.nextpri = IF pri[t] > @ THEN pri[t] ELSE @]
      BY <1>1, <1>2, <1>4, <1>6, <2>1, <3>1 DEF make_runnable, StoreLast
    <3> QED BY <2>1, <3>1, <3>2
  <2>8. StandsFor([s1 EXCEPT !.nextpri = n], [r1 EXCEPT !.nextpri = n])
    BY <2>2, <2>4, <2>6, <1>2, StoredChoice
  <2> QED BY <1>4, <2>5, <2>7, <2>8
<1>7. CASE u # TSKID_NULL /\ ~ (pri[t] <= pri[u])
  <2>1. PICK s1, r1, p : s1 = StoreFirst(s, p, u) /\ r1 = InsertFirst(r, p, u) /\ p = pri[u]
    OBVIOUS
  <2>2. u \in TaskType /\ p \in TaskPri
    BY <1>2, <1>7, <2>1 DEF TaskOrNull
  <2>3. StandsFor(s1, r1)
    BY <1>2, <2>1, <2>2, StoredFirst
  <2>4. Inserted(r1, r, pri, X, u, p)
    BY <1>2, <2>1, <2>2, InsertFirstFacts
  <2>5. r1 \in Scheduler /\ t \in TaskOrNull
    BY <2>4 DEF Inserted, TaskOrNull
  <2>6. r2 = [r1 EXCEPT !.nextpri = p, !.schedtsk = t]
    BY <1>1, <1>2, <1>4, <1>7, <2>1 DEF MakeRunnable
  <2>7. s2 = [s1 EXCEPT !.nextpri = p, !.schedtsk = t]
    BY <1>1, <1>2, <1>4, <1>7, <2>1 DEF make_runnable, StoreFirst
  <2>8. StandsFor([s1 EXCEPT !.nextpri = p, !.schedtsk = t],
                  [r1 EXCEPT !.nextpri = p, !.schedtsk = t])
    BY <2>2, <2>3, <2>5, StoredChoice
  <2> QED BY <1>4, <2>6, <2>7, <2>8
<1> QED BY <1>5, <1>6, <1>7

\* The map b has the bits of the priorities P.
MapOf(b, P) == /\ b \in Word /\ P \in SUBSET TaskPri
               /\ \A k \in BitNumber : HasBit(b, k) <=> k \in P

\* The map is 0 when no queue has a task; otherwise bitmap_search finds the best of them.
LEMMA MapFacts ==
  ASSUME NEW b, NEW P, MapOf(b, P)
  PROVE  /\ b = 0 <=> P = {}
         /\ b # 0 => Map!bitmap_search(b) = Highest(P)
<1>1. /\ TaskPri \subseteq BitNumber /\ b \in Word /\ P \in SUBSET TaskPri
      /\ \A k \in BitNumber : HasBit(b, k) <=> k \in P
  BY PriorityBits DEF MapOf
<1>2. ASSUME b = 0, NEW k \in P PROVE FALSE
  <2>1. k \in BitNumber /\ HasBit(0, k)
    BY <1>1, <1>2
  <2> QED BY <2>1, NoBitOfZero
<1>3. ASSUME b # 0 PROVE P # {} /\ Map!bitmap_search(b) = Highest(P)
  <2>1. PICK s, h : s = bitmap_search(b) /\ h = Highest(P)
    OBVIOUS
  <2>2. s \in BitNumber /\ HasBit(b, s) /\ \A k \in BitNumber : HasBit(b, k) => k <= s
    BY <1>1, <1>3, <2>1, SearchedBit
  <2>3. s \in P /\ \A k \in P : k <= s
    BY <1>1, <2>2
  <2>4. h \in P /\ \A k \in P : k <= h
    BY <1>1, <2>1, <2>3, TaskTable, HighestFacts
  <2>5. s <= h /\ h <= s /\ s \in Nat /\ h \in Nat
    BY <1>1, <2>3, <2>4 DEF BitNumber
  <2>6. s = h
    BY <2>5
  <2> QED BY <2>1, <2>3, <2>6, SameMap
<1> QED BY <1>2, <1>3

\* The map without the bit of a queue that is empty now.
LEMMA MapLoses ==
  ASSUME NEW b, NEW P, MapOf(b, P), NEW p \in TaskPri
  PROVE  MapOf(Map!ClearBit(b, p), P \ {p})
<1>1. /\ b \in Nat /\ b \in Word /\ p \in BitNumber /\ P \ {p} \in SUBSET TaskPri
      /\ \A k \in BitNumber : HasBit(b, k) <=> k \in P
  BY PriorityBits DEF Word, MapOf
<1>2. PICK m : m = Map!ClearBit(b, p)
  OBVIOUS
<1>3. m = ClearBit(b, p)
  BY <1>2, SameMap
<1>4. m \in Word
  BY <1>1, <1>3, WordKept
<1>5. \A k \in BitNumber : HasBit(m, k) <=> k # p /\ HasBit(b, k)
  BY <1>1, <1>3, ClearBitFacts
<1> QED BY <1>1, <1>2, <1>4, <1>5 DEF MapOf

\* The queue n without its first task.
Taken(s, n) == [s EXCEPT !.schedtsk = s.first[n], !.first[n] = s.next[s.first[n]]]

LEMMA FieldsTaken ==
  ASSUME NEW s \in StoredLists, NEW n, NEW h, h = s.first[n]
  PROVE  Taken(s, n) = Store([s.first EXCEPT ![n] = s.next[h]], s.last, s.next, s.primap,
                             s.nextpri, h)
<1>1. s = Store(s.first, s.last, s.next, s.primap, s.nextpri, s.schedtsk)
  BY StoredFields DEF Store
<1>2. PICK F, L, N, M, a, u : /\ F = s.first /\ L = s.last /\ N = s.next /\ M = s.primap
                              /\ a = s.nextpri /\ u = s.schedtsk
  OBVIOUS
<1>3. s = Store(F, L, N, M, a, u)
  BY <1>1, <1>2
<1>4. PICK s1 : s1 = [s EXCEPT !.schedtsk = h]
  OBVIOUS
<1>5. s1 = Store(F, L, N, M, a, h)
  BY <1>3, <1>4 DEF Store
<1>6. [s1 EXCEPT !.first[n] = N[h]] = Store([F EXCEPT ![n] = N[h]], L, N, M, a, h)
  BY <1>5 DEF Store
<1>7. Taken(s, n) = [s1 EXCEPT !.first[n] = N[h]]
  BY <1>2, <1>4 DEF Taken
<1> QED BY <1>2, <1>6, <1>7

\* The map and nextpri assigned.
LEMMA StoredMap ==
  ASSUME NEW s, NEW r \in Scheduler, StandsFor(s, r), NEW m \in Word, NEW Q \in SUBSET TaskPri,
         \A k \in BitNumber : HasBit(m, k) <=> k \in Q, NEW n \in TaskPri
  PROVE  StandsFor([s EXCEPT !.primap = m, !.nextpri = n],
                   [r EXCEPT !.primap = Q, !.nextpri = n])
<1>1. PICK s1, s2, r2 : /\ s1 = [s EXCEPT !.primap = m]
                        /\ s2 = [s EXCEPT !.primap = m, !.nextpri = n]
                        /\ r2 = [r EXCEPT !.primap = Q, !.nextpri = n]
  OBVIOUS
<1>2. /\ s = [first |-> s.first, last |-> s.last, next |-> s.next, primap |-> s.primap,
              nextpri |-> s.nextpri, schedtsk |-> s.schedtsk]
      /\ s.first \in [TaskPri -> TaskOrNull] /\ s.last \in [TaskPri -> TaskType]
      /\ s.next \in [TaskType -> TaskOrNull] /\ s.schedtsk \in TaskOrNull
  BY StoredFields DEF StandsFor
<1>3. s1 = [first |-> s.first, last |-> s.last, next |-> s.next, primap |-> m,
            nextpri |-> s.nextpri, schedtsk |-> s.schedtsk]
  BY <1>1, <1>2
<1>4. [s1 EXCEPT !.nextpri = n]
        = [first |-> s.first, last |-> s.last, next |-> s.next, primap |-> m,
           nextpri |-> n, schedtsk |-> s.schedtsk]
  BY <1>3
<1>5. s2 = [s1 EXCEPT !.nextpri = n]
  BY <1>1
<1>6. r2 = [queue |-> r.queue, primap |-> Q, nextpri |-> n, schedtsk |-> r.schedtsk]
  BY <1>1 DEF Scheduler
<1>7. s2 \in StoredLists
  BY <1>2, <1>4, <1>5 DEF StoredLists
<1>8. \A p \in TaskPri : Chained(s2, p, r2.queue[p])
  BY <1>4, <1>5, <1>6 DEF StandsFor, Chained
<1>9. /\ s2.nextpri = r2.nextpri /\ s2.schedtsk = r2.schedtsk /\ s2.primap = m
      /\ r2.primap = Q
  BY <1>4, <1>5, <1>6 DEF StandsFor
<1> QED BY <1>1, <1>7, <1>8, <1>9 DEF StandsFor

\* ready_delete_first of the queue n.
TakenFrom(r, n) == [r EXCEPT !.schedtsk = Head(r.queue[n]), !.queue[n] = Tail(@)]

LEMMA StoredTaken ==
  ASSUME NEW s, NEW r, NEW pri, NEW X \in SUBSET TaskType, StandsFor(s, r), Sound(r, pri, X),
         NEW n \in TaskPri, r.queue[n] # << >>
  PROVE  /\ StandsFor(Taken(s, n), TakenFrom(r, n)) /\ TakenFrom(r, n) \in Scheduler
         /\ TakenFrom(r, n).queue[n] = Tail(r.queue[n])
         /\ s.next[s.first[n]] = TSKID_NULL <=> Tail(r.queue[n]) = << >>
<1>1. PICK s2, r2, h : s2 = Taken(s, n) /\ r2 = TakenFrom(r, n) /\ h = s.first[n]
  OBVIOUS
<1>2. s \in StoredLists /\ r \in Scheduler
  BY SoundQueues DEF StandsFor
<1>3. /\ s.first \in [TaskPri -> TaskOrNull] /\ s.last \in [TaskPri -> TaskType]
      /\ s.next \in [TaskType -> TaskOrNull] /\ s.primap \in Word /\ s.nextpri \in TaskPri
      /\ r.queue \in [TaskPri -> Seq(TaskType)] /\ r.primap \in SUBSET TaskPri
      /\ r.nextpri \in TaskPri
  BY <1>2, StoredFields DEF Scheduler
<1>4. PICK q \in Seq(TaskType) : q = r.queue[n]
  BY <1>3
<1>5. Chained(s, n, q) /\ q # << >>
  BY <1>4 DEF StandsFor
<1>6. h = Head(q) /\ h \in TaskType /\ s.next[h] \in TaskOrNull /\ Tail(q) \in Seq(TaskType)
  <2>1. h = Head(q) /\ h \in TaskType
    BY <1>1, <1>5, FirstOfEmpty DEF Chained
  <2>2. Tail(q) \in Seq(TaskType)
    BY <1>5, TailFacts
  <2> QED BY <1>3, <2>1, <2>2
<1>7. s2 = [first |-> [s.first EXCEPT ![n] = s.next[h]], last |-> s.last, next |-> s.next,
            primap |-> s.primap, nextpri |-> s.nextpri, schedtsk |-> h]
  BY <1>1, <1>2, FieldsTaken DEF Store
<1>8. r2 = [queue |-> [r.queue EXCEPT ![n] = Tail(q)], primap |-> r.primap,
            nextpri |-> r.nextpri, schedtsk |-> h]
  BY <1>1, <1>2, <1>4, <1>6 DEF TakenFrom, Scheduler
<1>9. s2 \in StoredLists
  BY <1>3, <1>6, <1>7 DEF StoredLists, TaskOrNull
<1>10. r2 \in Scheduler
  BY <1>3, <1>6, <1>8 DEF Scheduler
<1>11. s2.first[n] = s.next[s.first[n]] /\ s2.last[n] = s.last[n] /\ s2.next = s.next
  BY <1>1, <1>3, <1>7
<1>12. Chained(s2, n, Tail(q)) /\ (s.next[s.first[n]] = TSKID_NULL <=> Tail(q) = << >>)
  BY <1>5, <1>11, ChainTail
<1>13. ASSUME NEW k \in TaskPri PROVE Chained(s2, k, r2.queue[k])
  <2>1. CASE k = n
    <3>1. r2.queue[k] = Tail(q)
      BY <1>3, <1>8, <2>1
    <3> QED BY <1>12, <2>1, <3>1
  <2>2. CASE k # n
    <3>1. /\ s2.first[k] = s.first[k] /\ s2.last[k] = s.last[k] /\ s2.next = s.next
          /\ r2.queue[k] = r.queue[k]
      BY <1>3, <1>7, <1>8, <2>2
    <3>2. Chained(s, k, r.queue[k])
      BY DEF StandsFor
    <3> QED BY <3>1, <3>2, ChainKept
  <2> QED BY <2>1, <2>2
<1>14. /\ s2.nextpri = r2.nextpri /\ s2.schedtsk = r2.schedtsk
       /\ \A k \in BitNumber : HasBit(s2.primap, k) <=> k \in r2.primap
  BY <1>7, <1>8 DEF StandsFor
<1>15. StandsFor(s2, r2)
  BY <1>9, <1>13, <1>14 DEF StandsFor
<1>16. r2.queue[n] = Tail(q)
  BY <1>3, <1>8
<1> QED BY <1>1, <1>4, <1>10, <1>12, <1>15, <1>16

\* search_schedtsk.
LEMMA StoredSearch ==
  ASSUME NEW s, NEW r, NEW pri, NEW X \in SUBSET TaskType, StandsFor(s, r), Sound(r, pri, X)
  PROVE  StandsFor(search_schedtsk(s), SearchSchedtsk(r))
<1>1. /\ s \in StoredLists /\ r \in Scheduler /\ s.primap \in Word /\ s.nextpri \in TaskPri
      /\ r.primap \in SUBSET TaskPri /\ s.nextpri = r.nextpri /\ MapExact(r)
  BY SoundQueues, StoredFields DEF StandsFor, Sound, Scheduler
<1>2. PICK n, m, Q : /\ n = s.nextpri /\ m = Map!ClearBit(s.primap, n) /\ Q = r.primap \ {n}
  OBVIOUS
<1>3. /\ m \in Word /\ \A k \in BitNumber : HasBit(m, k) <=> k \in Q
      /\ m = 0 <=> Q = {}
      /\ s.primap = 0 <=> r.primap = {}
      /\ m # 0 => Map!bitmap_search(m) = Highest(Q)
  <2>1. MapOf(s.primap, r.primap) /\ n \in TaskPri
    BY <1>1, <1>2 DEF MapOf, StandsFor
  <2>2. MapOf(m, Q)
    BY <1>2, <2>1, MapLoses
  <2> QED BY <2>1, <2>2, MapFacts DEF MapOf
<1>4. PICK s2, r2 : s2 = search_schedtsk(s) /\ r2 = SearchSchedtsk(r)
  OBVIOUS
<1>5. CASE s.primap = 0
  <2>1. s2 = [s EXCEPT !.schedtsk = TSKID_NULL] /\ r2 = [r EXCEPT !.schedtsk = TSKID_NULL]
    BY <1>3, <1>4, <1>5 DEF search_schedtsk, SearchSchedtsk
  <2>2. TSKID_NULL \in TaskOrNull
    BY DEF TaskOrNull
  <2>3. StandsFor([s EXCEPT !.schedtsk = TSKID_NULL], [r EXCEPT !.schedtsk = TSKID_NULL])
    BY <1>1, <2>2, StoredChoice
  <2> QED BY <1>4, <2>1, <2>3
<1>6. CASE s.primap # 0
  <2>1. r.primap # {} /\ r.queue[n] # << >>
    BY <1>1, <1>2, <1>3, <1>6 DEF MapExact
  <2>2. PICK s1, r1 : s1 = Taken(s, n) /\ r1 = TakenFrom(r, n)
    OBVIOUS
  <2>3. /\ StandsFor(s1, r1) /\ r1 \in Scheduler /\ r1.queue[n] = Tail(r.queue[n])
        /\ s.next[s.first[n]] = TSKID_NULL <=> r1.queue[n] = << >>
    <3>1. n \in TaskPri
      BY <1>1, <1>2
    <3>2. /\ StandsFor(Taken(s, n), TakenFrom(r, n)) /\ TakenFrom(r, n) \in Scheduler
          /\ TakenFrom(r, n).queue[n] = Tail(r.queue[n])
          /\ s.next[s.first[n]] = TSKID_NULL <=> Tail(r.queue[n]) = << >>
      BY <2>1, <3>1, StoredTaken
    <3> QED BY <2>2, <3>2
  <2>4. PICK a : a = IF Q = {} THEN TPRI_MINTASK ELSE Highest(Q)
    OBVIOUS
  <2>5. s2 = IF s.next[s.first[n]] # TSKID_NULL THEN s1
             ELSE [s1 EXCEPT !.primap = m,
                             !.nextpri = IF m = 0 THEN TPRI_MINTASK ELSE Map!bitmap_search(m)]
    BY <1>2, <1>4, <1>6, <2>2 DEF search_schedtsk, Taken
  <2>6. r2 = IF r1.queue[n] # << >> THEN r1 ELSE [r1 EXCEPT !.primap = Q, !.nextpri = a]
    BY <1>1, <1>2, <1>4, <2>1, <2>2, <2>4 DEF SearchSchedtsk, TakenFrom
  <2>7. CASE r1.queue[n] # << >>
    BY <1>4, <2>3, <2>5, <2>6, <2>7
  <2>8. CASE r1.queue[n] = << >>
    <3>1. a = IF m = 0 THEN TPRI_MINTASK ELSE Map!bitmap_search(m)
      BY <1>3, <2>4
    <3>2. s2 = [s1 EXCEPT !.primap = m, !.nextpri = a]
      BY <2>3, <2>5, <2>8, <3>1
    <3>3. r2 = [r1 EXCEPT !.primap = Q, !.nextpri = a]
      BY <2>6, <2>8
    <3>4. a \in TaskPri /\ Q \in SUBSET TaskPri
      <4>1. Q \in SUBSET TaskPri
        BY <1>1, <1>2
      <4>2. Q # {} => Highest(Q) \in Q
        BY <4>1, TaskTable, HighestFacts
      <4>3. TPRI_MINTASK \in TaskPri
        BY TaskTable, SchedulerFields
      <4> QED BY <2>4, <4>1, <4>2, <4>3
    <3>5. StandsFor([s1 EXCEPT !.primap = m, !.nextpri = a],
                    [r1 EXCEPT !.primap = Q, !.nextpri = a])
      BY <1>3, <2>3, <3>4, StoredMap
    <3> QED BY <1>4, <3>2, <3>3, <3>5
  <2> QED BY <2>7, <2>8
<1> QED BY <1>5, <1>6

\* preempt.
LEMMA StoredYield ==
  ASSUME NEW s, NEW r, NEW pri \in [TaskType -> TaskPri], NEW X \in SUBSET TaskType,
         StandsFor(s, r), Sound(r, pri, X), r.schedtsk \in TaskType, r.schedtsk \notin X,
         r.primap # {}, pri[r.schedtsk] < r.nextpri
  PROVE  StandsFor(preempt(s, pri), Preempt(r, pri))
<1>1. PICK u, p, s1, r1 : /\ u = r.schedtsk /\ p = pri[u] /\ s1 = StoreFirst(s, p, u)
                          /\ r1 = InsertFirst(r, p, u)
  OBVIOUS
<1>2. s.schedtsk = u /\ p \in TaskPri /\ u \in TaskType
  BY <1>1 DEF StandsFor
<1>3. StandsFor(s1, r1)
  BY <1>1, <1>2, StoredFirst
<1>4. Sound(r1, pri, X \cup {u})
  <2>1. Inserted(r1, r, pri, X, u, p)
    BY <1>1, <1>2, InsertFirstFacts
  <2>2. r.nextpri \in r.primap /\ (\A k \in r.primap : k <= r.nextpri) /\ TaskPri \in SUBSET Nat
    BY Tables DEF Sound, MapExact
  <2>3. p <= r.nextpri
    <3>1. r.nextpri \in Nat /\ p \in Nat
      BY <1>2, <2>2 DEF Sound, Scheduler
    <3> QED BY <1>1, <3>1
  <2>4. MapExact(r1)
    BY <2>1, <2>2, <2>3 DEF MapExact, Inserted
  <2> QED BY <2>1, <2>4 DEF Sound, Inserted
<1>5. StandsFor(search_schedtsk(s1), SearchSchedtsk(r1))
  <2>1. X \cup {u} \in SUBSET TaskType
    BY <1>2
  <2> QED BY <1>3, <1>4, <2>1, StoredSearch
<1>6. preempt(s, pri) = search_schedtsk(s1) /\ Preempt(r, pri) = SearchSchedtsk(r1)
  BY <1>1, <1>2 DEF preempt, Preempt, StoreFirst
<1> QED BY <1>5, <1>6

--------------------------------------------------------------------------------
(* The stored lists take the steps of the queues. *)

\* What the substitution of OsekReadyList shows of the lists s.
Image(s) == [queue    |-> [p \in TaskPri |-> WalkFrom(s.next, s.first[p])],
             primap   |-> {p \in TaskPri : Map!HasBit(s.primap, p)},
             nextpri  |-> s.nextpri,
             schedtsk |-> s.schedtsk]

\* Sound scheduler data is what its lists show.
LEMMA ImageStands ==
  ASSUME NEW s, NEW r, NEW pri, NEW X \in SUBSET TaskType, StandsFor(s, r), Sound(r, pri, X)
  PROVE  Image(s) = r
<1>1. /\ s.next \in [TaskType -> TaskOrNull] /\ s.nextpri = r.nextpri
      /\ s.schedtsk = r.schedtsk
      /\ \A k \in BitNumber : HasBit(s.primap, k) <=> k \in r.primap
      /\ \A p \in TaskPri : Chained(s, p, r.queue[p])
  BY StoredFields DEF StandsFor
<1>2. /\ \A p \in TaskPri : r.queue[p] \in Seq(TaskType) /\ Distinct(r.queue[p])
      /\ r \in Scheduler
  BY SoundQueues
<1>3. ASSUME NEW p \in TaskPri PROVE WalkFrom(s.next, s.first[p]) = r.queue[p]
  <2>1. PICK q, next : q = r.queue[p] /\ next = s.next
    OBVIOUS
  <2>2. q \in Seq(TaskType) /\ Distinct(q) /\ next \in [TaskType -> TaskOrNull]
    BY <1>1, <1>2, <2>1
  <2>3. /\ s.first[p] = At(q, 1)
        /\ \A i \in 1 .. Len(q) : next[q[i]] = At(q, i + 1)
    BY <1>1, <2>1 DEF Chained
  <2>4. WalkFrom(next, At(q, 1)) = q
    BY <2>2, <2>3, WalkIsQueue
  <2> QED BY <2>1, <2>3, <2>4
<1>4. r.queue \in [TaskPri -> Seq(TaskType)] /\ r.primap \in SUBSET TaskPri
  BY <1>2 DEF Scheduler
<1>5. [p \in TaskPri |-> WalkFrom(s.next, s.first[p])] = r.queue
  BY <1>3, <1>4
<1>6. {p \in TaskPri : Map!HasBit(s.primap, p)} = r.primap
  BY <1>1, <1>4, SameMap, PriorityBits
<1>7. r = [queue |-> r.queue, primap |-> r.primap, nextpri |-> r.nextpri,
           schedtsk |-> r.schedtsk]
  BY <1>2 DEF Scheduler
<1> QED BY <1>1, <1>5, <1>6, <1>7 DEF Image

\* The substitution, before and after a step.
LEMMA ListsShown ==
  /\ [queue    |-> [p \in TaskPri |-> List(p)],
      primap   |-> {p \in TaskPri : Map!HasBit(lists.primap, p)},
      nextpri  |-> lists.nextpri,
      schedtsk |-> lists.schedtsk] = Image(lists)
  /\ [queue    |-> [p \in TaskPri |-> List(p)],
      primap   |-> {p \in TaskPri : Map!HasBit(lists.primap, p)},
      nextpri  |-> lists.nextpri,
      schedtsk |-> lists.schedtsk]' = Image(lists')
<1>1. \A p : List(p) = WalkFrom(lists.next, lists.first[p])
  BY DEF List, Walk, WalkFrom, Walks, TaskOrNull
<1>2. \A p : List(p)' = WalkFrom(lists'.next, lists'.first[p])
  BY DEF List, Walk, WalkFrom, Walks, TaskOrNull
<1> QED BY <1>1, <1>2, SameMap DEF Image

\* The operators of the queues are those of OsekSched.
LEMMA SameQueues ==
  /\ Queues!NoTaskReady = NoTaskReady /\ Queues!TPRI_MINTASK = TPRI_MINTASK
  /\ Queues!TaskType = TaskType /\ Queues!TaskPri = TaskPri
  /\ Queues!TSKID_NULL = TSKID_NULL
  /\ \A q : Queues!Elements(q) = Elements(q)
<1> USE DEF Queues!TaskPri, TaskPri, Queues!TPRI_MINTASK, TPRI_MINTASK, Queues!TPRI_MAXTASK,
            TPRI_MAXTASK, Queues!TSKID_NULL, TSKID_NULL, Queues!TaskType, TaskType
<1>1. Queues!NoTaskReady = NoTaskReady
  BY DEF Queues!NoTaskReady, NoTaskReady
<1>2. \A q : Queues!Elements(q) = Elements(q)
  BY DEF Queues!Elements, Elements
<1> QED BY <1>1, <1>2

LEMMA SameSearch ==
  ASSUME NEW r
  PROVE  Queues!SearchSchedtsk(r) = SearchSchedtsk(r)
BY DEF Queues!SearchSchedtsk, SearchSchedtsk, Queues!Highest, Highest, Queues!TSKID_NULL,
       TSKID_NULL, Queues!TPRI_MINTASK, TPRI_MINTASK

LEMMA SameYield ==
  ASSUME NEW r, NEW pri
  PROVE  Queues!Preempt(r, pri) = Preempt(r, pri)
BY SameSearch DEF Queues!Preempt, Preempt, Queues!InsertFirst, InsertFirst

LEMMA SameArrival ==
  ASSUME NEW r, NEW pri, NEW t
  PROVE  Queues!MakeRunnable(r, pri, t) = MakeRunnable(r, pri, t)
BY DEF Queues!MakeRunnable, MakeRunnable, Queues!InsertFirst, InsertFirst, Queues!InsertLast,
       InsertLast, Queues!TSKID_NULL, TSKID_NULL

--------------------------------------------------------------------------------
\* The lists stand for sound scheduler data whose tasks are R.
ListsHold(s, pri, r, R) ==
  /\ R \in SUBSET TaskType /\ StandsFor(s, r) /\ Consistent(r, pri, R)
  /\ Image(s) = r

LEMMA ListsShow ==
  ASSUME NEW s, NEW pri, NEW r, NEW R \in SUBSET TaskType, StandsFor(s, r), Consistent(r, pri, R)
  PROVE  ListsHold(s, pri, r, R)
BY ImageStands DEF ListsHold, Consistent

\* The invariant of the stored lists.
ListsSound ==
  /\ curpri \in [TaskType -> TaskPri]
  /\ \E r, R : ListsHold(lists, curpri, r, R)

LEMMA ListsBegin ==
  ASSUME ListInit
  PROVE  ListsSound /\ Queues!QueuesInit
<1>1. PICK s, r, pri : s = InitialLists /\ r = NoTaskReady /\ pri = [t \in TaskType |-> TPRI_MINTASK]
  OBVIOUS
<1>2. lists = s /\ curpri = pri
  BY <1>1 DEF ListInit
<1>3. TPRI_MINTASK \in TaskPri /\ 0 \in TaskType /\ TPRI_MINTASK = 0 /\ 0 \in Word
  <2>1. tnum_task \in Nat /\ tnum_task > 0 /\ TNUM_PRIORITY \in Nat /\ TNUM_PRIORITY > 0
    BY TaskTable
  <2> QED BY <2>1 DEF TPRI_MINTASK, TPRI_MAXTASK, TaskPri, TaskType, Word
<1>4. /\ s.first = [p \in TaskPri |-> TSKID_NULL] /\ s.last = [p \in TaskPri |-> 0]
      /\ s.next = [t \in TaskType |-> 0] /\ s.primap = 0
      /\ s.nextpri = TPRI_MINTASK /\ s.schedtsk = TSKID_NULL
  BY <1>1 DEF InitialLists
<1>5. s \in StoredLists
  BY <1>1, <1>3 DEF InitialLists, StoredLists, TaskOrNull
<1>6. /\ r.queue = [p \in TaskPri |-> << >>] /\ r.primap = {}
      /\ r.nextpri = TPRI_MINTASK /\ r.schedtsk = TSKID_NULL
  BY <1>1 DEF NoTaskReady
<1>7. \A p \in TaskPri : Chained(s, p, r.queue[p])
  BY <1>4, <1>6 DEF Chained, At
<1>8. StandsFor(s, r)
  BY <1>4, <1>5, <1>6, <1>7, NoBitOfZero DEF StandsFor
<1>9. Consistent(r, pri, {})
  <2>1. r \in Scheduler
    BY <1>1, <1>3 DEF NoTaskReady, Scheduler
  <2>2. QueuesHold(r.queue, pri, {} \ {r.schedtsk})
    BY <1>6 DEF QueuesHold, Elements, Distinct
  <2>3. MapExact(r) /\ BestChosen(r, pri)
    BY <1>6 DEF MapExact, BestChosen
  <2> QED BY <1>6, <2>1, <2>2, <2>3 DEF Consistent, Sound
<1>10. ListsHold(s, pri, r, {})
  BY <1>8, <1>9, ListsShow
<1>11. Queues!QueuesInit
  BY <1>1, <1>2, <1>10, ListsShown, SameQueues DEF Queues!QueuesInit, ListsHold
<1> QED BY <1>1, <1>2, <1>3, <1>10, <1>11 DEF ListsSound

\* A task outside the lists is none of those they hold.
LEMMA NotInLists ==
  ASSUME NEW r, NEW R, ListsHold(lists, curpri, r, R), NEW t \in TaskType, ~ InScheduler(t)
  PROVE  t \notin R
<1>1. r.schedtsk = lists.schedtsk /\ Image(lists) = r /\ R \in SUBSET TaskType
  BY DEF ListsHold, StandsFor
<1>2. \A p \in TaskPri : Elements(r.queue[p]) = {x \in R \ {r.schedtsk} : curpri[x] = p}
  BY DEF ListsHold, Consistent, Sound, QueuesHold
<1>3. \A x \in R \ {r.schedtsk} : curpri[x] \in TaskPri
  BY DEF ListsHold, Consistent, Sound, QueuesHold
<1>4. r.queue = [p \in TaskPri |-> List(p)]
  BY <1>1, ListsShown
<1>5. \A p \in TaskPri : t \notin Elements(r.queue[p]) /\ t # r.schedtsk
  BY <1>1, <1>4 DEF InScheduler
<1>6. t # r.schedtsk
  BY <1>1 DEF InScheduler
<1> QED BY <1>2, <1>3, <1>5, <1>6

LEMMA ListsActivate ==
  ASSUME NEW r, NEW R, ListsHold(lists, curpri, r, R), curpri \in [TaskType -> TaskPri],
         NEW t \in TaskType, NEW p \in ActivationPri, Activate(t, p)
  PROVE  ListsSound' /\ Queues!Enter(t, p)
<1>1. PICK r2, pri2 : pri2 = [curpri EXCEPT ![t] = p] /\ r2 = MakeRunnable(r, pri2, t)
  OBVIOUS
<1>2. p \in TaskPri /\ t \notin R /\ R \in SUBSET TaskType
  BY ActivePriorities, NotInLists DEF Activate, ListsHold
<1>3. /\ curpri' = pri2 /\ lists' = make_runnable(lists, pri2, t)
  BY <1>1 DEF Activate
<1>4. /\ pri2 \in [TaskType -> TaskPri] /\ pri2 \in [TaskType -> Nat]
      /\ \A x \in R : pri2[x] = curpri[x]
      /\ pri2[t] \in TaskPri
  BY <1>1, <1>2, Tables
<1>5. Consistent(r, pri2, R) /\ StandsFor(lists, r)
  BY <1>2, <1>4, OtherPriorities DEF ListsHold
<1>6. StandsFor(lists', r2)
  BY <1>1, <1>2, <1>3, <1>4, <1>5, StoredArrival
<1>7. Consistent(r2, pri2, R \cup {t})
  BY <1>1, <1>2, <1>4, <1>5, TaskArrives
<1>8. ListsHold(lists', pri2, r2, R \cup {t})
  BY <1>2, <1>6, <1>7, ListsShow
<1>9. t # r.schedtsk /\ \A q \in TaskPri : t \notin Elements(r.queue[q])
  <2>1. r.schedtsk # TSKID_NULL => r.schedtsk \in R
    BY <1>5 DEF Consistent
  <2>2. \A q \in TaskPri : Elements(r.queue[q]) \subseteq R
    BY <1>5 DEF Consistent, Sound, QueuesHold
  <2> QED BY <1>2, <2>1, <2>2, Tables
<1>10. Queues!Enter(t, p)
  <2>1. Image(lists) = r /\ Image(lists') = r2
    BY <1>8 DEF ListsHold
  <2>2. t \notin Queues!Held
    <3>1. Queues!Held = {r.schedtsk} \cup UNION {Elements(r.queue[q]) : q \in TaskPri}
      BY <2>1, ListsShown, SameQueues DEF Queues!Held
    <3> QED BY <1>9, <3>1
  <2>3. Queues!MakeRunnable(r, pri2, t) = r2
    BY <1>1, SameArrival
  <2> QED BY <1>1, <1>3, <2>1, <2>2, <2>3, ListsShown DEF Queues!Enter
<1> QED BY <1>3, <1>4, <1>8, <1>10 DEF ListsSound

LEMMA ListsStop ==
  ASSUME NEW r, NEW R, ListsHold(lists, curpri, r, R), curpri \in [TaskType -> TaskPri], Stop
  PROVE  ListsSound' /\ Queues!Leave
<1>1. PICK r2 : r2 = SearchSchedtsk(r)
  OBVIOUS
<1>2. /\ R \in SUBSET TaskType /\ StandsFor(lists, r) /\ Image(lists) = r
      /\ Consistent(r, curpri, R) /\ Sound(r, curpri, R \ {r.schedtsk})
      /\ R \ {r.schedtsk} \in SUBSET TaskType
      /\ curpri \in [TaskType -> Nat] /\ lists.schedtsk = r.schedtsk
  BY Tables DEF ListsHold, Consistent, StandsFor
<1>3. curpri' = curpri /\ lists' = search_schedtsk(lists) /\ lists.schedtsk # TSKID_NULL
  BY DEF Stop
<1>4. StandsFor(lists', r2)
  BY <1>1, <1>2, <1>3, StoredSearch
<1>5. Consistent(r2, curpri, R \ {r.schedtsk})
  BY <1>1, <1>2, ScheduledLeaves
<1>6. ListsHold(lists', curpri, r2, R \ {r.schedtsk})
  BY <1>2, <1>4, <1>5, ListsShow
<1>7. Queues!Leave
  <2>1. Image(lists') = r2 /\ Queues!SearchSchedtsk(r) = r2
    BY <1>1, <1>6, SameSearch DEF ListsHold
  <2> QED BY <1>2, <1>3, <2>1, ListsShown, SameQueues DEF Queues!Leave
<1> QED BY <1>3, <1>6, <1>7 DEF ListsSound

LEMMA ListsReprioritize ==
  ASSUME NEW r, NEW R, ListsHold(lists, curpri, r, R), curpri \in [TaskType -> TaskPri],
         NEW p \in ActivationPri, Reprioritize(p)
  PROVE  ListsSound' /\ (Queues!ChangePriority(p) \/ Queues!Lower(p))
<1>1. PICK u, pri2 : u = r.schedtsk /\ pri2 = [curpri EXCEPT ![u] = p]
  OBVIOUS
<1>2. /\ R \in SUBSET TaskType /\ StandsFor(lists, r) /\ Image(lists) = r
      /\ Consistent(r, curpri, R) /\ Sound(r, curpri, R \ {u})
      /\ R \ {u} \in SUBSET TaskType /\ lists.schedtsk = u /\ lists.nextpri = r.nextpri
      /\ p \in TaskPri
  BY <1>1, ActivePriorities DEF ListsHold, Consistent, StandsFor
<1>3. /\ curpri' = pri2 /\ u # TSKID_NULL
      /\ lists' = IF p < r.nextpri THEN preempt(lists, pri2) ELSE lists
  BY <1>1, <1>2 DEF Reprioritize
<1>4. /\ u \in R /\ u \in TaskType /\ TSKID_NULL \notin R
      /\ pri2 \in [TaskType -> TaskPri] /\ pri2 \in [TaskType -> Nat] /\ pri2[u] = p
      /\ \A x \in R : x # u => pri2[x] = curpri[x]
      /\ p \in Nat /\ r.nextpri \in Nat
  BY <1>1, <1>2, <1>3, Tables DEF Consistent, Sound, Scheduler
<1>5. CASE p >= r.nextpri
  <2>1. lists' = lists
    BY <1>3, <1>4, <1>5
  <2>2. Consistent(r, pri2, R)
    BY <1>1, <1>2, <1>4, <1>5, ScheduledPriority
  <2>3. ListsHold(lists', pri2, r, R)
    BY <1>2, <2>1, <2>2, ListsShow
  <2>4. Queues!ChangePriority(p)
    BY <1>1, <1>2, <1>3, <1>5, <2>1, ListsShown, SameQueues DEF Queues!ChangePriority
  <2> QED BY <1>3, <1>4, <2>3, <2>4 DEF ListsSound
<1>6. CASE p < r.nextpri
  <2>1. PICK r2 : r2 = Preempt(r, pri2)
    OBVIOUS
  <2>2. lists' = preempt(lists, pri2)
    BY <1>3, <1>6
  <2>3. Sound(r, pri2, R \ {u})
    BY <1>2, <1>4 DEF Sound, QueuesHold
  <2>4. r.primap # {}
    BY <1>4, <1>6, <2>3 DEF Sound, MapExact, TPRI_MINTASK
  <2>5. StandsFor(lists', r2)
    BY <1>1, <1>2, <1>4, <1>6, <2>1, <2>2, <2>3, <2>4, StoredYield
  <2>6. Consistent(r2, pri2, R)
    BY <1>1, <1>2, <1>4, <1>6, <2>1, <2>3, ScheduledYields
  <2>7. ListsHold(lists', pri2, r2, R)
    BY <1>2, <2>5, <2>6, ListsShow
  <2>8. Queues!Lower(p)
    <3>1. Image(lists') = r2 /\ Queues!Preempt(r, pri2) = r2
      BY <2>1, <2>7, SameYield DEF ListsHold
    <3> QED BY <1>1, <1>2, <1>3, <1>6, <3>1, ListsShown, SameQueues DEF Queues!Lower
  <2> QED BY <1>3, <1>4, <2>7, <2>8 DEF ListsSound
<1> QED BY <1>4, <1>5, <1>6

LEMMA ListsStep ==
  ASSUME ListsSound, [ListNext]_listVars
  PROVE  ListsSound' /\ [Queues!QueuesNext]_Queues!queueVars
<1>1. curpri \in [TaskType -> TaskPri]
  BY DEF ListsSound
<1>2. PICK r, R : ListsHold(lists, curpri, r, R)
  BY DEF ListsSound
<1>3. ASSUME NEW t \in TaskType, NEW p \in ActivationPri, Activate(t, p)
      PROVE  ListsSound' /\ Queues!QueuesNext
  BY <1>1, <1>2, <1>3, ListsActivate, SameQueues, ActivePriorities DEF Queues!QueuesNext
<1>4. CASE Stop
  BY <1>1, <1>2, <1>4, ListsStop DEF Queues!QueuesNext
<1>5. ASSUME NEW p \in ActivationPri, Reprioritize(p)
      PROVE  ListsSound' /\ Queues!QueuesNext
  BY <1>1, <1>2, <1>5, ListsReprioritize, SameQueues, ActivePriorities DEF Queues!QueuesNext
<1>6. CASE UNCHANGED listVars
  <2>1. lists' = lists /\ curpri' = curpri
    BY <1>6 DEF listVars
  <2>2. Queues!queueVars' = Queues!queueVars
    BY <2>1, ListsShown DEF Queues!queueVars
  <2> QED BY <2>1, <2>2 DEF ListsSound
<1> QED BY <1>3, <1>4, <1>5, <1>6 DEF ListNext

\* The lists of task.c, linked through tcb_next with a last pointer that an empty list
\* leaves stale, and the 16-bit map behave as the queues and the set that OsekSched has in
\* their place, for every number of tasks and priorities: ready_insert_first,
\* ready_insert_last, ready_delete_first and bitmap_search make each step the queues make.
THEOREM ListsImplementQueues == ListSpec => ImplementsQueues
<1>1. ListInit => ListsSound /\ Queues!QueuesInit
  BY ListsBegin
<1>2. ListsSound /\ [ListNext]_listVars
      => ListsSound' /\ [Queues!QueuesNext]_Queues!queueVars
  BY ListsStep
<1> QED BY <1>1, <1>2, PTL DEF ListSpec, ImplementsQueues, Queues!QueuesSpec
================================================================================
