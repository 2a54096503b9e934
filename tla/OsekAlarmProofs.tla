----------------------------- MODULE OsekAlarmProofs ----------------------------
(***************************************************************************)
(* The alarm queue of OsekAlarm: its types, its order, and its refinement  *)
(* of AlarmTimers, for any number of alarms and any range of the counter.  *)
(***************************************************************************)
EXTENDS OsekAlarmMC, QueueLemmas

\* Every counter of the repository's .oil files has TICKSPERBASE 1, and their alarms start at
\* 1 or later.  With more ticks per signal an alarm may be set for a time that is jumped over.
TickByTick == tickbase = 1 /\ \A a \in DOMAIN Autosta : Autosta[a].almval >= 1

--------------------------------------------------------------------------------
(* The counter. *)

LEMMA Constants ==
  /\ tnum_alarm \in Nat \ {0} /\ maxval \in Nat \ {0}
  /\ maxval2 = 2 * maxval + 1 /\ Tick = 0 .. maxval2 /\ maxval + 1 \in Tick
  /\ Cycle \subseteq 0 .. maxval
  /\ ALMID_NULL \notin AlarmType
BY CounterTable DEF maxval2, Tick, Cycle, ALMID_NULL, AlarmType

LEMMA TicksAdd ==
  ASSUME NEW val \in Tick, NEW n \in 0 .. maxval + 1
  PROVE  /\ add_tick(val, n) \in Tick
         /\ diff_tick(val, n) \in Tick
         /\ diff_tick(add_tick(val, n), val) = n
BY Constants DEF add_tick, diff_tick

LEMMA TicksDiffer ==
  ASSUME NEW a \in Tick, NEW b \in Tick
  PROVE  /\ diff_tick(a, b) \in Tick
         /\ diff_tick(a, b) = 0 <=> a = b
         /\ diff_tick(b, a) <= maxval <=> diff_tick(a, b) = 0 \/ diff_tick(a, b) > maxval + 1
BY Constants DEF diff_tick

\* One tick later every expiry is one tick closer.
LEMMA TickPasses ==
  ASSUME TickByTick, NEW val \in Tick, NEW cur \in Tick, diff_tick(val, cur) >= 1
  PROVE  diff_tick(val, add_tick(cur, tickbase)) = diff_tick(val, cur) - 1
BY Constants DEF add_tick, diff_tick, TickByTick

\* enqueue_alarm walks past exactly the alarms that expire no later, before and after the
\* counter wraps.
LEMMA PassesEarlier ==
  ASSUME NEW cur \in Tick, NEW next \in Tick, NEW enqval \in Tick,
         diff_tick(enqval, cur) >= 1
  PROVE  Passes(cur, next, enqval) <=> diff_tick(next, cur) <= diff_tick(enqval, cur)
BY Constants DEF Passes, diff_tick

\* An absolute time lies at most one turn of the counter ahead.
LEMMA StartsAhead ==
  ASSUME curval \in Tick, NEW start \in 0 .. maxval
  PROVE  /\ StartValue(start) \in Tick
         /\ diff_tick(StartValue(start), curval) \in 1 .. maxval + 1
BY Constants DEF StartValue, diff_tick

--------------------------------------------------------------------------------
(* The queue. *)

\* How far ahead each alarm expires.
Left(v, cur) == [a \in AlarmType |-> diff_tick(v[a], cur)]

\* The queue is in the order of expiry, each alarm at most once, none before low or more than
\* a turn of the counter ahead.
Ordered(q, cur, v, low) ==
  /\ q \in Seq(AlarmType)
  /\ Distinct(q)
  /\ \A a \in Elements(q) : Left(v, cur)[a] \in low .. maxval + 1
  /\ InOrder(q, Left(v, cur))

LEMMA LeftTypes ==
  ASSUME NEW cur \in Tick, NEW v \in [AlarmType -> Tick]
  PROVE  Left(v, cur) \in [AlarmType -> Int] /\ \A a \in AlarmType : Left(v, cur)[a] \in Tick
<1>1. Tick \subseteq Int
  BY Constants
<1>2. \A a \in AlarmType : diff_tick(v[a], cur) \in Tick
  BY TicksDiffer
<1> QED BY <1>1, <1>2 DEF Left

\* enqueue_alarm adds the alarm.
LEMMA EnqueueTypes ==
  ASSUME NEW cur, NEW v, NEW a \in AlarmType, NEW q \in Seq(AlarmType)
  PROVE  /\ Enqueue(q, cur, v, a) \in Seq(AlarmType)
         /\ Elements(Enqueue(q, cur, v, a)) = Elements(q) \cup {a}
         /\ Distinct(q) /\ a \notin Elements(q) => Distinct(Enqueue(q, cur, v, a))
<1>1. PICK past, at :
        /\ past = {i \in 1 .. Len(q) : Passes(cur, v[q[i]], v[a])}
        /\ at = CHOOSE i \in 1 .. Len(q) + 1 : i \notin past /\ \A j \in 1 .. i - 1 : j \in past
  OBVIOUS
<1>2. Enqueue(q, cur, v, a) = InsertAt(q, at, a)
  BY <1>1 DEF Enqueue
<1>3. past \subseteq 1 .. Len(q)
  BY <1>1
<1>4. at \in 1 .. Len(q) + 1
  BY <1>1, <1>3, StopsAt
<1> QED BY <1>2, <1>4, InsertedElement, InsertedSet

\* enqueue_alarm keeps it so.
LEMMA EnqueueOrders ==
  ASSUME NEW low \in {0, 1}, NEW cur \in Tick, NEW v \in [AlarmType -> Tick],
         NEW a \in AlarmType, NEW q, Ordered(q, cur, v, low), a \notin Elements(q),
         diff_tick(v[a], cur) \in 1 .. maxval + 1
  PROVE  /\ Ordered(Enqueue(q, cur, v, a), cur, v, low)
         /\ Elements(Enqueue(q, cur, v, a)) = Elements(q) \cup {a}
<1>0. PICK past, at, d :
        /\ past = {i \in 1 .. Len(q) : Passes(cur, v[q[i]], v[a])}
        /\ at = CHOOSE i \in 1 .. Len(q) + 1 : i \notin past /\ \A j \in 1 .. i - 1 : j \in past
        /\ d = Left(v, cur)
  OBVIOUS
<1>1. Enqueue(q, cur, v, a) = InsertAt(q, at, a)
  BY <1>0 DEF Enqueue
<1>2. q \in Seq(AlarmType) /\ Len(q) \in Nat /\ \A i \in 1 .. Len(q) : q[i] \in AlarmType
  BY QueueFacts DEF Ordered
<1>3. at \in 1 .. Len(q) + 1 /\ at \notin past /\ \A j \in 1 .. at - 1 : j \in past
  <2>1. past \subseteq 1 .. Len(q)
    BY <1>0
  <2>2. at = CHOOSE i \in 1 .. Len(q) + 1 : i \notin past /\ \A j \in 1 .. i - 1 : j \in past
    BY <1>0
  <2>3. q \in Seq(AlarmType)
    BY <1>2
  <2> QED BY <2>1, <2>2, <2>3, StopsAt
<1>4. d \in [AlarmType -> Int] /\ d[a] \in 1 .. maxval + 1
  BY <1>0, LeftTypes DEF Left
<1>5. ASSUME NEW i \in 1 .. Len(q) PROVE i \in past <=> d[q[i]] <= d[a]
  <2>1. v[q[i]] \in Tick /\ v[a] \in Tick /\ diff_tick(v[a], cur) >= 1
    BY <1>2
  <2>2. Passes(cur, v[q[i]], v[a]) <=> diff_tick(v[q[i]], cur) <= diff_tick(v[a], cur)
    BY <2>1, PassesEarlier
  <2> QED BY <1>0, <1>2, <2>2 DEF Left
<1>6. \A j \in 1 .. at - 1 : d[q[j]] <= d[a]
  BY <1>2, <1>3, <1>5
<1>7. at \in 1 .. Len(q) => d[a] <= d[q[at]]
  BY <1>2, <1>3, <1>4, <1>5
<1>8. InOrder(InsertAt(q, at, a), d)
  <2>1. InOrder(q, d)
    BY <1>0 DEF Ordered
  <2> QED BY <2>1, <1>2, <1>3, <1>4, <1>6, <1>7, InsertedInOrder
<1>9. /\ InsertAt(q, at, a) \in Seq(AlarmType) /\ Distinct(InsertAt(q, at, a))
      /\ Elements(InsertAt(q, at, a)) = Elements(q) \cup {a}
  BY <1>2, <1>3, InsertedElement, InsertedSet DEF Ordered
<1>10. d[a] \in low .. maxval + 1
  BY <1>4, Constants
<1> QED BY <1>0, <1>1, <1>8, <1>9, <1>10 DEF Ordered

\* Setting an alarm that is not in the queue leaves the queue in order.
LEMMA SetOthersOrdered ==
  ASSUME NEW low, NEW cur, NEW v \in [AlarmType -> Tick],
         NEW q, Ordered(q, cur, v, low),
         NEW a \in AlarmType, a \notin Elements(q), NEW n
  PROVE  Ordered(q, cur, [v EXCEPT ![a] = n], low)
<1>1. \A b \in Elements(q) : b \in AlarmType /\ b # a
  BY QueueFacts DEF Ordered
<1>2. \A b \in Elements(q) : Left([v EXCEPT ![a] = n], cur)[b] = Left(v, cur)[b]
  BY <1>1 DEF Left
<1>3. \A i \in 1 .. Len(q) : q[i] \in Elements(q)
  BY DEF Elements
<1> QED BY <1>2, <1>3 DEF Ordered, InOrder

\* Taking an alarm out, as CancelAlarm does, keeps the order of the others.
LEMMA RemoveOrders ==
  ASSUME NEW low, NEW cur \in Tick, NEW v \in [AlarmType -> Tick],
         NEW q, Ordered(q, cur, v, low), NEW a \in Elements(q)
  PROVE  /\ Ordered(RemoveFirst(q, a), cur, v, low)
         /\ Elements(RemoveFirst(q, a)) = Elements(q) \ {a}
<1>1. PICK i \in 1 .. Len(q) : q[i] = a /\ RemoveFirst(q, a) = RemoveAt(q, i)
  BY RemovedElement DEF Ordered
<1>2. /\ RemoveAt(q, i) \in Seq(AlarmType)
      /\ Elements(RemoveAt(q, i)) = Elements(q) \ {a} /\ Distinct(RemoveAt(q, i))
      /\ InOrder(RemoveAt(q, i), Left(v, cur))
  BY <1>1, TakenOut, TakenOutSet, LeftTypes DEF Ordered
<1> QED BY <1>1, <1>2 DEF Ordered

\* SignalCounter's test: the first alarm is due if one is, and what is due leaves the queue.
LEMMA FirstIsDue ==
  ASSUME NEW cur \in Tick, NEW v \in [AlarmType -> Tick],
         NEW q, Ordered(q, cur, v, 0)
  PROVE  /\ (q # << >> /\ diff_tick(cur, v[Head(q)]) <= maxval)
               <=> \E a \in Elements(q) : Left(v, cur)[a] = 0
         /\ q # << >> /\ diff_tick(cur, v[Head(q)]) <= maxval =>
               /\ Head(q) \in Elements(q) /\ Head(q) \in AlarmType
               /\ Left(v, cur)[Head(q)] = 0 /\ v[Head(q)] = cur
               /\ Ordered(Tail(q), cur, v, 0) /\ Elements(Tail(q)) = Elements(q) \ {Head(q)}
         /\ ~ (q # << >> /\ diff_tick(cur, v[Head(q)]) <= maxval) => Ordered(q, cur, v, 1)
<1>1. q \in Seq(AlarmType) /\ Len(q) \in Nat /\ \A i \in 1 .. Len(q) : q[i] \in AlarmType
      /\ (q # << >> => Len(q) >= 1 /\ Head(q) = q[1] /\ Head(q) \in Elements(q))
      /\ Elements(q) \subseteq AlarmType /\ (Elements(q) = {} <=> q = << >>)
  BY QueueFacts DEF Ordered
<1>2. PICK d : d = Left(v, cur)
  OBVIOUS
<1>3. d \in [AlarmType -> Int] /\ \A a \in Elements(q) : d[a] \in 0 .. maxval + 1
  BY <1>2, LeftTypes DEF Ordered
<1>4. ASSUME q # << >>, NEW a \in Elements(q) PROVE d[Head(q)] <= d[a]
  <2>1. PICK i \in 1 .. Len(q) : q[i] = a
    BY DEF Elements
  <2>2. i = 1 \/ (1 \in 1 .. Len(q) /\ 1 < i)
    BY <1>1
  <2>3. InOrder(q, d)
    BY <1>2 DEF Ordered
  <2>4. d[q[1]] <= d[q[i]]
    BY <2>2, <2>3, <1>1, <1>3, <2>1 DEF InOrder
  <2> QED BY <1>1, <1>4, <2>1, <2>4
<1>5. ASSUME q # << >>
      PROVE  diff_tick(cur, v[Head(q)]) <= maxval <=> d[Head(q)] = 0
  <2>1. Head(q) \in AlarmType /\ d[Head(q)] = diff_tick(v[Head(q)], cur)
        /\ d[Head(q)] \in 0 .. maxval + 1
    <3>1. Head(q) \in Elements(q) /\ Head(q) \in AlarmType
      BY <1>1, <1>5
    <3> QED BY <3>1, <1>2, <1>3 DEF Left
  <2>2. v[Head(q)] \in Tick
    BY <2>1
  <2>3. diff_tick(cur, v[Head(q)]) <= maxval <=> d[Head(q)] = 0 \/ d[Head(q)] > maxval + 1
    BY <2>1, <2>2, TicksDiffer
  <2> QED BY <2>1, <2>3, Constants
<1>6. (q # << >> /\ diff_tick(cur, v[Head(q)]) <= maxval) <=> \E a \in Elements(q) : d[a] = 0
  <2>1. ASSUME NEW a \in Elements(q), d[a] = 0 PROVE q # << >> /\ d[Head(q)] = 0
    <3>1. q # << >> /\ Head(q) \in Elements(q)
      <4>1. q # << >>
        BY <2>1, EmptyQueue
      <4> QED BY <4>1, <1>1
    <3>2. d[Head(q)] <= d[a] /\ d[Head(q)] \in 0 .. maxval + 1
      BY <3>1, <1>3, <1>4
    <3> QED BY <3>1, <3>2, <2>1, Constants
  <2> QED BY <1>1, <1>5, <2>1
<1>7. ASSUME q # << >>, diff_tick(cur, v[Head(q)]) <= maxval
      PROVE  /\ Head(q) \in Elements(q) /\ Head(q) \in AlarmType
             /\ d[Head(q)] = 0 /\ v[Head(q)] = cur
             /\ Ordered(Tail(q), cur, v, 0) /\ Elements(Tail(q)) = Elements(q) \ {Head(q)}
  <2>1. Head(q) \in Elements(q) /\ Head(q) \in AlarmType /\ Head(q) = q[1]
    BY <1>1, <1>7
  <2>2. d[Head(q)] = 0 /\ d[Head(q)] = diff_tick(v[Head(q)], cur)
    BY <1>2, <1>5, <1>7, <2>1 DEF Left
  <2>3. v[Head(q)] = cur
    <3>1. v[Head(q)] \in Tick
      BY <2>1
    <3> QED BY <2>2, <3>1, TicksDiffer
  <2>4. 1 \in 1 .. Len(q) /\ Tail(q) = RemoveAt(q, 1)
    BY <1>1, <1>7, HeadTakenOut
  <2>5. /\ Tail(q) \in Seq(AlarmType) /\ Distinct(Tail(q)) /\ InOrder(Tail(q), d)
        /\ Elements(Tail(q)) = Elements(q) \ {Head(q)}
    <3>1. Distinct(q) /\ InOrder(q, d) /\ q \in Seq(AlarmType)
      BY <1>2 DEF Ordered
    <3>2. RemoveAt(q, 1) \in Seq(AlarmType)
      BY <3>1, <2>4, TakenOut
    <3>3. /\ Distinct(RemoveAt(q, 1)) /\ InOrder(RemoveAt(q, 1), d)
          /\ Elements(RemoveAt(q, 1)) = Elements(q) \ {q[1]}
      BY <1>3, <3>1, <2>4, TakenOutSet
    <3> QED BY <2>1, <2>4, <3>2, <3>3
  <2>6. \A a \in Elements(Tail(q)) : d[a] \in 0 .. maxval + 1
    BY <1>3, <2>5
  <2> QED BY <1>2, <2>1, <2>2, <2>3, <2>5, <2>6 DEF Ordered
<1>8. ASSUME ~ (q # << >> /\ diff_tick(cur, v[Head(q)]) <= maxval) PROVE Ordered(q, cur, v, 1)
  <2>1. \A a \in Elements(q) : d[a] \in 1 .. maxval + 1
    BY <1>3, <1>6, <1>8, Constants
  <2> QED BY <1>2, <2>1 DEF Ordered
<1> QED BY <1>2, <1>6, <1>7, <1>8

--------------------------------------------------------------------------------
(* alarm_initialize. *)

StartTimes == [a \in AlarmType |-> IF a \in DOMAIN Autosta THEN Autosta[a].almval ELSE 0]
Started(n) == {a \in DOMAIN Autosta : a <= n}

\* One step of its loop, from the queues q after each alarm.
AddsAlarm(q, a) ==
  IF a = -1 THEN << >>
  ELSE IF a \in DOMAIN Autosta THEN Enqueue(q[a - 1], 0, StartTimes, a) ELSE q[a - 1]

LEMMA InitqueSteps == initque = [a \in -1 .. tnum_alarm - 1 |-> AddsAlarm(initque, a)]
<1> DEFINE D == -1 .. tnum_alarm - 1
           solves(q, n) == \A a \in -1 .. n - 1 : q[a] = AddsAlarm(q, a)
           bad == {n \in 0 .. tnum_alarm : ~ \E q : q = [a \in D |-> q[a]] /\ solves(q, n)}
<1>0. tnum_alarm \in Nat
  BY Constants
<1>1. bad = {}
  <2>1. SUFFICES ASSUME bad # {} PROVE FALSE
    OBVIOUS
  <2>2. bad \subseteq Nat
    BY <1>0
  <2>3. PICK n \in bad : \A m \in bad : n <= m
    <3> HIDE DEF bad
    <3> QED BY <2>1, <2>2, LeastNumber
  <2>4. n \in 0 .. tnum_alarm /\ ~ \E q : q = [a \in D |-> q[a]] /\ solves(q, n)
    BY <2>3
  <2>5. CASE n = 0
    <3>1. PICK q : q = [a \in D |-> << >>]
      OBVIOUS
    <3>2. q = [a \in D |-> q[a]]
      BY <3>1
    <3>3. solves(q, n)
      BY <1>0, <2>5, <3>1 DEF AddsAlarm
    <3> QED BY <2>4, <3>2, <3>3
  <2>6. CASE n # 0
    <3>1. n - 1 \in 0 .. tnum_alarm /\ n - 1 \in Nat /\ ~ (n <= n - 1)
      BY <1>0, <2>4, <2>6
    <3>2. n - 1 \notin bad
      BY <2>3, <3>1
    <3>3. PICK q : q = [a \in D |-> q[a]] /\ solves(q, n - 1)
      BY <3>1, <3>2
    <3>4. PICK r : r = [a \in D |-> IF a = n - 1 THEN AddsAlarm(q, n - 1) ELSE q[a]]
      OBVIOUS
    <3>5. r = [a \in D |-> r[a]]
      BY <3>4
    <3>6. ASSUME NEW a \in -1 .. n - 1 PROVE r[a] = AddsAlarm(r, a)
      <4>1. a \in D
        BY <1>0, <2>4
      <4>2. AddsAlarm(r, a) = AddsAlarm(q, a)
        <5>1. CASE a = -1
          BY <5>1 DEF AddsAlarm
        <5>2. CASE a # -1
          <6>1. a - 1 \in D /\ a - 1 # n - 1
            BY <1>0, <4>1, <5>2
          <6>2. r[a - 1] = q[a - 1]
            BY <3>4, <6>1
          <6> QED BY <5>2, <6>2 DEF AddsAlarm
        <5> QED BY <5>1, <5>2
      <4>3. CASE a = n - 1
        BY <3>4, <4>1, <4>2, <4>3
      <4>4. CASE a # n - 1
        <5>1. a \in -1 .. n - 1 - 1
          BY <2>4, <4>4
        <5> QED BY <3>3, <3>4, <4>1, <4>2, <4>4, <5>1
      <4> QED BY <4>3, <4>4
    <3>7. solves(r, n)
      BY <3>6
    <3> QED BY <2>4, <3>5, <3>7
  <2> QED BY <2>5, <2>6
<1>2. \E q : q = [a \in D |-> AddsAlarm(q, a)]
  <2>1. PICK q : q = [a \in D |-> q[a]] /\ solves(q, tnum_alarm)
    BY <1>0, <1>1
  <2>2. \A a \in D : q[a] = AddsAlarm(q, a)
    BY <2>1
  <2>3. q = [a \in D |-> AddsAlarm(q, a)]
    BY <2>1, <2>2
  <2> QED BY <2>3
<1> QED BY <1>2 DEF initque, AddsAlarm, StartTimes

LEMMA FirstExpiry ==
  ASSUME TickByTick, NEW a \in DOMAIN Autosta
  PROVE  diff_tick(StartTimes[a], 0) \in 1 .. maxval + 1
<1>1. maxval \in Nat /\ Autosta[a].almval \in 0 .. maxval /\ a \in AlarmType
  BY Constants, CounterTable
<1>2. PICK v : v = Autosta[a].almval
  OBVIOUS
<1>3. v \in 1 .. maxval /\ StartTimes[a] = v
  BY <1>1, <1>2 DEF TickByTick, StartTimes
<1>4. diff_tick(v, 0) = v
  BY <1>1, <1>3 DEF diff_tick
<1> QED BY <1>1, <1>3, <1>4

LEMMA StartQueue ==
  /\ initque[tnum_alarm - 1] \in Seq(AlarmType)
  /\ Distinct(initque[tnum_alarm - 1])
  /\ Elements(initque[tnum_alarm - 1]) = DOMAIN Autosta
  /\ TickByTick => Ordered(initque[tnum_alarm - 1], 0, StartTimes, 1)
<1> DEFINE D == -1 .. tnum_alarm - 1
           good(a, q) == /\ q \in Seq(AlarmType) /\ Distinct(q) /\ Elements(q) = Started(a)
                         /\ TickByTick => Ordered(q, 0, StartTimes, 1)
           bad == {n \in 0 .. tnum_alarm : ~ good(n - 1, initque[n - 1])}
<1>0. tnum_alarm \in Nat /\ maxval \in Nat /\ 0 \in Tick /\ StartTimes \in [AlarmType -> Tick]
      /\ DOMAIN Autosta \subseteq AlarmType /\ AlarmType = 0 .. tnum_alarm - 1
      /\ \A a \in DOMAIN Autosta : StartTimes[a] \in 0 .. maxval
  BY Constants, CounterTable DEF StartTimes, AlarmType
<1>1. bad = {}
  <2>1. SUFFICES ASSUME bad # {} PROVE FALSE
    OBVIOUS
  <2>2. bad \subseteq Nat
    BY <1>0
  <2>3. PICK n \in bad : \A m \in bad : n <= m
    <3> HIDE DEF bad
    <3> QED BY <2>1, <2>2, LeastNumber
  <2>4. n \in 0 .. tnum_alarm /\ ~ good(n - 1, initque[n - 1])
    BY <2>3
  <2>5. n - 1 \in D /\ initque[n - 1] = AddsAlarm(initque, n - 1)
    <3>1. n - 1 \in D
      BY <1>0, <2>4
    <3> QED BY <3>1, InitqueSteps
  <2>6. CASE n = 0
    <3>1. initque[n - 1] = << >>
      BY <2>5, <2>6 DEF AddsAlarm
    <3>2. Started(n - 1) = {}
      BY <1>0, <2>6 DEF Started
    <3>3. << >> \in Seq(AlarmType) /\ Len(<< >>) = 0
      OBVIOUS
    <3>4. Ordered(<< >>, 0, StartTimes, 1)
      BY <3>3, EmptyQueue DEF Ordered, InOrder
    <3> QED BY <2>4, <3>1, <3>2, <3>3, <3>4, EmptyQueue
  <2>7. CASE n # 0
    <3>1. n - 1 \in 0 .. tnum_alarm /\ n - 1 \in Nat /\ ~ (n <= n - 1) /\ n - 1 # -1
      BY <1>0, <2>4, <2>7
    <3>2. PICK q : q = initque[n - 1 - 1] /\ good(n - 1 - 1, q)
      <4>1. n - 1 \notin bad
        BY <2>3, <3>1
      <4> QED BY <3>1, <4>1
    <3>3. CASE n - 1 \notin DOMAIN Autosta
      <4>1. initque[n - 1] = q
        BY <2>5, <3>1, <3>2, <3>3 DEF AddsAlarm
      <4>2. Started(n - 1) = Started(n - 1 - 1)
        BY <1>0, <2>4, <3>1, <3>3 DEF Started
      <4> QED BY <2>4, <3>2, <4>1, <4>2
    <3>4. CASE n - 1 \in DOMAIN Autosta
      <4>1. initque[n - 1] = Enqueue(q, 0, StartTimes, n - 1)
        BY <2>5, <3>1, <3>2, <3>4 DEF AddsAlarm
      <4>2. n - 1 \notin Elements(q) /\ n - 1 \in AlarmType
        BY <1>0, <3>1, <3>2, <3>4 DEF Started
      <4>3. Started(n - 1) = Started(n - 1 - 1) \cup {n - 1}
        BY <1>0, <2>4, <3>1, <3>4 DEF Started
      <4>4. good(n - 1, Enqueue(q, 0, StartTimes, n - 1))
        <5>1. TickByTick => diff_tick(StartTimes[n - 1], 0) \in 1 .. maxval + 1
          BY <3>4, FirstExpiry
        <5>2. PICK e : e = Enqueue(q, 0, StartTimes, n - 1)
          OBVIOUS
        <5>3. e \in Seq(AlarmType) /\ Distinct(e) /\ Elements(e) = Started(n - 1)
          <6>1. q \in Seq(AlarmType) /\ Distinct(q) /\ Elements(q) = Started(n - 1 - 1)
            BY <3>2
          <6>2. e \in Seq(AlarmType) /\ Elements(e) = Elements(q) \cup {n - 1} /\ Distinct(e)
            BY <4>2, <5>2, <6>1, EnqueueTypes
          <6> QED BY <4>3, <6>1, <6>2
        <5>4. ASSUME TickByTick PROVE Ordered(e, 0, StartTimes, 1)
          BY <1>0, <3>2, <4>2, <5>1, <5>2, <5>4, EnqueueOrders
        <5> QED BY <5>2, <5>3, <5>4
      <4> QED BY <2>4, <4>1, <4>4
    <3> QED BY <3>3, <3>4
  <2> QED BY <2>6, <2>7
<1>2. good(tnum_alarm - 1, initque[tnum_alarm - 1])
  <2>1. tnum_alarm \in 0 .. tnum_alarm
    BY <1>0
  <2>2. tnum_alarm \notin bad
    <3> HIDE DEF bad
    <3> QED BY <1>1
  <2> QED BY <2>1, <2>2
<1>3. Started(tnum_alarm - 1) = DOMAIN Autosta
  <2>1. \A a \in DOMAIN Autosta : a \in 0 .. tnum_alarm - 1
    BY <1>0
  <2>2. \A a \in DOMAIN Autosta : a <= tnum_alarm - 1
    BY <1>0, <2>1
  <2> QED BY <2>2 DEF Started
<1> QED BY <1>2, <1>3

--------------------------------------------------------------------------------
(* Types, and the queue as a list without repetition, whatever TICKSPERBASE is. *)

ListInv == TypeOK /\ Distinct(almque)

LEMMA QueuedIsElements == Queued = Elements(almque) /\ Queued' = Elements(almque')
BY DEF Queued, Elements

LEMMA InitList == Init => ListInv
<1> SUFFICES ASSUME Init PROVE ListInv
  OBVIOUS
<1>1. almque \in Seq(AlarmType) /\ Distinct(almque)
  BY StartQueue DEF Init
<1>2. curval \in Tick /\ calling \in AlarmType \cup {ALMID_NULL}
  BY Constants DEF Init
<1>3. almval \in [AlarmType -> Tick] /\ cycle \in [AlarmType -> Cycle]
  <2>1. \A a \in DOMAIN Autosta : Autosta[a].almval \in Tick /\ Autosta[a].cycle \in Cycle
    BY Constants, CounterTable
  <2>2. 0 \in Tick /\ 0 \in Cycle
    BY Constants DEF Cycle
  <2> QED BY <2>1, <2>2 DEF Init
<1> QED BY <1>1, <1>2, <1>3 DEF ListInv, TypeOK

LEMMA SetList ==
  ASSUME ListInv, NEW a \in AlarmType, NEW val \in Tick, NEW cyc, SetAlarm(a, val, cyc)
  PROVE  ListInv'
<1>1. a \notin Elements(almque) /\ almque' = Enqueue(almque, curval, almval', a)
  BY QueuedIsElements DEF SetAlarm
<1>2. almque' \in Seq(AlarmType) /\ Distinct(almque')
  BY <1>1, EnqueueTypes DEF ListInv, TypeOK
<1> QED BY <1>2 DEF ListInv, TypeOK, SetAlarm

\* The head of the queue is called or stays.
LEMMA CallList ==
  ASSUME NEW q \in Seq(AlarmType), Distinct(q), NEW cur, NEW v, CallNextDue(q, cur, v)
  PROVE  almque' \in Seq(AlarmType) /\ Distinct(almque') /\ calling' \in AlarmType \cup {ALMID_NULL}
<1>1. CASE q # << >> /\ calling' = Head(q) /\ almque' = Tail(q)
  <2>1. 1 \in 1 .. Len(q) /\ Tail(q) = RemoveAt(q, 1)
    BY <1>1, HeadTakenOut
  <2>2. RemoveAt(q, 1) \in Seq(AlarmType) /\ Distinct(RemoveAt(q, 1))
    BY <2>1, TakenOut, TakenOutSet
  <2>3. Head(q) \in AlarmType
    BY <1>1
  <2> QED BY <1>1, <2>1, <2>2, <2>3
<1>2. CASE calling' = ALMID_NULL /\ almque' = q
  BY <1>2
<1> QED BY <1>1, <1>2 DEF CallNextDue

LEMMA CyclesAdd ==
  ASSUME NEW val \in Tick, NEW c \in Cycle
  PROVE  add_tick(val, c) \in Tick
<1>1. c \in 0 .. maxval
  BY Constants
<1>2. c \in 0 .. maxval + 1
  BY <1>1, Constants
<1> QED BY <1>2, TicksAdd

LEMMA NextList == ListInv /\ [Next]_vars => ListInv'
<1> SUFFICES ASSUME ListInv, [Next]_vars PROVE ListInv'
  OBVIOUS
<1>1. ASSUME NEW a \in AlarmType, NEW incr \in 1 .. maxval, NEW cyc \in Cycle,
             SetRelAlarm(a, incr, cyc)
      PROVE  ListInv'
  <2>1. add_tick(curval, incr) \in Tick
    <3>1. incr \in 0 .. maxval + 1
      BY Constants
    <3> QED BY <3>1, TicksAdd DEF ListInv, TypeOK
  <2> QED BY <1>1, <2>1, SetList DEF SetRelAlarm
<1>2. ASSUME NEW a \in AlarmType, NEW start \in 0 .. maxval, NEW cyc \in Cycle,
             SetAbsAlarm(a, start, cyc)
      PROVE  ListInv'
  <2>1. StartValue(start) \in Tick
    BY StartsAhead DEF ListInv, TypeOK
  <2> QED BY <1>2, <2>1, SetList DEF SetAbsAlarm
<1>3. ASSUME NEW a \in AlarmType, CancelAlarm(a)
      PROVE  ListInv'
  <2>1. PICK i \in 1 .. Len(almque) : almque[i] = a /\ almque' = RemoveAt(almque, i)
    BY <1>3, QueuedIsElements, RemovedElement DEF CancelAlarm, ListInv, TypeOK
  <2>2. almque' \in Seq(AlarmType) /\ Distinct(almque')
    BY <2>1, TakenOut, TakenOutSet DEF ListInv, TypeOK
  <2>3. cycle' \in [AlarmType -> Cycle]
    BY <1>3 DEF CancelAlarm, ListInv, TypeOK, Cycle
  <2> QED BY <1>3, <2>2, <2>3 DEF CancelAlarm, ListInv, TypeOK
<1>4. CASE SignalCounter
  <2>1. curval' \in Tick
    BY <1>4, TicksAdd, CounterTable DEF SignalCounter, ListInv, TypeOK
  <2>2. /\ almque' \in Seq(AlarmType) /\ Distinct(almque')
        /\ calling' \in AlarmType \cup {ALMID_NULL}
    BY <1>4, CallList DEF SignalCounter, ListInv, TypeOK
  <2> QED BY <1>4, <2>1, <2>2 DEF SignalCounter, ListInv, TypeOK
<1>5. CASE CallbackReturns /\ Requeues(calling)
  <2>1. calling \in AlarmType /\ calling \notin Elements(almque)
    BY <1>5, QueuedIsElements DEF CallbackReturns, Requeues, ListInv, TypeOK
  <2>2. almval' \in [AlarmType -> Tick]
    BY <1>5, <2>1, CyclesAdd DEF CallbackReturns, ListInv, TypeOK
  <2>3. PICK q : q = Enqueue(almque, curval, almval', calling) /\ CallNextDue(q, curval, almval')
    BY <1>5 DEF CallbackReturns
  <2>4. q \in Seq(AlarmType) /\ Distinct(q)
    BY <2>1, <2>3, EnqueueTypes DEF ListInv, TypeOK
  <2>5. /\ almque' \in Seq(AlarmType) /\ Distinct(almque')
        /\ calling' \in AlarmType \cup {ALMID_NULL}
    BY <2>3, <2>4, CallList
  <2> QED BY <1>5, <2>2, <2>5 DEF CallbackReturns, ListInv, TypeOK
<1>6. CASE CallbackReturns /\ ~ Requeues(calling)
  <2>1. /\ almque' \in Seq(AlarmType) /\ Distinct(almque')
        /\ calling' \in AlarmType \cup {ALMID_NULL}
    BY <1>6, CallList DEF CallbackReturns, ListInv, TypeOK
  <2> QED BY <1>6, <2>1 DEF CallbackReturns, ListInv, TypeOK
<1>7. CASE UNCHANGED vars
  BY <1>7 DEF vars, ListInv, TypeOK
<1> QED BY <1>1, <1>2, <1>3, <1>4, <1>5, <1>6, <1>7 DEF Next

\* Every variable keeps its type, in particular the counter and the expiry times their range,
\* and the links of the queue hold no alarm twice, whatever SetRelAlarm, SetAbsAlarm,
\* CancelAlarm and SignalCounter enqueue and delete, callbacks in between, for every counter
\* the generator may write.
THEOREM AlarmTypesKept == Spec => [](TypeOK /\ Distinct(almque))
<1>1. ListInv => TypeOK /\ Distinct(almque)
  BY DEF ListInv
<1> QED BY InitList, NextList, <1>1, PTL DEF Spec

--------------------------------------------------------------------------------
(* The order of expiry. *)

\* While a callback runs alarms may be due (0), else all of them are to come.
Soonest == IF calling = ALMID_NULL THEN 1 ELSE 0

\* Also when a callback runs the queue is in order, and its own alarm, if it is periodic and
\* nobody has set or cancelled it, expired just now: its next time is one cycle ahead.
AheadInv ==
  /\ ListInv
  /\ Ordered(almque, curval, almval, Soonest)
  /\ calling # ALMID_NULL /\ calling \notin Queued /\ cycle[calling] > 0 =>
       almval[calling] = curval

\* Ticks until each alarm expires, -1 if it is not set.
Ticks(q, v, cur) == [a \in AlarmType |-> IF a \in Elements(q) THEN diff_tick(v[a], cur) ELSE -1]
TicksNow == Ticks(almque, almval, curval)

LEMMA InitAhead == TickByTick /\ Init => AheadInv
<1> SUFFICES ASSUME TickByTick, Init PROVE AheadInv
  OBVIOUS
<1>1. almque = initque[tnum_alarm - 1] /\ almval = StartTimes /\ curval = 0 /\ Soonest = 1
  BY DEF Init, StartTimes, Soonest
<1>2. Ordered(almque, curval, almval, Soonest)
  BY <1>1, StartQueue
<1> QED BY <1>2, InitList DEF AheadInv, Init

\* A service that sets an alarm.
LEMMA SetAhead ==
  ASSUME AheadInv, NEW a \in AlarmType, NEW val \in Tick,
         diff_tick(val, curval) \in 1 .. maxval + 1,
         NEW cyc \in Cycle, SetAlarm(a, val, cyc)
  PROVE  /\ AheadInv'
         /\ TicksNow[a] = -1
         /\ TicksNow' = [TicksNow EXCEPT ![a] = diff_tick(val, curval)]
<1>1. /\ a \notin Elements(almque)
      /\ almque' = Enqueue(almque, curval, almval', a)
      /\ almval' = [almval EXCEPT ![a] = val] /\ cycle' = [cycle EXCEPT ![a] = cyc]
      /\ curval' = curval /\ calling' = calling
  BY QueuedIsElements DEF SetAlarm
<1>2. curval \in Tick /\ almval \in [AlarmType -> Tick] /\ cycle \in [AlarmType -> Cycle]
      /\ almque \in Seq(AlarmType)
  BY DEF AheadInv, ListInv, TypeOK
<1>3. Soonest \in {0, 1} /\ Soonest' = Soonest
  BY <1>1 DEF Soonest
<1>4. Ordered(almque, curval, almval', Soonest)
  BY <1>1, <1>2, SetOthersOrdered DEF AheadInv
<1>5. almval' \in [AlarmType -> Tick] /\ almval'[a] = val
  BY <1>1, <1>2
<1>6. /\ Ordered(almque', curval, almval', Soonest)
      /\ Elements(almque') = Elements(almque) \cup {a}
  <2>1. PICK v, low, q : v = almval' /\ low = Soonest /\ q = almque
    OBVIOUS
  <2>2. diff_tick(v[a], curval) \in 1 .. maxval + 1
    BY <1>5, <2>1
  <2>3. v \in [AlarmType -> Tick] /\ low \in {0, 1} /\ Ordered(q, curval, v, low)
        /\ a \notin Elements(q)
    BY <1>1, <1>3, <1>4, <1>5, <2>1
  <2>4. /\ Ordered(Enqueue(q, curval, v, a), curval, v, low)
        /\ Elements(Enqueue(q, curval, v, a)) = Elements(q) \cup {a}
    BY <1>2, <2>2, <2>3, EnqueueOrders
  <2> QED BY <1>1, <2>1, <2>4
<1>7. calling' # ALMID_NULL /\ calling' \notin Queued' /\ cycle'[calling'] > 0 =>
        almval'[calling'] = curval'
  <2>1. Queued' = Queued \cup {a}
    BY <1>6, QueuedIsElements
  <2> QED BY <1>1, <1>2, <2>1 DEF AheadInv
<1>8. ListInv'
  BY SetList DEF AheadInv
<1>9. AheadInv'
  BY <1>1, <1>3, <1>6, <1>7, <1>8 DEF AheadInv
<1>10. \A b \in Elements(almque) : b \in AlarmType /\ b # a /\ almval'[b] = almval[b]
  BY <1>1, <1>2, QueueFacts
<1> QED BY <1>1, <1>2, <1>5, <1>6, <1>9, <1>10 DEF TicksNow, Ticks

LEMMA CancelAhead ==
  ASSUME AheadInv, NEW a \in AlarmType, CancelAlarm(a), ListInv'
  PROVE  /\ AheadInv'
         /\ TicksNow[a] # -1
         /\ TicksNow' = [TicksNow EXCEPT ![a] = -1]
<1>1. /\ a \in Elements(almque) /\ almque' = RemoveFirst(almque, a)
      /\ cycle' = [cycle EXCEPT ![a] = 0]
      /\ curval' = curval /\ almval' = almval /\ calling' = calling
  BY QueuedIsElements DEF CancelAlarm
<1>2. curval \in Tick /\ almval \in [AlarmType -> Tick] /\ cycle \in [AlarmType -> Cycle]
  BY DEF AheadInv, ListInv, TypeOK
<1>3. /\ Ordered(almque', curval, almval, Soonest) /\ Soonest' = Soonest
      /\ Elements(almque') = Elements(almque) \ {a}
  <2>1. PICK v, low, q : v = almval /\ low = Soonest /\ q = almque
    OBVIOUS
  <2>2. v \in [AlarmType -> Tick] /\ Ordered(q, curval, v, low) /\ a \in Elements(q)
    BY <1>1, <1>2, <2>1 DEF AheadInv
  <2>3. /\ Ordered(RemoveFirst(q, a), curval, v, low)
        /\ Elements(RemoveFirst(q, a)) = Elements(q) \ {a}
    <3>1. curval \in Tick
      BY <1>2
    <3> QED BY <2>2, <3>1, RemoveOrders
  <2>4. Soonest' = Soonest
    BY <1>1 DEF Soonest
  <2> QED BY <1>1, <2>1, <2>3, <2>4
<1>4. calling' # ALMID_NULL /\ calling' \notin Queued' /\ cycle'[calling'] > 0 =>
        almval'[calling'] = curval'
  <2>1. Queued' = Queued \ {a}
    BY <1>3, QueuedIsElements
  <2>2. cycle'[a] = 0
    BY <1>1, <1>2
  <2> QED BY <1>1, <1>2, <2>1, <2>2 DEF AheadInv
<1>5. AheadInv'
  BY <1>1, <1>3, <1>4 DEF AheadInv
<1>6. diff_tick(almval[a], curval) # -1
  <2>1. diff_tick(almval[a], curval) \in Tick
    BY <1>2, TicksDiffer
  <2> QED BY <2>1, Constants
<1> QED BY <1>1, <1>3, <1>5, <1>6 DEF TicksNow, Ticks

\* The alarm at the head of queue q is taken out to be called when it is one of those due.
Called(q, cur, v, due) ==
  /\ Ordered(almque', cur, v, IF calling' = ALMID_NULL THEN 1 ELSE 0)
  /\ calling' # ALMID_NULL => v[calling'] = cur
  /\ due = {} => calling' = ALMID_NULL /\ Ticks(almque', v, cur) = Ticks(q, v, cur)
  /\ due # {} => /\ calling' \in due
                 /\ Ticks(almque', v, cur) = [Ticks(q, v, cur) EXCEPT ![calling'] = -1]

\* SignalCounter's test calls an alarm that is due, as long as one is.
LEMMA CallFires ==
  ASSUME NEW cur \in Tick, NEW v \in [AlarmType -> Tick], NEW q, Ordered(q, cur, v, 0),
         CallNextDue(q, cur, v),
         NEW due, due = {a \in AlarmType : Ticks(q, v, cur)[a] = 0}
  PROVE  Called(q, cur, v, due)
<1>1. Elements(q) \subseteq AlarmType
  BY QueueFacts DEF Ordered
<1>2. due = {a \in Elements(q) : Left(v, cur)[a] = 0}
  BY <1>1 DEF Ticks, Left
<1>3. CASE q # << >> /\ diff_tick(cur, v[Head(q)]) <= maxval
  <2>1. calling' = Head(q) /\ almque' = Tail(q)
    BY <1>3 DEF CallNextDue
  <2>2. /\ Head(q) \in Elements(q) /\ Head(q) \in AlarmType
        /\ Left(v, cur)[Head(q)] = 0 /\ v[Head(q)] = cur
        /\ Ordered(Tail(q), cur, v, 0) /\ Elements(Tail(q)) = Elements(q) \ {Head(q)}
    BY <1>3, FirstIsDue
  <2>3. calling' # ALMID_NULL
    BY <2>1, <2>2, Constants
  <2>4. calling' \in due
    BY <1>2, <2>1, <2>2
  <2>5. Ticks(almque', v, cur) = [Ticks(q, v, cur) EXCEPT ![calling'] = -1]
    BY <2>1, <2>2 DEF Ticks
  <2> QED BY <2>1, <2>2, <2>3, <2>4, <2>5 DEF Called
<1>4. CASE ~ (q # << >> /\ diff_tick(cur, v[Head(q)]) <= maxval)
  <2>1. calling' = ALMID_NULL /\ almque' = q
    BY <1>4 DEF CallNextDue
  <2>2. Ordered(q, cur, v, 1) /\ due = {}
    BY <1>2, <1>4, FirstIsDue
  <2> QED BY <2>1, <2>2 DEF Called
<1> QED BY <1>3, <1>4

\* The counter advances by one tick: every alarm in the queue is one tick closer.
LEMMA SignalAhead ==
  ASSUME TickByTick, AheadInv, SignalCounter, ListInv',
         NEW l, l = [a \in AlarmType |-> IF TicksNow[a] = -1 THEN -1 ELSE TicksNow[a] - 1],
         NEW due, due = {a \in AlarmType : l[a] = 0}
  PROVE  /\ AheadInv'
         /\ due = {} => calling' = ALMID_NULL /\ TicksNow' = l
         /\ due # {} => calling' \in due /\ TicksNow' = [l EXCEPT ![calling'] = -1]
<1>1. /\ calling = ALMID_NULL /\ curval' = add_tick(curval, tickbase)
      /\ CallNextDue(almque, curval', almval)
      /\ almval' = almval /\ cycle' = cycle
  BY DEF SignalCounter
<1>2. curval \in Tick /\ curval' \in Tick /\ almval \in [AlarmType -> Tick]
      /\ Elements(almque) \subseteq AlarmType
  BY QueueFacts DEF AheadInv, ListInv, TypeOK
<1>3. ASSUME NEW a \in Elements(almque)
      PROVE  /\ a \in AlarmType /\ Left(almval, curval)[a] \in 1 .. maxval + 1
             /\ Left(almval, curval)[a] = diff_tick(almval[a], curval)
             /\ diff_tick(almval[a], curval') = diff_tick(almval[a], curval) - 1
             /\ Left(almval, curval')[a] = Left(almval, curval)[a] - 1
  <2>1. a \in AlarmType /\ Left(almval, curval)[a] \in 1 .. maxval + 1
    BY <1>1, <1>2 DEF AheadInv, Ordered, Soonest
  <2>2. Left(almval, curval)[a] = diff_tick(almval[a], curval) /\ almval[a] \in Tick
    BY <1>2, <2>1 DEF Left
  <2>3. diff_tick(almval[a], curval) >= 1
    BY <2>1, <2>2, Constants
  <2>4. diff_tick(almval[a], curval') = diff_tick(almval[a], curval) - 1
    BY <1>1, <1>2, <2>2, <2>3, TickPasses
  <2> QED BY <2>1, <2>2, <2>4 DEF Left
<1>4. Ordered(almque, curval', almval, 0)
  <2>1. \A a \in Elements(almque) : Left(almval, curval')[a] \in 0 .. maxval + 1
    BY <1>3, Constants
  <2>2. InOrder(almque, Left(almval, curval'))
    <3>1. ASSUME NEW i \in 1 .. Len(almque), NEW j \in 1 .. Len(almque), i < j
          PROVE  Left(almval, curval')[almque[i]] <= Left(almval, curval')[almque[j]]
      <4>1. almque[i] \in Elements(almque) /\ almque[j] \in Elements(almque)
        BY DEF Elements
      <4>2. Left(almval, curval)[almque[i]] <= Left(almval, curval)[almque[j]]
        BY <3>1 DEF AheadInv, Ordered, InOrder
      <4> QED BY <1>3, <4>1, <4>2, Constants
    <3> QED BY <3>1 DEF InOrder
  <2> QED BY <2>1, <2>2 DEF AheadInv, Ordered
<1>5. l = Ticks(almque, almval, curval')
  <2>1. ASSUME NEW a \in AlarmType PROVE l[a] = Ticks(almque, almval, curval')[a]
    <3>1. CASE a \in Elements(almque)
      BY <1>3, <3>1, Constants DEF TicksNow, Ticks
    <3>2. CASE a \notin Elements(almque)
      BY <3>2 DEF TicksNow, Ticks
    <3> QED BY <3>1, <3>2
  <2> QED BY <2>1 DEF Ticks
<1>6. /\ Ordered(almque', curval', almval, IF calling' = ALMID_NULL THEN 1 ELSE 0)
      /\ calling' # ALMID_NULL => almval[calling'] = curval'
      /\ due = {} => calling' = ALMID_NULL /\ Ticks(almque', almval, curval') = l
      /\ due # {} => calling' \in due /\ Ticks(almque', almval, curval') = [l EXCEPT ![calling'] = -1]
  <2>1. PICK q, v, cur : q = almque /\ v = almval /\ cur = curval'
    OBVIOUS
  <2>2. /\ cur \in Tick /\ v \in [AlarmType -> Tick] /\ Ordered(q, cur, v, 0)
        /\ CallNextDue(q, cur, v) /\ l = Ticks(q, v, cur)
    BY <1>1, <1>2, <1>4, <1>5, <2>1
  <2>3. due = {a \in AlarmType : Ticks(q, v, cur)[a] = 0}
    BY <2>2
  <2>4. Called(q, cur, v, due)
    BY <2>2, <2>3, CallFires
  <2> QED BY <2>1, <2>2, <2>4 DEF Called
<1>7. AheadInv'
  BY <1>1, <1>6 DEF AheadInv, Soonest
<1> QED BY <1>1, <1>6, <1>7 DEF TicksNow

\* A callback returns: a periodic alarm is set for its next time, then the next that is due
\* is called.
LEMMA ReturnAhead ==
  ASSUME AheadInv, CallbackReturns, ListInv',
         NEW l, l = IF TicksNow[calling] = -1 /\ cycle[calling] > 0
                    THEN [TicksNow EXCEPT ![calling] = cycle[calling]] ELSE TicksNow,
         NEW due, due = {a \in AlarmType : l[a] = 0}
  PROVE  /\ AheadInv'
         /\ due = {} => calling' = ALMID_NULL /\ TicksNow' = l
         /\ due # {} => calling' \in due /\ TicksNow' = [l EXCEPT ![calling'] = -1]
<1>1. /\ calling # ALMID_NULL /\ calling \in AlarmType
      /\ curval' = curval /\ cycle' = cycle
      /\ curval \in Tick /\ almval \in [AlarmType -> Tick] /\ cycle[calling] \in Cycle
      /\ almque \in Seq(AlarmType)
  BY DEF CallbackReturns, AheadInv, ListInv, TypeOK
<1>2. Ordered(almque, curval, almval, 0)
  BY <1>1 DEF AheadInv, Soonest
<1>3. TicksNow[calling] = -1 <=> calling \notin Elements(almque)
  <2>1. diff_tick(almval[calling], curval) # -1
    <3>1. diff_tick(almval[calling], curval) \in Tick
      BY <1>1, TicksDiffer
    <3> QED BY <3>1, Constants
  <2> QED BY <1>1, <2>1 DEF TicksNow, Ticks
<1>4. PICK q, v : /\ CallNextDue(q, curval, v) /\ almval' = v /\ v \in [AlarmType -> Tick]
                  /\ Ordered(q, curval, v, 0) /\ l = Ticks(q, v, curval)
  <2>1. CASE Requeues(calling)
    <3>1. calling \notin Elements(almque) /\ cycle[calling] > 0
      BY <2>1, QueuedIsElements DEF Requeues
    <3>2. cycle[calling] \in 1 .. maxval + 1 /\ cycle[calling] \in 0 .. maxval + 1
      <4>1. cycle[calling] \in 0 .. maxval
        BY <1>1, Constants
      <4> QED BY <3>1, <4>1, Constants
    <3>3. almval[calling] = curval
      BY <1>1, <3>1, QueuedIsElements DEF AheadInv
    <3>4. PICK v : /\ v = [almval EXCEPT ![calling] = add_tick(@, cycle[calling])]
                   /\ almval' = v /\ CallNextDue(Enqueue(almque, curval, v, calling), curval, v)
      BY <2>1 DEF CallbackReturns
    <3>5. v[calling] = add_tick(curval, cycle[calling]) /\ v \in [AlarmType -> Tick]
          /\ diff_tick(v[calling], curval) = cycle[calling]
      BY <1>1, <3>2, <3>3, <3>4, TicksAdd
    <3>6. Ordered(almque, curval, v, 0)
      BY <1>1, <1>2, <3>1, <3>4, SetOthersOrdered
    <3>7. PICK q : q = Enqueue(almque, curval, v, calling)
      OBVIOUS
    <3>8. Ordered(q, curval, v, 0) /\ Elements(q) = Elements(almque) \cup {calling}
      BY <1>1, <3>1, <3>2, <3>5, <3>6, <3>7, EnqueueOrders
    <3>9. \A b \in Elements(almque) : b \in AlarmType /\ b # calling /\ v[b] = almval[b]
      BY <1>1, <3>1, <3>4, QueueFacts
    <3>10. l = Ticks(q, v, curval)
      BY <1>1, <1>3, <3>1, <3>5, <3>8, <3>9 DEF TicksNow, Ticks
    <3> QED BY <3>4, <3>5, <3>7, <3>8, <3>10
  <2>2. CASE ~ Requeues(calling)
    <3>1. l = TicksNow
      BY <1>3, <2>2, QueuedIsElements DEF Requeues
    <3>2. CallNextDue(almque, curval, almval) /\ almval' = almval
      BY <2>2 DEF CallbackReturns
    <3> QED BY <1>1, <1>2, <3>1, <3>2 DEF TicksNow
  <2> QED BY <2>1, <2>2
<1>5. /\ Ordered(almque', curval, v, IF calling' = ALMID_NULL THEN 1 ELSE 0)
      /\ calling' # ALMID_NULL => v[calling'] = curval
      /\ due = {} => calling' = ALMID_NULL /\ Ticks(almque', v, curval) = l
      /\ due # {} => calling' \in due /\ Ticks(almque', v, curval) = [l EXCEPT ![calling'] = -1]
  <2>1. PICK cur : cur = curval
    OBVIOUS
  <2>2. /\ cur \in Tick /\ v \in [AlarmType -> Tick] /\ Ordered(q, cur, v, 0)
        /\ CallNextDue(q, cur, v) /\ l = Ticks(q, v, cur)
    BY <1>1, <1>4, <2>1
  <2>3. due = {a \in AlarmType : Ticks(q, v, cur)[a] = 0}
    BY <2>2
  <2>4. Called(q, cur, v, due)
    BY <2>2, <2>3, CallFires
  <2> QED BY <2>1, <2>2, <2>4 DEF Called
<1>6. AheadInv'
  BY <1>1, <1>4, <1>5 DEF AheadInv, Soonest
<1> QED BY <1>1, <1>4, <1>5, <1>6 DEF TicksNow

--------------------------------------------------------------------------------
(* The theorems on the order of expiry. *)

LEMMA SetRelGives ==
  ASSUME AheadInv, NEW a \in AlarmType, NEW incr \in 1 .. maxval, NEW cyc \in Cycle,
         SetRelAlarm(a, incr, cyc)
  PROVE  /\ AheadInv'
         /\ TicksNow[a] = -1
         /\ TicksNow' = [TicksNow EXCEPT ![a] = incr]
<1>1. curval \in Tick /\ incr \in 0 .. maxval + 1 /\ incr \in 1 .. maxval + 1
  BY Constants DEF AheadInv, ListInv, TypeOK
<1>2. PICK val \in Tick : val = add_tick(curval, incr) /\ diff_tick(val, curval) = incr
  BY <1>1, TicksAdd
<1>3. SetAlarm(a, val, cyc)
  BY <1>2 DEF SetRelAlarm
<1> QED BY <1>1, <1>2, <1>3, SetAhead

LEMMA SetAbsGives ==
  ASSUME AheadInv, NEW a \in AlarmType, NEW start \in 0 .. maxval, NEW cyc \in Cycle,
         SetAbsAlarm(a, start, cyc)
  PROVE  \E n \in 1 .. maxval + 1 :
           /\ n = diff_tick(StartValue(start), curval)
           /\ AheadInv'
           /\ TicksNow[a] = -1
           /\ TicksNow' = [TicksNow EXCEPT ![a] = n]
<1>1. curval \in Tick
  BY DEF AheadInv, ListInv, TypeOK
<1>2. PICK val \in Tick : val = StartValue(start) /\ diff_tick(val, curval) \in 1 .. maxval + 1
  BY <1>1, StartsAhead
<1>3. SetAlarm(a, val, cyc)
  BY <1>2 DEF SetAbsAlarm
<1>4. /\ AheadInv'
      /\ TicksNow[a] = -1
      /\ TicksNow' = [TicksNow EXCEPT ![a] = diff_tick(val, curval)]
  BY <1>2, <1>3, SetAhead
<1> QED BY <1>2, <1>4

LEMMA NextAhead == TickByTick /\ AheadInv /\ [Next]_vars => AheadInv'
<1> SUFFICES ASSUME TickByTick, AheadInv, [Next]_vars PROVE AheadInv'
  OBVIOUS
<1>1. ListInv'
  BY NextList DEF AheadInv
<1>2. ASSUME NEW a \in AlarmType, NEW incr \in 1 .. maxval, NEW cyc \in Cycle,
             SetRelAlarm(a, incr, cyc)
      PROVE  AheadInv'
  BY <1>2, SetRelGives
<1>3. ASSUME NEW a \in AlarmType, NEW start \in 0 .. maxval, NEW cyc \in Cycle,
             SetAbsAlarm(a, start, cyc)
      PROVE  AheadInv'
  BY <1>3, SetAbsGives
<1>4. ASSUME NEW a \in AlarmType, CancelAlarm(a)
      PROVE  AheadInv'
  BY <1>1, <1>4, CancelAhead
<1>5. CASE SignalCounter
  BY <1>1, <1>5, SignalAhead
<1>6. CASE CallbackReturns
  BY <1>1, <1>6, ReturnAhead
<1>7. CASE UNCHANGED vars
  <2>1. Soonest' = Soonest /\ Queued' = Queued
    BY <1>7 DEF vars, Soonest, Queued
  <2> QED BY <1>1, <1>7, <2>1 DEF vars, AheadInv
<1> QED BY <1>2, <1>3, <1>4, <1>5, <1>6, <1>7 DEF Next

LEMMA AheadOrder == AheadInv => QueueAhead
<1> SUFFICES ASSUME AheadInv PROVE QueueAhead
  OBVIOUS
<1>1. almque \in Seq(AlarmType) /\ Distinct(almque) /\ Queued = Elements(almque)
  BY QueuedIsElements DEF AheadInv, ListInv, TypeOK
<1>2. \A i \in 1 .. Len(almque) : almque[i] \in AlarmType /\ almque[i] \in Elements(almque)
  BY <1>1, QueueFacts DEF Elements
<1>3. \A a \in AlarmType : Left(almval, curval)[a] = Remaining(a)
  BY DEF Left, Remaining
<1>4. ASSUME calling = ALMID_NULL
      PROVE  /\ \A a \in Queued : Remaining(a) \in 1 .. maxval + 1
             /\ \A i, j \in 1 .. Len(almque) : i < j => Remaining(almque[i]) <= Remaining(almque[j])
  <2>1. /\ \A a \in Elements(almque) : Left(almval, curval)[a] \in 1 .. maxval + 1
        /\ InOrder(almque, Left(almval, curval))
    BY <1>4 DEF AheadInv, Ordered, Soonest
  <2>2. Elements(almque) \subseteq AlarmType
    BY <1>1, QueueFacts
  <2> QED BY <1>1, <1>2, <1>3, <2>1, <2>2 DEF InOrder
<1> QED BY <1>1, <1>4 DEF QueueAhead, Distinct

\* While no callback runs every alarm in the queue is still to come, at most one turn of the
\* counter ahead, and the queue is in the order of expiry (enqueue_alarm, SignalCounter).
THEOREM QueueKept == TickByTick => (Spec => []QueueAhead)
<1> SUFFICES ASSUME TickByTick PROVE Spec => []QueueAhead
  OBVIOUS
<1>1. Init => AheadInv
  BY InitAhead
<1>2. AheadInv /\ [Next]_vars => AheadInv'
  BY NextAhead
<1> QED BY <1>1, <1>2, AheadOrder, PTL DEF Spec

--------------------------------------------------------------------------------
(* The refinement of AlarmTimers.  The counter of the timers is the counter *)
(* modulo its range of start, maxval + 1: it has two turns of it.           *)

LEMMA Modulo ==
  ASSUME NEW M \in Nat \ {0}, NEW x \in Int, NEW q \in Int, NEW r \in 0 .. M - 1, x = M * q + r
  PROVE  x % M = r
OBVIOUS

TimersNow == curval % (maxval + 1)

LEMMA TurnOfCounter ==
  ASSUME NEW cur \in Tick
  PROVE  cur % (maxval + 1) = IF cur <= maxval THEN cur ELSE cur - (maxval + 1)
<1>1. maxval \in Nat /\ maxval + 1 \in Nat \ {0} /\ cur \in Int /\ cur >= 0 /\ cur <= 2 * maxval + 1
  BY Constants
<1>2. CASE cur <= maxval
  <2>1. cur = (maxval + 1) * 0 + cur /\ cur \in 0 .. (maxval + 1) - 1
    BY <1>1, <1>2
  <2> QED BY <1>1, <1>2, <2>1, Modulo
<1>3. CASE cur > maxval
  <2>1. /\ cur = (maxval + 1) * 1 + (cur - (maxval + 1))
        /\ cur - (maxval + 1) \in 0 .. (maxval + 1) - 1
    BY <1>1, <1>3
  <2> QED BY <1>1, <1>3, <2>1, Modulo
<1> QED BY <1>1, <1>2, <1>3

\* StartValue is the next time at which the counter has the value start.
LEMMA StartsAt ==
  ASSUME curval \in Tick, NEW start \in 0 .. maxval
  PROVE  (TimersNow + diff_tick(StartValue(start), curval)) % (maxval + 1) = start
<1>1. PICK M, c, n : /\ M = maxval + 1 /\ c = TimersNow /\ n = diff_tick(StartValue(start), curval)
  OBVIOUS
<1>2. maxval \in Nat /\ M \in Nat \ {0} /\ curval \in Int /\ curval >= 0 /\ curval <= 2 * maxval + 1
  BY <1>1, Constants
<1>3. c = IF curval <= maxval THEN curval ELSE curval - M
  BY <1>1, TurnOfCounter DEF TimersNow
<1>4. n \in Int /\ (c + n = M * 0 + start \/ c + n = M * 1 + start \/ c + n = M * 2 + start)
  BY <1>1, <1>2, <1>3 DEF StartValue, diff_tick, maxval2
<1>5. c + n \in Int /\ start \in 0 .. M - 1
  BY <1>1, <1>2, <1>3, <1>4
<1>6. \A q \in {0, 1, 2} : c + n = M * q + start => (c + n) % M = start
  BY <1>2, <1>5, Modulo
<1> QED BY <1>1, <1>4, <1>6

LEMMA NextTurn ==
  ASSUME TickByTick, NEW cur \in Tick
  PROVE  add_tick(cur, tickbase) % (maxval + 1) = ((cur % (maxval + 1)) + 1) % (maxval + 1)
<1>1. PICK M, c, d : M = maxval + 1 /\ c = cur % (maxval + 1) /\ d = add_tick(cur, tickbase)
  OBVIOUS
<1>2. maxval \in Nat /\ M \in Nat \ {0} /\ cur \in Int /\ cur >= 0 /\ cur <= 2 * maxval + 1
      /\ 1 \in 0 .. maxval + 1
  BY <1>1, Constants
<1>3. c = IF cur <= maxval THEN cur ELSE cur - M
  BY <1>1, TurnOfCounter
<1>4. d = IF cur <= 2 * maxval THEN cur + 1 ELSE 0
  BY <1>1, <1>2 DEF add_tick, TickByTick, maxval2
<1>5. d % M = IF d <= maxval THEN d ELSE d - M
  <2>1. d \in Tick
    BY <1>2, <1>4, Constants
  <2> QED BY <1>1, <2>1, TurnOfCounter
<1>6. CASE c < maxval
  <2>1. c + 1 = M * 0 + (c + 1) /\ c + 1 \in 0 .. M - 1 /\ c + 1 \in Int
    BY <1>1, <1>2, <1>3, <1>6
  <2>2. (c + 1) % M = c + 1
    BY <1>2, <2>1, Modulo
  <2> QED BY <1>1, <1>2, <1>3, <1>4, <1>5, <1>6, <2>2
<1>7. CASE c = maxval
  <2>1. c + 1 = M * 1 + 0 /\ 0 \in 0 .. M - 1 /\ c + 1 \in Int
    BY <1>1, <1>2, <1>7
  <2>2. (c + 1) % M = 0
    BY <1>2, <2>1, Modulo
  <2> QED BY <1>1, <1>2, <1>3, <1>4, <1>5, <1>7, <2>2
<1> QED BY <1>1, <1>2, <1>3, <1>6, <1>7

TimersLeft == [a \in AlarmType |-> IF a \in Queued THEN Remaining(a) ELSE -1]

LEMMA TimersLeftIsTicks == TimersLeft = TicksNow /\ TimersLeft' = TicksNow'
BY QueuedIsElements DEF TimersLeft, TicksNow, Ticks, Remaining

LEMMA TimersInit == AheadInv /\ Init => Timers!Init
<1> SUFFICES ASSUME AheadInv, Init PROVE Timers!Init
  OBVIOUS
<1>1. TimersNow = 0
  <2>1. 0 \in Tick /\ 0 <= maxval
    BY Constants
  <2> QED BY <2>1, TurnOfCounter DEF TimersNow, Init
<1>2. TimersLeft \in [AlarmType -> 1 .. maxval + 1 \cup {-1}]
  <2>1. \A a \in Elements(almque) : Left(almval, curval)[a] \in 1 .. maxval + 1
    BY DEF AheadInv, Ordered, Init, Soonest
  <2>2. \A a \in AlarmType : Left(almval, curval)[a] = diff_tick(almval[a], curval)
    BY DEF Left
  <2> QED BY <2>1, <2>2, TimersLeftIsTicks DEF TicksNow, Ticks
<1>3. cycle \in [AlarmType -> 0 .. (maxval + 1) - 1]
  <2>1. cycle \in [AlarmType -> Cycle] /\ Cycle \subseteq 0 .. (maxval + 1) - 1
    BY Constants DEF AheadInv, ListInv, TypeOK
  <2> QED BY <2>1
<1>4. calling = ALMID_NULL
  BY DEF Init
<1> QED BY <1>1, <1>2, <1>3, <1>4 DEF Timers!Init, TimersLeft, TimersNow

LEMMA TimersStep == TickByTick /\ AheadInv /\ [Next]_vars => [Timers!Next]_Timers!vars
<1> SUFFICES ASSUME TickByTick, AheadInv, [Next]_vars PROVE [Timers!Next]_Timers!vars
  OBVIOUS
<1>0. ListInv' /\ curval \in Tick /\ cycle \in [AlarmType -> Cycle]
      /\ Cycle \subseteq 0 .. (maxval + 1) - 1
  BY NextList, Constants DEF AheadInv, ListInv, TypeOK
<1>1. ASSUME NEW a \in AlarmType, NEW incr \in 1 .. maxval, NEW cyc \in Cycle,
             SetRelAlarm(a, incr, cyc)
      PROVE  Timers!Next
  <2>1. TimersLeft[a] = -1 /\ TimersLeft' = [TimersLeft EXCEPT ![a] = incr]
    BY <1>1, SetRelGives, TimersLeftIsTicks
  <2>2. cycle' = [cycle EXCEPT ![a] = cyc] /\ calling' = calling /\ TimersNow' = TimersNow
    BY <1>1 DEF SetRelAlarm, SetAlarm, TimersNow
  <2>3. Timers!Start(a, incr, cyc)
    BY <2>1, <2>2 DEF Timers!Start, TimersLeft, TimersNow
  <2>4. incr \in 1 .. (maxval + 1) - 1 /\ cyc \in 0 .. (maxval + 1) - 1
    BY <1>0, Constants
  <2> QED BY <2>3, <2>4 DEF Timers!Next
<1>2. ASSUME NEW a \in AlarmType, NEW start \in 0 .. maxval, NEW cyc \in Cycle,
             SetAbsAlarm(a, start, cyc)
      PROVE  Timers!Next
  <2>1. PICK n \in 1 .. maxval + 1 :
          /\ n = diff_tick(StartValue(start), curval)
          /\ TimersLeft[a] = -1 /\ TimersLeft' = [TimersLeft EXCEPT ![a] = n]
    BY <1>2, SetAbsGives, TimersLeftIsTicks
  <2>2. cycle' = [cycle EXCEPT ![a] = cyc] /\ calling' = calling /\ TimersNow' = TimersNow
    BY <1>2 DEF SetAbsAlarm, SetAlarm, TimersNow
  <2>3. (TimersNow + n) % (maxval + 1) = start
    BY <1>0, <2>1, StartsAt
  <2>4. Timers!StartAt(a, start, cyc)
    BY <2>1, <2>2, <2>3 DEF Timers!StartAt, Timers!Start, TimersLeft, TimersNow
  <2>5. start \in 0 .. (maxval + 1) - 1 /\ cyc \in 0 .. (maxval + 1) - 1
    BY <1>0, Constants
  <2> QED BY <2>4, <2>5 DEF Timers!Next
<1>3. ASSUME NEW a \in AlarmType, CancelAlarm(a)
      PROVE  Timers!Next
  <2>1. TimersLeft[a] # -1 /\ TimersLeft' = [TimersLeft EXCEPT ![a] = -1]
    BY <1>0, <1>3, CancelAhead, TimersLeftIsTicks
  <2>2. cycle' = [cycle EXCEPT ![a] = 0] /\ calling' = calling /\ TimersNow' = TimersNow
    BY <1>3 DEF CancelAlarm, TimersNow
  <2>3. Timers!Stop(a)
    BY <2>1, <2>2 DEF Timers!Stop, TimersLeft, TimersNow
  <2> QED BY <2>3 DEF Timers!Next
<1>4. CASE SignalCounter
  <2>1. PICK l : l = [a \in AlarmType |-> IF TimersLeft[a] = -1 THEN -1 ELSE TimersLeft[a] - 1]
    OBVIOUS
  <2>2. PICK due : due = {a \in AlarmType : l[a] = 0}
    OBVIOUS
  <2>3. /\ due = {} => calling' = ALMID_NULL /\ TimersLeft' = l
        /\ due # {} => calling' \in due /\ TimersLeft' = [l EXCEPT ![calling'] = -1]
    <3>1. TimersLeft = TicksNow /\ TimersLeft' = TicksNow'
      BY TimersLeftIsTicks
    <3>2. l = [a \in AlarmType |-> IF TicksNow[a] = -1 THEN -1 ELSE TicksNow[a] - 1]
      BY <2>1, <3>1
    <3>3. /\ due = {} => calling' = ALMID_NULL /\ TicksNow' = l
          /\ due # {} => calling' \in due /\ TicksNow' = [l EXCEPT ![calling'] = -1]
      BY <1>0, <1>4, <2>2, <3>2, SignalAhead
    <3> QED BY <3>1, <3>3
  <2>5. calling = ALMID_NULL /\ cycle' = cycle /\ TimersNow' = (TimersNow + 1) % (maxval + 1)
    BY <1>0, <1>4, NextTurn DEF SignalCounter, TimersNow
  <2>6. Timers!Signal
    BY <2>1, <2>2, <2>3, <2>5 DEF Timers!Signal, Timers!FireOneOf, TimersLeft, TimersNow
  <2> QED BY <2>6 DEF Timers!Next
<1>5. CASE CallbackReturns
  <2>1. PICK l : l = IF TimersLeft[calling] = -1 /\ cycle[calling] > 0
                     THEN [TimersLeft EXCEPT ![calling] = cycle[calling]] ELSE TimersLeft
    OBVIOUS
  <2>2. PICK due : due = {a \in AlarmType : l[a] = 0}
    OBVIOUS
  <2>3. /\ due = {} => calling' = ALMID_NULL /\ TimersLeft' = l
        /\ due # {} => calling' \in due /\ TimersLeft' = [l EXCEPT ![calling'] = -1]
    <3>1. l = IF TicksNow[calling] = -1 /\ cycle[calling] > 0
              THEN [TicksNow EXCEPT ![calling] = cycle[calling]] ELSE TicksNow
      BY <2>1, TimersLeftIsTicks
    <3>2. /\ due = {} => calling' = ALMID_NULL /\ TicksNow' = l
          /\ due # {} => calling' \in due /\ TicksNow' = [l EXCEPT ![calling'] = -1]
      BY <1>0, <1>5, <2>2, <3>1, ReturnAhead
    <3> QED BY <3>2, TimersLeftIsTicks
  <2>5. calling # ALMID_NULL /\ cycle' = cycle /\ TimersNow' = TimersNow
    BY <1>5 DEF CallbackReturns, TimersNow
  <2>6. Timers!Return
    BY <2>1, <2>2, <2>3, <2>5 DEF Timers!Return, Timers!FireOneOf, TimersLeft, TimersNow
  <2> QED BY <2>6 DEF Timers!Next
<1>6. CASE UNCHANGED vars
  BY <1>6 DEF vars, Timers!vars, Queued, Remaining
<1> QED BY <1>1, <1>2, <1>3, <1>4, <1>5, <1>6 DEF Next

\* The queue and its modular comparisons implement independent countdown timers: every alarm
\* expires at the tick it was set for, whatever is set and cancelled between the callbacks of
\* SignalCounter, for any number of alarms and any range of the counter.
THEOREM TimersImplemented == TickByTick => (Spec => ImplementsTimers)
<1> SUFFICES ASSUME TickByTick PROVE Spec => ImplementsTimers
  OBVIOUS
<1>1. Init => AheadInv
  BY InitAhead
<1>2. AheadInv /\ [Next]_vars => AheadInv'
  BY NextAhead
<1>3. AheadInv /\ Init => Timers!Init
  BY TimersInit
<1>4. AheadInv /\ [Next]_vars => [Timers!Next]_Timers!vars
  BY TimersStep
<1> QED BY <1>1, <1>2, <1>3, <1>4, PTL DEF Spec, ImplementsTimers, Timers!Spec

================================================================================
