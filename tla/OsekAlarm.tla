------------------------------- MODULE OsekAlarm -------------------------------
(***************************************************************************)
(* One counter of the OSEK kernel and its alarms (toppers_osek/kernel/     *)
(* alarm.c): the alarm queue, ordered by expiry, and SignalCounter, which  *)
(* advances the counter and unlocks the CPU around every alarm callback.   *)
(*                                                                         *)
(* SignalCounter is the only service that is not one step.  Callbacks, and *)
(* interrupt handlers that nest into it, set and cancel alarms between its *)
(* steps; a call from a task falls between two calls of it.                *)
(* The linked list almcb_next/almcb_prev is the sequence almque.           *)
(***************************************************************************)
EXTENDS Integers, Sequences, SequencesExt

CONSTANTS
  tnum_alarm,    \* number of alarms of the counter
  maxval,        \* MAXALLOWEDVALUE of the counter
  tickbase,      \* TICKSPERBASE: ticks by which SignalCounter advances it
  mincyc,        \* MINCYCLE
  Autosta        \* alarms the application mode starts: [incr, cycle] by alarm

AlarmType  == 0 .. tnum_alarm - 1
ALMID_NULL == 255
maxval2    == 2 * maxval + 1
Tick       == 0 .. maxval2
Cycle      == {0} \cup (mincyc .. maxval)

ASSUME CounterTable ==
  /\ tnum_alarm \in 1 .. 254
  /\ maxval \in Nat \ {0} /\ tickbase \in 1 .. maxval /\ mincyc \in 1 .. maxval
  /\ DOMAIN Autosta \subseteq AlarmType
  /\ \A a \in DOMAIN Autosta : Autosta[a].almval \in 0 .. maxval /\ Autosta[a].cycle \in Cycle

VARIABLES
  curval,     \* cntcb_curval
  almque,     \* the alarm queue, first to expire first
  almval,     \* almcb_almval: counter value at which each alarm expires
  cycle,      \* almcb_cycle
  calling     \* the alarm whose callback SignalCounter runs, or ALMID_NULL
vars == <<curval, almque, almval, cycle, calling>>

Queued == {almque[i] : i \in 1 .. Len(almque)}

TypeOK ==
  /\ curval \in Tick
  /\ almque \in Seq(AlarmType)
  /\ almval \in [AlarmType -> Tick]
  /\ cycle \in [AlarmType -> Cycle]
  /\ calling \in AlarmType \cup {ALMID_NULL}

--------------------------------------------------------------------------------
AddTickUnwrapped(val, incr) == val + incr                                  \* fault

add_tick(val, incr)   == IF incr <= maxval2 - val THEN val + incr ELSE val + incr - (maxval2 + 1)
diff_tick(val1, val2) == IF val1 >= val2 THEN val1 - val2 ELSE val1 - val2 + (maxval2 + 1)

\* The alarms enqueue_alarm walks past to insert one that expires at enqval.
PassesNoWrap(cur, next, enqval) == next <= enqval                          \* fault

Passes(cur, next, enqval) ==
  IF cur < enqval THEN cur <= next /\ next <= enqval ELSE cur <= next \/ next <= enqval

\* enqueue_alarm into the queue q, with the counter at cur and expiry values v.
Enqueue(q, cur, v, a) ==
  LET past == {i \in 1 .. Len(q) : Passes(cur, v[q[i]], v[a])}
      at   == CHOOSE i \in 1 .. Len(q) + 1 :
                i \notin past /\ \A j \in 1 .. i - 1 : j \in past
  IN  InsertAt(q, at, a)

--------------------------------------------------------------------------------
\* alarm_initialize: the alarms of the application mode enter the queue in order.
initque[a \in -1 .. tnum_alarm - 1] ==
  IF a = -1 THEN << >>
  ELSE IF a \in DOMAIN Autosta
       THEN Enqueue(initque[a - 1], 0,
                    [b \in AlarmType |-> IF b \in DOMAIN Autosta THEN Autosta[b].almval ELSE 0], a)
       ELSE initque[a - 1]

Init ==
  /\ curval = 0
  /\ almque = initque[tnum_alarm - 1]
  /\ almval = [a \in AlarmType |-> IF a \in DOMAIN Autosta THEN Autosta[a].almval ELSE 0]
  /\ cycle = [a \in AlarmType |-> IF a \in DOMAIN Autosta THEN Autosta[a].cycle ELSE 0]
  /\ calling = ALMID_NULL

SetAlarm(a, val, cyc) ==
  /\ a \notin Queued
  /\ cyc \in Cycle
  /\ almval' = [almval EXCEPT ![a] = val]
  /\ cycle' = [cycle EXCEPT ![a] = cyc]
  /\ almque' = Enqueue(almque, curval, almval', a)
  /\ UNCHANGED <<curval, calling>>

SetRelAlarm(a, incr, cyc) ==
  /\ incr \in 1 .. maxval
  /\ SetAlarm(a, add_tick(curval, incr), cyc)

\* The counter runs over 0 .. maxval2, twice the range of start: the alarm takes the
\* value of start in the half the counter reaches next.
StartValue(start) ==
  IF curval <= maxval
  THEN IF start <= curval THEN start + maxval + 1 ELSE start
  ELSE IF start + maxval + 1 <= curval THEN start ELSE start + maxval + 1

SetAbsAlarm(a, start, cyc) ==
  /\ start \in 0 .. maxval
  /\ SetAlarm(a, StartValue(start), cyc)

CancelKeepsCycle(a) ==                                                     \* fault
  /\ a \in Queued
  /\ almque' = RemoveFirst(almque, a)
  /\ UNCHANGED <<curval, almval, cycle, calling>>

CancelAlarm(a) ==
  /\ a \in Queued
  /\ almque' = RemoveFirst(almque, a)
  /\ cycle' = [cycle EXCEPT ![a] = 0]
  /\ UNCHANGED <<curval, almval, calling>>

--------------------------------------------------------------------------------
(* SignalCounter *)

\* The test of its loop, with the queue q and expiry values v: an alarm that is due
\* leaves the queue and its callback is called; else the service returns.
CallNextDue(q, cur, v) ==
  IF q # << >> /\ diff_tick(cur, v[Head(q)]) <= maxval
  THEN calling' = Head(q) /\ almque' = Tail(q)
  ELSE calling' = ALMID_NULL /\ almque' = q

SignalCounter ==
  /\ calling = ALMID_NULL
  /\ curval' = add_tick(curval, tickbase)
  /\ CallNextDue(almque, curval', almval)
  /\ UNCHANGED <<almval, cycle>>

RequeuesOneShot(a) == a \notin Queued                                      \* fault

\* A periodic alarm that its callback has not set goes back into the queue.
Requeues(a) == a \notin Queued /\ cycle[a] > 0

\* The callback returns to the loop.
CallbackReturns ==
  /\ calling # ALMID_NULL
  /\ IF Requeues(calling)
     THEN /\ almval' = [almval EXCEPT ![calling] = add_tick(@, cycle[calling])]
          /\ CallNextDue(Enqueue(almque, curval, almval', calling), curval, almval')
     ELSE CallNextDue(almque, curval, almval) /\ UNCHANGED almval
  /\ UNCHANGED <<curval, cycle>>

Next ==
  \/ \E a \in AlarmType, incr \in 1 .. maxval, cyc \in Cycle : SetRelAlarm(a, incr, cyc)
  \/ \E a \in AlarmType, start \in 0 .. maxval, cyc \in Cycle : SetAbsAlarm(a, start, cyc)
  \/ \E a \in AlarmType : CancelAlarm(a)
  \/ SignalCounter
  \/ CallbackReturns

Spec == Init /\ [][Next]_vars

\* Alarm callbacks return.
FairSpec == Spec /\ WF_vars(CallbackReturns)

--------------------------------------------------------------------------------
(* Properties *)

\* What GetAlarm returns for an alarm in the queue.
Remaining(a) == diff_tick(almval[a], curval)

\* While no callback runs, every alarm in the queue is still to come, at most one turn of
\* the counter away, and the queue is in the order of expiry; no alarm is in it twice.
\* An alarm whose time has passed would wait for the counter to come round again.
QueueAhead ==
  /\ \A i, j \in 1 .. Len(almque) : almque[i] = almque[j] => i = j
  /\ calling = ALMID_NULL =>
       /\ \A a \in Queued : Remaining(a) \in 1 .. maxval + 1
       /\ \A i, j \in 1 .. Len(almque) : i < j => Remaining(almque[i]) <= Remaining(almque[j])

\* SignalCounter comes to an end whatever the callbacks set.
SignalCounterEnds == []<>(calling = ALMID_NULL)
================================================================================
