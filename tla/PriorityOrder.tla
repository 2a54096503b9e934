----------------------------- MODULE PriorityOrder -----------------------------
(***************************************************************************)
(* What the OSEK scheduler promises: one order of all runnable tasks, by   *)
(* priority and among equals by arrival, whose head has the processor.  A  *)
(* task arrives behind its equals; only the head may end, wait, or change  *)
(* its priority; a head that lowers its priority stays before its equals.  *)
(* The ready queues, bitmap, nextpri and schedtsk of task.c implement it   *)
(* (module OsekPrecedence).                                                *)
(***************************************************************************)
EXTENDS Integers, Sequences, FiniteSets

CONSTANTS Task, Pri

VARIABLES order,   \* the runnable tasks, best first
          pri      \* their priorities; 0 for the others

InOrder(o) == {o[i] : i \in 1 .. Len(o)}

Insert(o, k, t) == SubSeq(o, 1, k) \o <<t>> \o SubSeq(o, k + 1, Len(o))

BehindEquals(o, p, t) == Insert(o, Cardinality({i \in 1 .. Len(o) : p[o[i]] >= p[t]}), t)
BeforeEquals(o, p, t) == Insert(o, Cardinality({i \in 1 .. Len(o) : p[o[i]] > p[t]}), t)

Set(p, t, q) == [x \in Task |-> IF x = t THEN q ELSE p[x]]

Init == order = << >> /\ pri = [t \in Task |-> 0]

\* The new order; its head starts or takes a resource: its priority may rise.
Settle(o, p) ==
  /\ order' = o
  /\ pri' = p \/ (o # << >> /\ \E q \in Pri : q >= p[Head(o)] /\ pri' = Set(p, Head(o), q))

Arrive ==
  \E t \in Task \ InOrder(order), q \in Pri :
    LET p == Set(pri, t, q) IN Settle(BehindEquals(order, p, t), p)

\* The head ends or waits; it may come again, and another task may follow it.
Leave ==
  /\ order # << >>
  /\ LET h == Head(order)
         o == Tail(order)
         p0 == Set(pri, h, 0)
     IN  \/ Settle(o, p0)
         \/ \E t \in Task \ InOrder(o), q \in Pri :
              LET p1 == Set(p0, t, q)
                  o1 == BehindEquals(o, p1, t)
              IN  \/ Settle(o1, p1)
                  \/ /\ t = h
                     /\ \E u \in Task \ InOrder(o1), s \in Pri :
                          LET p2 == Set(p1, u, s) IN Settle(BehindEquals(o1, p2, u), p2)

Yield ==
  /\ order # << >>
  /\ \E q \in Pri :
       LET h == Head(order)
           p == Set(pri, h, q)
       IN  q <= pri[h] /\ Settle(BeforeEquals(Tail(order), p, h), p)

Next == Arrive \/ Leave \/ Yield \/ Settle(order, pri)

Spec == Init /\ [][Next]_<<order, pri>>
================================================================================
