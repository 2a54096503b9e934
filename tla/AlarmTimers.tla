------------------------------ MODULE AlarmTimers ------------------------------
(***************************************************************************)
(* What the alarms of a counter promise: an alarm set for n ticks fires at *)
(* the n-th signal of the counter, every alarm that is due fires before    *)
(* the next signal, and a periodic alarm fires again after its period      *)
(* unless its callback set it anew or cancelled it.                        *)
(***************************************************************************)
EXTENDS Integers

CONSTANTS Alarm, Modulus, Off, None

VARIABLES now,      \* value of the counter
          left,     \* ticks until each alarm fires, or Off
          period,   \* its period, 0 for none
          firing    \* the alarm whose callback runs, or None
vars == <<now, left, period, firing>>

\* One of the due alarms fires, if there is one.
FireOneOf(l) ==
  LET due == {a \in Alarm : l[a] = 0} IN
  IF due = {} THEN firing' = None /\ left' = l
  ELSE \E a \in due : firing' = a /\ left' = [l EXCEPT ![a] = Off]

Start(a, n, p) ==
  /\ left[a] = Off
  /\ left' = [left EXCEPT ![a] = n]
  /\ period' = [period EXCEPT ![a] = p]
  /\ UNCHANGED <<now, firing>>

\* At the next time the counter has the value v.
StartAt(a, v, p) == \E n \in 1 .. Modulus : (now + n) % Modulus = v /\ Start(a, n, p)

Stop(a) ==
  /\ left[a] # Off
  /\ left' = [left EXCEPT ![a] = Off]
  /\ period' = [period EXCEPT ![a] = 0]
  /\ UNCHANGED <<now, firing>>

Signal ==
  /\ firing = None
  /\ now' = (now + 1) % Modulus
  /\ FireOneOf([a \in Alarm |-> IF left[a] = Off THEN Off ELSE left[a] - 1])
  /\ UNCHANGED period

Return ==
  /\ firing # None
  /\ FireOneOf(IF left[firing] = Off /\ period[firing] > 0
               THEN [left EXCEPT ![firing] = period[firing]] ELSE left)
  /\ UNCHANGED <<now, period>>

Next ==
  \/ \E a \in Alarm, n \in 1 .. Modulus - 1, p \in 0 .. Modulus - 1 : Start(a, n, p)
  \/ \E a \in Alarm, v \in 0 .. Modulus - 1, p \in 0 .. Modulus - 1 : StartAt(a, v, p)
  \/ \E a \in Alarm : Stop(a)
  \/ Signal
  \/ Return

Init ==
  /\ now = 0
  /\ left \in [Alarm -> 1 .. Modulus \cup {Off}]
  /\ period \in [Alarm -> 0 .. Modulus - 1]
  /\ firing = None

Spec == Init /\ [][Next]_vars
================================================================================
