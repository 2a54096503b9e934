------------------------------- MODULE JspTimers -------------------------------
(***************************************************************************)
(* What the time events of the TOPPERS/JSP kernel promise: a timer started *)
(* for d milliseconds goes off in the tick that comes d milliseconds after *)
(* the next one, no tick ends while a timer is due, and a periodic timer   *)
(* goes off again after its period.                                        *)
(***************************************************************************)
EXTENDS Integers, Functions

CONSTANTS Timer, Tic, MaxTime

VARIABLES left,     \* of the timers that run: milliseconds from the last tick until they are due
          period,   \* of each timer, 0 if it goes off once
          ticking   \* a tick is being processed
vars == <<left, period, ticking>>

With(t, n) == [u \in DOMAIN left \cup {t} |-> IF u = t THEN n ELSE left[u]]
Without(t) == Restrict(left, DOMAIN left \ {t})

Start(t) ==
  /\ ~ticking
  /\ left'[t] - Tic \in 0 .. MaxTime /\ left' = With(t, left'[t])
  /\ UNCHANGED <<period, ticking>>

Stop(t) == left' = Without(t) /\ UNCHANGED <<period, ticking>>

BeginTick == ~ticking /\ ticking' = TRUE /\ UNCHANGED <<left, period>>

GoOff(t) ==
  /\ ticking /\ left[t] <= Tic
  /\ left' = IF period[t] = 0 THEN Without(t) ELSE With(t, left[t] + period[t])
  /\ UNCHANGED <<period, ticking>>

EndTick ==
  /\ ticking /\ \A t \in DOMAIN left : left[t] > Tic
  /\ ticking' = FALSE
  /\ left' = [t \in DOMAIN left |-> left[t] - Tic]
  /\ UNCHANGED period

Init ==
  /\ \E running \in SUBSET Timer : left \in [running -> 0 .. MaxTime]
  /\ period \in [Timer -> 0 .. MaxTime]
  /\ ticking = FALSE

Next ==
  \/ \E t \in DOMAIN left' : Start(t)
  \/ \E t \in DOMAIN left : Stop(t) \/ GoOff(t)
  \/ BeginTick
  \/ EndTick

Spec == Init /\ [][Next]_vars

================================================================================
