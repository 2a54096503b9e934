------------------------------ MODULE OsekAlarmMC ------------------------------
(***************************************************************************)
(* Instances of OsekAlarm for TLC, and its refinement of AlarmTimers.      *)
(***************************************************************************)
EXTENDS OsekAlarm, TLC

\* Two alarms of the application mode, one of them periodic.
AutostaTwo  == 0 :> [almval |-> 1, cycle |-> 2] @@ 1 :> [almval |-> 2, cycle |-> 0]

Timers == INSTANCE AlarmTimers WITH
            Alarm <- AlarmType, Modulus <- maxval + 1, Off <- -1, None <- ALMID_NULL,
            now <- curval % (maxval + 1),
            left <- [a \in AlarmType |-> IF a \in Queued THEN Remaining(a) ELSE -1],
            period <- cycle,
            firing <- calling

\* The queue and its modular comparisons implement independent countdown timers: no
\* alarm fires early, late or twice, whatever is set and cancelled between the steps of
\* SignalCounter.
ImplementsTimers == Timers!Spec
================================================================================
