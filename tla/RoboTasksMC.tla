------------------------------ MODULE RoboTasksMC ------------------------------
(***************************************************************************)
(* The tables of etrobo2011/main.oil, with short periods, for TLC.         *)
(***************************************************************************)
EXTENDS RoboTasks, TLC

\* PRIORITY 2 for Maimai and Gps, 1 for the others: all five; Drive and Logger; Drive and
\* Maimai.
FiveTasks == 0 :> 0 @@ 1 :> 1 @@ 2 :> 1 @@ 3 :> 0 @@ 4 :> 0
Equals    == 0 :> 0 @@ 1 :> 0
TwoLevels == 0 :> 0 @@ 1 :> 1

\* Besides TaskDrive one more task of its priority may be late: Sonar or Logger.
OneMoreLate == {{1, 2, 3}, {1, 2, 4}}
NobodyWaits == {{}}

NoMaxact == [t \in TaskType |-> 0]

\* In ticks; in ms Drive and Gps have 4 (main.cpp), Maimai 10 (constants.cpp), Logger 100 and
\* Sonar 60.
EveryOther == [t \in TaskType |-> IF t \in {TaskMaimai, TaskGps} THEN 2 ELSE 1]
EveryTick == [t \in TaskType |-> 1]

\* The drivers of the course switch the sonar (ETsumoDriver), or the Maimai method
\* (LookUpGateDriver, SeesawDriver, NormalDriver).
SonarDrivers  == [sonar : BOOLEAN, maimai : {TRUE}]
MaimaiDrivers == [sonar : {FALSE}, maimai : BOOLEAN]

NoRes    == [r \in {} |-> 0]
LevelOne == 1 :> 4
================================================================================
