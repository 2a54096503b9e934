-------------------------------- MODULE OutCourse --------------------------------
(***************************************************************************)
(* The out course of etrobo2011: OutCourse::drive, the drivers of the      *)
(* look-up gate (LookUpGateDriver) and of the sumo ring (ETsumoDriver),    *)
(* and TaskSonar, which measures for them.  Time passes in the 4 ms of     *)
(* TaskDrive, which calls drive once in each.  What a trace has reached    *)
(* and what a sensor sees is a choice.                                     *)
(***************************************************************************)
EXTENDS Course

CONSTANTS
  FoundCalls, SitCalls, BehindCalls,  \* of LookUpGateDriver: 250, 1000 and 500
  SampleEvery, Settling,              \* the sumo driver looks every 20 calls; waits of 100
  DetectsNeeded, FailsNeeded,         \* of a search and of a scan: 3 and 10
  SonarPeriod,                        \* of TaskSonar in calls of drive: 60 ms are 15
  MaxDelay,                           \* calls of drive one getDistance may take
  MinMove                             \* calls of drive a move of some 20 cm takes at least

VARIABLES
  gSonarIsDetected,   \* written by TaskSonar
  sonar,              \* TaskSonar: whether it measures, calls until its alarm, calls it is late
  called,             \* drive has been called in these 4 ms
  fresh               \* history: a measurement that ended since the sonar was switched on
                      \* has not been counted yet

ASSUME GateCounts ==
  /\ {FoundCalls, SitCalls, BehindCalls} \subseteq Nat \ {0}
  /\ 1 + StableCalls + InclinedCalls + SeatedCalls <= SitCalls

ASSUME SonarTimes ==
  /\ {SampleEvery, SonarPeriod, DetectsNeeded, FailsNeeded, MinMove} \subseteq Nat \ {0}
  /\ DetectsNeeded >= 2
  /\ MaxDelay \in Nat /\ MaxDelay < SonarPeriod
  /\ SonarPeriod + MaxDelay < SampleEvery
  /\ SonarPeriod < MinMove
  /\ \E n \in 2 .. Settling : Settling = n * SampleEvery

\* A fresh robot, put down at the start of any section but the garage (see InCourse).
\* gDoSonar is a field of drive; "counts" is history, whether the last call counted a
\* detection.
OutInit ==
  /\ \E s \in {"START", "LOOKUP", "ETSUMO"} :
       drive = [mState |-> s, sub |-> "INIT", mInitState |-> FALSE, mTimeCounter |-> 0,
                mIsArrived |-> FALSE, mSonarDetectCount |-> 0, mFailScanCounter |-> 0,
                mScanState |-> "UNKNOWN", gDoSonar |-> FALSE, seat |-> Standing,
                counts |-> FALSE]
  /\ gSonarIsDetected = FALSE
  /\ \E n \in 0 .. SonarPeriod - 1 : sonar = [measures |-> FALSE, due |-> n, late |-> 0]
  /\ called = FALSE /\ fresh = FALSE

--------------------------------------------------------------------------------
(* The gate *)

\* The counters of foundGate, of sitDown and of the last stretch: one at a time.
Counts(d) == [d EXCEPT !.mTimeCounter = @ + 1]
EntersGate(d, s) == [d EXCEPT !.sub = s, !.mTimeCounter = 0]

FindsGate(d) ==
  /\ d.sub = "INIT"
  /\ drive' = IF d.mTimeCounter + 1 >= FoundCalls
              THEN [EntersGate(d, "IN_FRONT_OF_GATE") EXCEPT !.gDoSonar = TRUE]
              ELSE Counts(d)

\* As the comment has it, who counts two seconds where the code counts four.
SitsDownTwoSeconds(d) ==                                                   \* fault
  /\ d.sub = "IN_FRONT_OF_GATE"
  /\ LET e == [d EXCEPT !.seat = execute(@)]
     IN drive' = IF d.mTimeCounter + 1 >= SitCalls \div 2 THEN EntersGate(e, "UNDER_GATE")
                                                         ELSE Counts(e)

SitsDown(d) ==
  /\ d.sub = "IN_FRONT_OF_GATE"
  /\ LET e == [d EXCEPT !.seat = execute(@)]
     IN drive' = IF d.mTimeCounter + 1 >= SitCalls THEN EntersGate(e, "UNDER_GATE")
                                                   ELSE Counts(e)

\* On its tail and wheels until the sonar sees the gate close by.
PassesGate(d) ==
  /\ d.sub = "UNDER_GATE"
  /\ \/ gSonarIsDetected /\ drive' = EntersGate(d, "UNDER_GATE_2")
     \/ drive' = d

LeavesGate(d) ==
  /\ d.sub = "UNDER_GATE_2"
  /\ drive' = IF d.mTimeCounter + 1 > BehindCalls
              THEN [EntersGate(d, "INIT") EXCEPT !.mState = "ETSUMO"]   \* DONE: the next section
              ELSE Counts(d)

LookUpGate(d) == FindsGate(d) \/ SitsDown(d) \/ PassesGate(d) \/ LeavesGate(d)

--------------------------------------------------------------------------------
(* The ring.  One call of drive goes from one sub-state straight into the next, so each *)
(* sub-state is an operator on the data; "in" is what the robot has reached: its place, *)
(* its direction, or the end of the sweep.                                              *)

\* The initialisation most sub-states begin with: the timer, mIsArrived and the sonar.
BeginState(d, on) ==
  IF d.mInitState
  THEN [d EXCEPT !.mInitState = FALSE, !.mTimeCounter = 0, !.mIsArrived = FALSE, !.gDoSonar = on]
  ELSE d

\* A search and a scan also count from 0; a scan starts to the right.
BeginSearch(d, on) ==
  [BeginState(d, on) EXCEPT !.mSonarDetectCount = IF d.mInitState THEN 0 ELSE @]

BeginScan(d) ==
  LET b == BeginSearch(d, TRUE)
  IN IF d.mInitState THEN [b EXCEPT !.mFailScanCounter = 0, !.mScanState = "SWINGRIGHT"] ELSE b

\* A move to a place on the ring, and the sub-state that follows it.
MoveTo(d, s, t, in) ==
  IF d.sub # s THEN d
  ELSE LET b == BeginState(d, FALSE)
       IN IF in.there /\ b.mTimeCounter >= MinMove THEN Enter(b, t) ELSE b

SumoInit(d) ==
  IF d.sub = "INIT" THEN Enter([d EXCEPT !.gDoSonar = FALSE, !.mTimeCounter = 0, !.mScanState = "UNKNOWN"],
                                "PREPARE_SPOTSEARCH")
                    ELSE d

LooksTwice(d) == d.mTimeCounter % (SampleEvery \div 2) = 0               \* fault
Looks(d) == d.mTimeCounter % SampleEvery = 0

\* Counters stop where nothing depends on them any more.
Counted(d) == [d EXCEPT !.counts = TRUE,
                        !.mSonarDetectCount = IF @ < DetectsNeeded THEN @ + 1 ELSE @]

SearchDone(d) == d.mSonarDetectCount >= DetectsNeeded

SpotLooks(d) == d.mIsArrived /\ Looks(d) /\ d.mTimeCounter >= Settling

SpotSearch(d, in) ==
  IF d.sub # "SPOTSEARCH" THEN d
  ELSE LET b == BeginSearch(d, FALSE)
           a == IF ~b.mIsArrived /\ in.turned THEN [b EXCEPT !.gDoSonar = TRUE, !.mIsArrived = TRUE]
                                              ELSE b
           c == IF SpotLooks(a) /\ gSonarIsDetected THEN Counted(a) ELSE a
       IN CASE SearchDone(c)            -> Enter(c, "DOHYO_IN")
            [] ~SearchDone(c) /\ in.swept /\ c.mIsArrived -> Enter(c, "SPOTSEARCH_to_SWINGSEARCH")
            [] OTHER                    -> c

SwingSearch(d, in) ==
  IF d.sub # "SWINGSEARCH" THEN d
  ELSE LET b == BeginSearch(d, FALSE)
           a == IF ~b.mIsArrived /\ in.turned
                THEN [b EXCEPT !.gDoSonar = TRUE, !.mIsArrived = TRUE, !.mTimeCounter = 0]
                ELSE b
           c == IF a.mIsArrived /\ Looks(a) /\ gSonarIsDetected THEN Counted(a) ELSE a
       IN IF SearchDone(c) THEN Enter(c, "DOHYO_IN") ELSE c

\* Turn to the bottle and wait until the robot has settled.
HakkeReady(d, in) ==
  IF d.sub # "HAKKE_READY" THEN d
  ELSE LET b == BeginState(d, FALSE)
           a == IF ~b.mIsArrived /\ in.turned THEN [b EXCEPT !.mIsArrived = TRUE, !.mTimeCounter = 0]
                                              ELSE b
       IN IF a.mIsArrived /\ a.mTimeCounter > Settling THEN Enter(a, "SCAN") ELSE a

\* To the right until the bottle is lost, then to the left until it is lost again.
ScanLost(d) == d.mFailScanCounter >= FailsNeeded /\ d.mSonarDetectCount >= 2

Scan(d) ==
  IF d.sub # "SCAN" THEN d
  ELSE LET b == BeginScan(d)
           c == CASE ~Looks(b)                    -> b
                  [] Looks(b) /\ gSonarIsDetected -> [Counted(b) EXCEPT !.mFailScanCounter = 0]
                  [] OTHER                        ->
                       [b EXCEPT !.mFailScanCounter = IF @ < FailsNeeded THEN @ + 1 ELSE @]
       IN CASE ~ScanLost(c) -> c
            [] ScanLost(c) /\ c.mScanState = "SWINGRIGHT" ->
                 [c EXCEPT !.mFailScanCounter = 0, !.mSonarDetectCount = 0, !.mTimeCounter = 0,
                           !.mScanState = "SWINGLEFT"]
            [] OTHER -> Enter([c EXCEPT !.gDoSonar = FALSE, !.mTimeCounter = 0], "NOKOTTA_GO")

\* Push the bottle out of the ring, then go back slowly: the last sub-state.
NokottaGo(d, in) ==
  IF d.sub # "NOKOTTA_GO" THEN d
  ELSE LET b == BeginState(d, FALSE)
           a == IF ~b.mIsArrived /\ in.turned THEN [b EXCEPT !.mIsArrived = TRUE] ELSE b
       IN IF a.mIsArrived # b.mIsArrived \/ in.there THEN [a EXCEPT !.mTimeCounter = 0] ELSE a

\* mTimeCounter++; beyond Settling only its remainder by SampleEvery matters.
Ticked(d) == [d EXCEPT !.mTimeCounter = IF @ + 1 = Settling + SampleEvery THEN Settling ELSE @ + 1]

ETsumo(d) ==
  \E in \in [there : BOOLEAN, turned : BOOLEAN, swept : BOOLEAN] :
    LET prepared == MoveTo(SumoInit(d), "PREPARE_SPOTSEARCH", "SPOTSEARCH", in)
        searched == SwingSearch(MoveTo(SpotSearch(prepared, in),
                                       "SPOTSEARCH_to_SWINGSEARCH", "SWINGSEARCH", in), in)
        ready    == HakkeReady(MoveTo(searched, "DOHYO_IN", "HAKKE_READY", in), in)
    IN drive' = Ticked(NokottaGo(Scan(ready), in))

--------------------------------------------------------------------------------
(* The course.  ETsumoDriver::drive returns 0, so the course stays in its section. *)

OutSection(d) ==
  \/ d.mState = "START" /\ (drive' = d \/ drive' = [d EXCEPT !.mState = "LOOKUP"])
  \/ d.mState = "LOOKUP" /\ LookUpGate(d)
  \/ d.mState = "ETSUMO" /\ ETsumo(d)

OutDrive ==
  /\ ~called /\ called' = TRUE
  /\ OutSection([drive EXCEPT !.counts = FALSE])
  /\ fresh' = (fresh /\ drive'.gDoSonar /\ ~drive'.counts)
  /\ UNCHANGED <<gSonarIsDetected, sonar>>

--------------------------------------------------------------------------------
(* TaskSonar.  It has the priority of TaskDrive, so that they take turns, except that *)
(* getDistance waits for the sensor.                                                  *)

SonarLoop ==
  /\ ~sonar.measures /\ sonar.due = 0
  /\ sonar' = [measures |-> drive.gDoSonar, due |-> SonarPeriod, late |-> 0]
  /\ gSonarIsDetected' = (gSonarIsDetected /\ drive.gDoSonar)
  /\ UNCHANGED <<drive, called, fresh>>

Measured ==
  /\ sonar.measures
  /\ gSonarIsDetected' \in BOOLEAN
  /\ sonar' = [sonar EXCEPT !.measures = FALSE]
  /\ fresh' = drive.gDoSonar
  /\ UNCHANGED <<drive, called>>

\* The next 4 ms.
NextTurn ==
  /\ called /\ called' = FALSE
  /\ sonar.due > 0
  /\ sonar.measures => sonar.late < MaxDelay
  /\ sonar' = [sonar EXCEPT !.due = @ - 1, !.late = IF sonar.measures THEN @ + 1 ELSE @]
  /\ UNCHANGED <<drive, gSonarIsDetected, fresh>>

OutNext == OutDrive \/ SonarLoop \/ Measured \/ NextTurn

--------------------------------------------------------------------------------
(* What the properties say of a step and of a state *)

\* The sumo driver may add a measurement to the place of the bottle only once, and never
\* one that ended before it switched the sonar on: main.cpp tells it so by nothing but
\* one flag, which stays set between the measurements.
CountsFresh == OutDrive /\ drive'.counts => fresh

\* The robot rolls on its tail only after it has sat down: the gate driver does not ask
\* the skill, it counts its own calls.
SeatedUnderGate ==
  drive.mState = "LOOKUP" /\ drive.sub \in {"UNDER_GATE", "UNDER_GATE_2"} => Seated(drive.seat)
================================================================================
