--------------------------------- MODULE InCourse ---------------------------------
(***************************************************************************)
(* The in course of etrobo2011: InCourse::drive and the drivers of the     *)
(* seesaw, the stairway and the garage.  One step is one call of drive by  *)
(* TaskDrive, every 4 ms.  Where the robot is and what the detectors say   *)
(* is a choice.                                                            *)
(***************************************************************************)
EXTENDS Course

CONSTANTS
  BrakeCalls, StayCalls, ReadyCalls,   \* the waits of the drivers: 100, 500 and 250
  mNsample,                            \* grey samples that make a marker
  Samples,                             \* length of the histories TaskGps fills: 25
  LampCalls                            \* calls of drive in which TaskMaimai notices gDoMaimai

VARIABLES
  steady,    \* history: calls since gDoMaimai changed
  sinceHit,  \* history: calls since the wall detector was believed
  rolledBack \* history: the robot has rolled back from the second step since

Settled == Samples + LampCalls

ASSUME WaitsLongEnough ==
  /\ {BrakeCalls, StayCalls, ReadyCalls, mNsample, Samples, LampCalls} \subseteq Nat \ {0}
  /\ Samples <= BrakeCalls
  /\ Settled <= ReadyCalls /\ Settled <= StayCalls

\* Where GPS_X is on the stairway: beyond 4100 before it, beyond 4050, on it, below 3450
\* after it.  Each of the four borders on the next.
Before == 4    RunUp == 3    OnStairs == 2    Behind == 1
Near(x) == {x - 1, x, x + 1} \cap Behind .. Before

Fresh(d, section) ==
  [d EXCEPT !.mState = section, !.sub = "INIT", !.mInitState = TRUE,
            !.mDoDetectWall = FALSE, !.mTimeCounter = 0]

\* gDoMaimai is a field of drive, and x; "asks" is history, where the last call asked the
\* wall, line or marker detector.
InInit ==
  /\ \E s \in {"START", "SEESAW", "STAIRWAY", "GARAGEIN"} :
       drive = [mState |-> s, sub |-> "INIT", mInitState |-> TRUE, mDoDetectWall |-> FALSE,
                mTimeCounter |-> 0, gDoMaimai |-> TRUE, x |-> Before, mGrayCount |-> 0,
                seat |-> Standing, asks |-> {}]
  /\ steady = 0 /\ sinceHit = Samples /\ rolledBack = FALSE

--------------------------------------------------------------------------------
(* What the sub-states have in common.  in.found: what the sub-state watches for (a     *)
(* wall, a line, a black sample, the robot rolling back) is there.  in.there: the robot *)
(* has come to the place or region the sub-state, or the section, waits for.            *)

BeginKeepsFlag(d) == [d EXCEPT !.mInitState = FALSE]                       \* fault
Begin(d) ==
  IF d.mInitState THEN [d EXCEPT !.mInitState = FALSE, !.mDoDetectWall = FALSE] ELSE d

BeginTimed(d) == [Begin(d) EXCEPT !.mTimeCounter = IF d.mInitState THEN 0 ELSE @]

\* mDoDetectWall, whatever it is called, says that a sub-state is past its first part,
\* which ends when "over" holds; a wait starts the timer again at its end.
Latched(d, over) == [d EXCEPT !.mDoDetectWall = @ \/ over]

Waited(d, n) ==
  IF ~d.mDoDetectWall /\ d.mTimeCounter > n
  THEN [d EXCEPT !.mDoDetectWall = TRUE, !.mTimeCounter = 0] ELSE d

\* In its second part the sub-state asks a detector, and goes on to s if it says yes.
Asks(d, found, s) ==
  IF ~d.mDoDetectWall THEN d
  ELSE LET a == [d EXCEPT !.asks = @ \cup {d.sub}] IN IF found THEN Enter(a, s) ELSE a

\* mTimeCounter++; no wait is longer than StayCalls.
Timed(d) == [d EXCEPT !.mTimeCounter = IF @ > StayCalls THEN @ ELSE @ + 1]

--------------------------------------------------------------------------------
(* SeesawDriver::drive: one sub-state in a call; BACKRUN and SECONDRUN are not reached *)

LineReturn(d, in) == Asks(Waited(BeginTimed(d), StayCalls), in.found, "AFTERLINETRACE")

SeesawStep(d, in) ==
  CASE d.sub = "INIT" ->
         [d EXCEPT !.sub = "BEFORELINETRACE", !.gDoMaimai = FALSE, !.mTimeCounter = 0,
                   !.mDoDetectWall = FALSE]
    [] d.sub = "BEFORELINETRACE" -> Asks(Latched(d, in.there), in.found, "FIRSTRUN")
    [] d.sub = "FIRSTRUN" ->
         LET b == [d EXCEPT !.mInitState = FALSE, !.mTimeCounter = IF d.mInitState THEN 0 ELSE @]
         IN IF in.there THEN [Enter(b, "LINERETURN") EXCEPT !.mTimeCounter = 0] ELSE b
    [] d.sub = "LINERETURN" -> LineReturn(d, in)
    [] d.sub = "AFTERLINETRACE" ->
         [d EXCEPT !.mInitState = FALSE, !.mTimeCounter = IF d.mInitState THEN 0 ELSE @]

Seesaw(d, in) == Timed(SeesawStep(d, in))

--------------------------------------------------------------------------------
(* StairwayDriver::drive: up to ON0THSTAGE_GO a call goes straight into the next sub-state *)

StairsInit(d) ==
  IF d.sub = "INIT" THEN Enter([d EXCEPT !.gDoMaimai = TRUE], "BEFORELINETRACE") ELSE d

\* The step the robot meets is where the coordinates are set right.
Foot(d, in) ==
  IF d.sub # "BEFORELINETRACE" THEN d
  ELSE LET b == Begin(d)
           a == Asks(Latched(b, b.x < Before), in.found, "ON0THSTAGE_BACK")
       IN IF a.sub = "BEFORELINETRACE" THEN a ELSE [a EXCEPT !.x = OnStairs]

BackUp(d) ==
  IF d.sub # "ON0THSTAGE_BACK" THEN d
  ELSE LET b == Begin(d)
           a == IF ~b.mDoDetectWall /\ b.x > OnStairs
                THEN [b EXCEPT !.mDoDetectWall = TRUE, !.mTimeCounter = 0] ELSE b
       IN IF a.mDoDetectWall /\ a.mTimeCounter > BrakeCalls THEN Enter(a, "ON0THSTAGE_GO") ELSE a

Climb(d, in) ==
  LET b == Begin(d) IN Asks(Latched(b, b.x < RunUp), in.found, "ON1STSTAGE")

FirstStage(d, in) == Asks(Waited(BeginTimed(d), BrakeCalls), in.found, "ON2NDSTAGE")

\* Drop from the stairway, or roll back from it, which wins if both are seen.
SecondStage(d, in) ==
  LET a == Waited(BeginTimed(d), BrakeCalls)
      b == IF a.mDoDetectWall /\ a.x = Behind THEN Enter(a, "DROPDOWN") ELSE a
  IN IF in.found THEN [Enter(b, "BEFORELINETRACE") EXCEPT !.mDoDetectWall = TRUE] ELSE b

DropDown(d, in) == Asks(Waited(BeginTimed(d), StayCalls), in.found, "AFTERLINETRACE")

StairsStep(d, in) ==
  LET c == BackUp(Foot(StairsInit(d), in))
  IN CASE c.sub = "ON0THSTAGE_GO"  -> Climb(c, in)
       [] c.sub = "ON1STSTAGE"     -> FirstStage(c, in)
       [] c.sub = "ON2NDSTAGE"     -> SecondStage(c, in)
       [] c.sub = "DROPDOWN"       -> DropDown(c, in)
       [] c.sub = "AFTERLINETRACE" ->
            [c EXCEPT !.mInitState = FALSE, !.mTimeCounter = IF c.mInitState THEN 0 ELSE @]
       [] OTHER                    -> c

Stairway(d, in) == Timed(StairsStep(d, in))

--------------------------------------------------------------------------------
(* GarageDriver::drive, for both courses *)

GarageInit(d) ==
  IF d.sub = "INIT" THEN [d EXCEPT !.sub = "READYGO", !.gDoMaimai = TRUE, !.mTimeCounter = 0] ELSE d

Ready(d) == IF d.sub = "READYGO" /\ d.mTimeCounter > ReadyCalls THEN [d EXCEPT !.sub = "MARKER"] ELSE d

\* MarkerDetector::detect counts the grey samples since the last black one.
Marker(d, in) ==
  IF d.sub # "MARKER" THEN d
  ELSE LET n == IF in.found THEN 0 ELSE IF d.mGrayCount > mNsample THEN mNsample ELSE d.mGrayCount + 1
           a == [d EXCEPT !.mGrayCount = n, !.asks = @ \cup {"MARKER"}]
       IN IF n >= mNsample THEN [a EXCEPT !.sub = "STOP"] ELSE a

Stop(d, in) == IF d.sub = "STOP" /\ in.there THEN [d EXCEPT !.sub = "SITDOWN"] ELSE d

SitDown(d) == IF d.sub = "SITDOWN" THEN [d EXCEPT !.seat = execute(@)] ELSE d

Garage(d, in) == Timed(SitDown(Stop(Marker(Ready(GarageInit(d)), in), in)))

--------------------------------------------------------------------------------
(* InCourse::drive: the next section begins in its region, once the driver is through *)

Following(d, in, section) ==
  IF d.sub = "AFTERLINETRACE" /\ in.there THEN Fresh(d, section) ELSE d

InSection(d, in) ==
  CASE d.mState = "START" ->
         LET n == [d EXCEPT !.gDoMaimai = TRUE] IN IF in.there THEN Fresh(n, "SEESAW") ELSE n
    [] d.mState = "SEESAW"   -> Following(Seesaw(d, in), in, "STAIRWAY")
    [] d.mState = "STAIRWAY" -> Following(Stairway(d, in), in, "GARAGEIN")
    [] d.mState = "GARAGEIN" -> Garage(d, in)

Believed == {"FIRSTRUN", "ON0THSTAGE_BACK", "ON1STSTAGE", "ON2NDSTAGE"}

Count(n, max) == IF n < max THEN n + 1 ELSE n

InDrive ==
  /\ \E in \in [found : BOOLEAN, there : BOOLEAN], x \in Near(drive.x) :
       drive' = InSection([drive EXCEPT !.x = x, !.asks = {}], in)
  /\ steady' = IF drive'.gDoMaimai = drive.gDoMaimai THEN Count(steady, Settled) ELSE 0
  /\ LET hit    == drive'.sub # drive.sub /\ drive'.sub \in Believed
         rolled == drive.sub = "ON2NDSTAGE" /\ drive'.sub = "BEFORELINETRACE"
     IN  /\ sinceHit' = IF hit THEN 0 ELSE Count(sinceHit, Samples)
         /\ rolledBack' = (~hit /\ (rolledBack \/ rolled))

--------------------------------------------------------------------------------
(* What the properties say of a step *)

\* The light is believed to show a line or a marker only after the lamp has been switched
\* over and the whole history, or the difference of the Maimai method, was taken since:
\* the drivers wait, each in its own way, after they set gDoMaimai.
AsksSettledLight ==
  drive'.asks \cap {"LINERETURN", "DROPDOWN", "MARKER"} # {} => steady >= Settled

\* One collision does not count as two steps: the wall detector compares gyro values of
\* 100 ms, and before the seesaw, at the foot of the stairs, in the run-up and on the first
\* step it is not asked before those of the last collision are gone.  The one exception is
\* the foot of the stairs after the robot has rolled back from the second step: x is below
\* 4100, so BEFORELINETRACE asks at once, and the same collision can count again.
AsksAfterCollision ==
  /\ drive'.asks \cap {"ON0THSTAGE_GO", "ON1STSTAGE"} # {} => sinceHit >= Samples
  /\ "BEFORELINETRACE" \in drive'.asks =>
       sinceHit >= Samples \/ (rolledBack /\ drive.mState = "STAIRWAY")
================================================================================
