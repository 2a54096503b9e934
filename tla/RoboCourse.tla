-------------------------------- MODULE RoboCourse --------------------------------
(***************************************************************************)
(* mCourse is the in course or the out course, as the robot was built.     *)
(***************************************************************************)
EXTENDS InCourse, OutCourse

VARIABLE mCourse

courseVars ==
  <<mCourse, drive, steady, sinceHit, rolledBack, gSonarIsDetected, sonar, called, fresh>>

Init ==
  \/ /\ mCourse = "In" /\ InInit
     /\ gSonarIsDetected = FALSE /\ called = FALSE /\ fresh = FALSE
     /\ sonar = [measures |-> FALSE, due |-> 0, late |-> 0]
  \/ mCourse = "Out" /\ OutInit /\ steady = 0 /\ sinceHit = Samples /\ rolledBack = FALSE

Next ==
  \/ mCourse = "In"  /\ InDrive /\ UNCHANGED <<mCourse, gSonarIsDetected, sonar, called, fresh>>
  \/ mCourse = "Out" /\ OutNext /\ UNCHANGED <<mCourse, steady, sinceHit, rolledBack>>

Spec == Init /\ [][Next]_courseVars

--------------------------------------------------------------------------------
(* Properties *)

\* On the out course: no measurement of the sonar is counted twice, or counted although it
\* ended before the sonar was switched on for this search.
CountsFreshDetections == [][mCourse = "Out" => CountsFresh]_courseVars

\* On the out course the robot rolls on its tail only after it has sat down.
SeatedBeforeTripod == mCourse = "Out" => SeatedUnderGate

\* On the in course the light is believed only after lamp and history have settled.
LightSettled == [][mCourse = "In" => AsksSettledLight]_courseVars

\* On the in course one collision does not count as two: as the seesaw and a step, the foot
\* of the stairs and the first step, or the first and the second.  The one exception: after
\* rolling back from the second step its collision may count as the foot.
OneStepPerCollision == [][mCourse = "In" => AsksAfterCollision]_courseVars
================================================================================
