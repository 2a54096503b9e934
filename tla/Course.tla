---------------------------------- MODULE Course ----------------------------------
(***************************************************************************)
(* What the two courses of etrobo2011 share (Course.h): a section, driven  *)
(* by the driver of its own, which goes from sub-state to sub-state.  A    *)
(* driver has its own sub-state, mInitState and mTimeCounter; no section   *)
(* is entered twice, so one set of them serves all drivers of a course.    *)
(***************************************************************************)
EXTENDS SitDownSkill

VARIABLE drive     \* all that mCourse->drive() writes, a record

\* A new sub-state has still to be initialised.
Enter(d, s) == [d EXCEPT !.sub = s, !.mInitState = TRUE]
================================================================================
