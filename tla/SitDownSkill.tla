------------------------------ MODULE SitDownSkill ------------------------------
(***************************************************************************)
(* The skill by which the robot stops, leans back and sits down on its     *)
(* tail (etrobo2011/SitDownSkill.cpp).  The three conditions isStable,     *)
(* isInclined and isSeated each count their own calls; every state is      *)
(* visited once, so that one counter, from 0 again in each state, stands   *)
(* for the three.                                                          *)
(***************************************************************************)
EXTENDS Naturals

CONSTANTS StableCalls, InclinedCalls, SeatedCalls      \* 250, 50 and 250

ASSUME SkillCounts == {StableCalls, InclinedCalls, SeatedCalls} \subseteq Nat \ {0}

Standing == [state |-> "INIT", count |-> 0]

\* The calls a state takes and the state after it.
Needs == [STOP |-> StableCalls, INCLINED_BACKWARD |-> InclinedCalls, SIT_DOWN |-> SeatedCalls]
After == [INIT |-> "STOP", STOP |-> "INCLINED_BACKWARD",
          INCLINED_BACKWARD |-> "SIT_DOWN", SIT_DOWN |-> "DONE", DONE |-> "DONE"]

Lasts(s) == s.state \in DOMAIN Needs /\ s.count + 1 < Needs[s.state]

execute(s) == IF Lasts(s) THEN [s EXCEPT !.count = @ + 1]
                          ELSE [state |-> After[s.state], count |-> 0]

Seated(s) == s.state = "DONE"
================================================================================
