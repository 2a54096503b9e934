----------------------------- MODULE OsekKernelMC -----------------------------
(***************************************************************************)
(* Instances of OsekKernel for TLC.                                        *)
(***************************************************************************)
EXTENDS OsekKernel, TLC

\* Four tasks on three priorities: an internal resource, a non-preemptive task, and
\* resources nested in both orders of ceiling.
InipriB   == 0 :> 0 @@ 1 :> 1 @@ 2 :> 1 @@ 3 :> 2
ExepriB   == 0 :> 1 @@ 1 :> 1 @@ 2 :> TPRI_SCHEDULER @@ 3 :> 2
MaxactB   == 0 :> 1 @@ 1 :> 1 @@ 2 :> 0 @@ 3 :> 1
CeilpriB  == 0 :> 1 @@ 1 :> 2
LevelB    == 1 :> 4 @@ 2 :> 2
================================================================================
