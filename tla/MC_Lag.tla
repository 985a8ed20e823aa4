------------------------------- MODULE MC_Lag -------------------------------
(***************************************************************************)
(* Three threads, two of them for the same client, and enough ticks for    *)
(* records to be dropped.                                                  *)
(***************************************************************************)
EXTENDS LagCompensation

MCClientOf == [t \in Threads |-> IF t = 1 THEN 4 ELSE 5]

\* Three threads meet at the locks before time passes, and any two of them
\* from then on. (Only calls and the clock are held back.)
ThreeMeetEarly == clock' # 0 => \E t \in Threads : at'[t] = "idle"

MCLagSpec ==
  /\ LagInit /\ [][LagNext /\ ThreeMeetEarly]_lagVars
  /\ \A t \in Threads : WF_lagVars(Step(t))
=============================================================================
