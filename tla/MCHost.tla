------------------------------- MODULE MCHost -------------------------------
(***************************************************************************)
(* The instance of Host that TLC checks: the scheduler, which fires both   *)
(* profiles, and an operator who sweeps, tidies up and looks.              *)
(***************************************************************************)
EXTENDS HostProperties, TLC

CONSTANTS p1, p2

SchedulerAndOperator == p1 :> {"sweep"} @@ p2 :> {"monitor", "tidy", "status"}
=============================================================================
