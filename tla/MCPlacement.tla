----------------------------- MODULE MCPlacement -----------------------------
(***************************************************************************)
(* The instance of Placement that TLC checks: documents of one category    *)
(* and day, the first two of them of the same version.                     *)
(***************************************************************************)
EXTENDS PlacementProperties

FirstVersionTwice == [d \in Docs |-> IF d < 3 THEN 1 ELSE 2]
=============================================================================
