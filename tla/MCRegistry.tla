----------------------------- MODULE MCRegistry -----------------------------
(***************************************************************************)
(* The instance of RegistryCache that TLC checks: last year's package, and *)
(* this year's as it fills up from nobody in January.                      *)
(***************************************************************************)
EXTENDS RegistryProperties, TLC

CONSTANTS c1, c2

Symmetry == Permutations(Procs)

Filings == <<(<<{c1, c2}>>), (<<{}, {c1}>>)>>
=============================================================================
