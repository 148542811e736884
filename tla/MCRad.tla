------------------------------- MODULE MCRad -------------------------------
(***************************************************************************)
(* The instance of RadSource that TLC checks.  Its constants are plain     *)
(* numbers, given in the .cfg files.                                       *)
(***************************************************************************)
EXTENDS RadProperties
=============================================================================
