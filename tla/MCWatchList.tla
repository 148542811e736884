---------------------------- MODULE MCWatchList ----------------------------
(***************************************************************************)
(* The instance of WatchListStore that TLC checks.  Its constants are sets *)
(* of model values, given in the .cfg files.                               *)
(***************************************************************************)
EXTENDS WatchListProperties
=============================================================================
