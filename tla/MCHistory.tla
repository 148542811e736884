----------------------------- MODULE MCHistory -----------------------------
(***************************************************************************)
(* WatcherHistory on the small instances of MCWatcher.                     *)
(***************************************************************************)
EXTENDS MCWatcher, WatcherHistory
=============================================================================
