----------------------------- MODULE MCWatcher -----------------------------
(***************************************************************************)
(* Watcher on small instances.  Documents 1 and 2 are delivered on days 0  *)
(* and 1; retention keeps two dates, so day 2 ages the first one out.      *)
(***************************************************************************)
EXTENDS WatcherProperties

TwoDates == [d \in Docs |-> d - 1]
OneDate  == [d \in Docs |-> 0]
All == {Docs}
AllOrNone == {Docs, {}}

\* The source is read only by Sweep and the clock only by Begin, so a change at any
\* other moment is not told apart from one made before the next command.
WorldMovesWhenIdle == step = "idle" \/ UNCHANGED world
=============================================================================
