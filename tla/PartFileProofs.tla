--------------------------- MODULE PartFileProofs ---------------------------
(***************************************************************************)
(* What the calls of PartFile do to a place nobody else has open: the      *)
(* lemmas that the proofs about the watch list and the registry cache      *)
(* share.  And, whoever has it open, that they leave a place.              *)
(***************************************************************************)
EXTENDS PartFile, TLAPS

\* Nobody has the place open; one process has its .part open, and nobody else anything.
Quiet(at) == \A q \in Procs : at.hand[q] = "closed"
Only(at, p) == at.hand[p] = "part" /\ \A q \in Procs \ {p} : at.hand[q] = "closed"

-----------------------------------------------------------------------------
(* Every call leaves a place.                                              *)

\* Renaming the hands leaves hands.
LEMMA MovedHands ==
    ASSUME NEW hand \in [Procs -> Whereabouts], NEW from, NEW to \in Whereabouts
    PROVE  Moved(hand, from, to) \in [Procs -> Whereabouts]
BY DEF Moved

LEMMA CallsLeaveAPlace ==
    ASSUME NEW C, NEW at \in Places(C), NEW p \in Procs
    PROVE  /\ Truncated(at, p) \in Places(C)
           /\ Closed(at, p) \in Places(C)
           /\ Renamed(at) \in Places(C)
           /\ Discarded(at, p) \in Places(C)
<1> DEFINE held == C \union {Missing, Blank, Torn}
<1>1. /\ at = [file |-> at.file, part |-> at.part, hand |-> at.hand]
      /\ at.file \in held /\ at.part \in held /\ at.hand \in [Procs -> Whereabouts]
  BY DEF Places
<1>2. \A from, to \in Whereabouts : Moved(at.hand, from, to) \in [Procs -> Whereabouts]
  BY <1>1, MovedHands
<1>3. /\ "closed" \in Whereabouts /\ "part" \in Whereabouts
      /\ "file" \in Whereabouts /\ "gone" \in Whereabouts
  BY DEF Whereabouts
<1>4. Truncated(at, p) \in Places(C)
  BY <1>1, <1>3 DEF Truncated, Places
<1>5. Closed(at, p) \in Places(C)
  BY <1>1, <1>3 DEF Closed, Places
<1>6. Renamed(at) \in Places(C)
  <2>1. Moved(Moved(at.hand, "file", "gone"), "part", "file") \in [Procs -> Whereabouts]
    BY <1>2, <1>3, MovedHands
  <2> QED
    BY <1>1, <2>1 DEF Renamed, Places
<1>7. Discarded(at, p) \in Places(C)
  <2>1. Closed(at, p).hand \in [Procs -> Whereabouts]
    BY <1>5 DEF Places
  <2>2. Moved(Closed(at, p).hand, "part", "gone") \in [Procs -> Whereabouts]
    BY <2>1, <1>3, MovedHands
  <2> QED
    BY <1>5, <2>2 DEF Discarded, Places
<1> QED
  BY <1>4, <1>5, <1>6, <1>7

LEMMA SupplantsLeaveAPlace ==
    ASSUME NEW C, NEW at \in Places(C), NEW c \in C
    PROVE  Supplanted(at, c) \in Places(C)
<1>1. Moved(at.hand, "file", "gone") \in [Procs -> Whereabouts]
  BY MovedHands DEF Places, Whereabouts
<1> QED
  BY <1>1 DEF Supplanted, Places

LEMMA WritesLeaveAPlace ==
    ASSUME NEW C, NEW at \in Places(C), NEW p \in Procs, NEW c \in C
    PROVE  Written(at, p, c) \subseteq Places(C)
<1>1. Closed(at, p) \in Places(C)
  BY CallsLeaveAPlace
<1>2. \A old : Overwritten(old, c) \subseteq C \union {Missing, Blank, Torn}
  BY DEF Overwritten
<1>3. \A x \in C \union {Missing, Blank, Torn} :
        /\ [Closed(at, p) EXCEPT !.part = x] \in Places(C)
        /\ [Closed(at, p) EXCEPT !.file = x] \in Places(C)
  BY <1>1 DEF Places
<1> QED
  BY <1>1, <1>2, <1>3 DEF Written

-----------------------------------------------------------------------------
(* What each call does where nobody else has anything open.                *)

LEMMA OpensAlone ==
    ASSUME NEW C, NEW at \in Places(C), NEW p \in Procs, Quiet(at)
    PROVE  /\ Truncated(at, p).file = at.file /\ Truncated(at, p).part = Blank
           /\ Only(Truncated(at, p), p)
BY DEF Truncated, Places, Quiet, Only

LEMMA WritesAlone ==
    ASSUME NEW C, NEW at \in Places(C), NEW p \in Procs, NEW c, NEW new \in Written(at, p, c),
           Only(at, p), at.part = Blank
    PROVE  new.file = at.file /\ new.part = c /\ Quiet(new)
<1>1. Overwritten(at.part, c) = {c}
  BY DEF Overwritten
<1>2. new = [Closed(at, p) EXCEPT !.part = c]
  BY <1>1 DEF Written, Only
<1> QED
  BY <1>2 DEF Closed, Places, Only, Quiet

LEMMA RenamesAlone ==
    ASSUME NEW C, NEW at \in Places(C), Quiet(at)
    PROVE  Renamed(at).file = at.part /\ Renamed(at).part = Missing /\ Quiet(Renamed(at))
BY DEF Renamed, Places, Quiet, Moved

LEMMA ClosesAlone ==
    ASSUME NEW C, NEW at \in Places(C), NEW p \in Procs, Quiet(at) \/ Only(at, p)
    PROVE  /\ Closed(at, p).file = at.file /\ Closed(at, p).part = at.part
           /\ Quiet(Closed(at, p))
           /\ Discarded(at, p).file = at.file /\ Quiet(Discarded(at, p))
<1>1. /\ Closed(at, p).file = at.file /\ Closed(at, p).part = at.part
      /\ Quiet(Closed(at, p)) /\ Closed(at, p) \in Places(C)
  BY CallsLeaveAPlace DEF Closed, Places, Quiet, Only
<1>2. Discarded(at, p).file = at.file /\ Discarded(at, p).hand = Moved(Closed(at, p).hand, "part", "gone")
  BY <1>1 DEF Discarded, Places
<1>3. \A q \in Procs : Moved(Closed(at, p).hand, "part", "gone")[q] = "closed"
  BY <1>1 DEF Moved, Quiet
<1> QED
  BY <1>1, <1>2, <1>3 DEF Quiet

LEMMA SupplantsUnderASave ==
    ASSUME NEW C, NEW at \in Places(C), NEW p, NEW c
    PROVE  /\ Supplanted(at, c).file = c /\ Supplanted(at, c).part = at.part
           /\ Quiet(at) => Quiet(Supplanted(at, c))
           /\ p \in Procs /\ Only(at, p) => Only(Supplanted(at, c), p)
BY DEF Supplanted, Places, Quiet, Only, Moved
=============================================================================
