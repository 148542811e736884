------------------------- MODULE PlacementProperties -------------------------
(***************************************************************************)
(* What the archive may rely on while deliveries are placed (Placement).   *)
(***************************************************************************)
EXTENDS Placement

\* The type of every variable; nothing is held under the name it was generated with.
Types ==
    /\ local \in [Docs -> {"absent", "discovered", "downloading", "available", "failed"}]
    /\ rows \in [Docs -> SUBSET (Names \X {"document", "member", "imposed"})]
    /\ held \in [Names -> SUBSET (Docs \X {"document", "member", "imposed", "stale"})]
    /\ staging \in [Docs -> SUBSET Files]
    /\ step \in {"idle", "resolve", "enact", "tidy", "sweep", "enact_again", "fetch"}
    /\ at \in {"loop", "forget", "start", "download", "extract", "name", "clear", "record",
               "mark", "discard"}
    /\ todo \subseteq Docs
    /\ delivery \in Deliveries \union {{}} /\ target \in Names \union {NoName}
    /\ faults \in 0 .. MaxFaults /\ soiled \subseteq Docs

\* A document is recorded only under the names it may choose from, and a filing's name holds
\* nothing but its filing.
NamesOf(d) == {Candidate(d, i) : i \in 1 .. Tries} \union {Filing(d)}
OwnNames ==
    \A d \in Docs : /\ \A r \in rows[d] : r[1] \in NamesOf(d)
                    /\ held[Filing(d)] \subseteq {<<d, "document">>}

\* Every variable keeps its type, and every delivery its names: whatever competes for them and
\* whatever runs that died left behind, no row points to a name of another document's own, and
\* no container is placed over a filing (fetch.py 330-333, 347-364).
TypeOK == Types /\ OwnNames

\* "_free_directory never hands back a directory that is not recognizably this document's, which
\* is what makes deleting one here safe" (fetch.py 339-342): no file leaves the archive except by
\* the handling of its own document, whichever names were taken, cleared or left behind by runs
\* that died, and whatever paths a manifest that lags behind the disk still records.
OthersUntouched ==
    [][\A n \in Names : \A x \in held[n] : x \notin held'[n] => Head(x[1])]_vars

\* "The directory that arrives is already the directory that stays" (fetch.py 330-333): an
\* available document's place holds the files of its delivery, each of them recorded, and nothing
\* an earlier attempt had left in the staging tree, which is emptied after an attempt, at
\* the next start and before the next attempt.  It takes the last of the three to fail for what
\* is left to be placed as well; then, and only then, the code lets it in.
PlacedIsDelivery ==
    \A d \in Docs \ soiled : local[d] = "available" =>
        \E n \in Names : /\ held[n] # {}
                         /\ rows[d] = {<<n, x[2]>> : x \in held[n]}
                         /\ \A x \in held[n] : x[1] = d

\* "`.tmp/` that only grows is a defect" (fetch.py 425-426): what an attempt leaves in the
\* staging root is gone in the end, even when its document is never fetched again.
DebrisLeaves == \A d \in Docs : staging[d] # {} ~> staging[d] = {}
=============================================================================
