--------------------------- MODULE RadProperties ---------------------------
(***************************************************************************)
(* What the source is owed by a run (module RadSource) and what the run is *)
(* owed by its own fuses: pace, patience, cost and an end.                 *)
(***************************************************************************)
EXTENDS RadSource

\* Every variable keeps its type; in particular the requests of a run stay within
\* max_requests_per_run, whoever made them (client.py 359-363).
TypeOK ==
    /\ ClientTypeOK
    /\ asked \in {"none", "list", "download"} \union Walk
    /\ since \in Nat
    /\ listed \in 0..Days /\ settled \in 0..Queue
    /\ fate \in [1..Queue -> {"pending", "whole", "read", "charged", "condemned"}]
    /\ continued \in 0..(MaxContinuations + 1) /\ before \in 0..MaxRequests
    /\ ended \in {"running", "completed", "transient", "contract", "captcha", "budget", "died"}

\* The minimum interval holds across the whole run: the n-th request is never sent before
\* n - 1 intervals have passed, whatever mixture of listings, downloads, pages and retries the
\* n requests are (client.py 364-369, one _last_request_at for all of them).
Paced == made > 0 => now >= (made - 1) * MinInterval

\* What the backoff after `n` earlier ones sleeps: a geometric series ...
Sleep[n \in Nat] == IF n = 0 THEN BackoffInitial ELSE Sleep[n - 1] * BackoffFactor

\* ... and what the backoffs of an operation that failed `n` times add up to.
Waited[n \in Nat] == IF n = 0 THEN 0 ELSE Waited[n - 1] + Sleep[n - 1]

\* The transport's own verdict: nobody is told that the source cannot be reached before every
\* retry was made and every backoff of the geometric series waited out (client.py 318-343).  It
\* says nothing of a body that did arrive and is no delivery: download.py raises the same
\* TransientSourceError for it (149, 188), and fetch.py charges the document at once.
Patient == line = "transient" => attempt = Retries /\ now - since >= Waited[Retries]

\* The most operations one document may take: the download, the five pages of the walk, and
\* the continuations.
Operations == 1 + 5 + (MaxContinuations + 1)

\* One document cannot spend the run: with every page failing until its last retry and a
\* generator that never finishes, it costs no more than its own operations, so a run whose
\* budget is larger reaches the document behind it (reading_pdf.py 175-205, client.py 318-343).
DocumentCost ==
    asked \in {"download"} \union Walk => made - before <= (Retries + 1) * Operations

\* "A chain that fails costs the reading copy and never the delivery" (download.py 214-220): a
\* walk that leaves the run going leaves its document delivered, whichever page failed and
\* however.  Three failures do not leave it going, and take the delivery along: the captcha, the
\* request budget, and an answer nothing parses.
WalkCostsNoDelivery ==
    [][(asked \in Walk /\ asked' = "none" /\ ended' = "running")
            => fate'[settled + 1] \in {"whole", "read"}]_vars

\* Whatever the source answers, and however often it does not, the network work of a run ends:
\* it never holds the lock for good against the runs behind it (run.py 205-216, 254-303).
RunEnds == <>(ended # "running")
=============================================================================
