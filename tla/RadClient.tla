----------------------------- MODULE RadClient -----------------------------
(***************************************************************************)
(* The transport every request of a run goes through: a minimum interval   *)
(* between two requests, a cap on their number, and retries with           *)
(* exponential backoff on transient failures only.  One client serves the  *)
(* listing, the downloads and the reading copies, so they share it all.    *)
(*                                                                         *)
(* An operation is called, passes the gate, is sent and answered, and ends *)
(* with a verdict on `line` for the caller (module RadSource) to act on.   *)
(* Time is counted in whole units; a sleep lasts exactly what was asked.   *)
(***************************************************************************)
EXTENDS Integers

CONSTANTS
    MinInterval,      \* min_request_interval
    MaxRequests,      \* max_requests_per_run
    Retries,          \* retries, beyond the first attempt
    BackoffInitial,   \* backoff_initial
    BackoffFactor,    \* backoff_factor
    Durations         \* how long the source may take to answer

ASSUME ClientAssumption ==
    /\ MinInterval \in Nat \ {0} /\ MaxRequests \in Nat \ {0} /\ Retries \in Nat
    /\ BackoffInitial \in Nat /\ BackoffInitial >= MinInterval
    /\ BackoffFactor \in Nat \ {0}
    /\ Durations \subseteq Nat

VARIABLES
    now,       \* the monotonic clock
    made,      \* requests_made
    lastAt,    \* when the last answer was in, or Never
    line,      \* where the operation is, or the verdict it ended with
    attempt,   \* retries of this operation so far
    delay      \* what the next backoff would wait

clientVars == <<now, made, lastAt, line, attempt, delay>>

Never == -1

\* TransientSourceError, SourceContractError, DocumentError, the captcha and the budget.
Verdicts == {"ok", "transient", "contract", "document", "captcha", "budget"}

Later(s, t) == IF s < t THEN t ELSE s

-----------------------------------------------------------------------------
(* What a caller does: start an operation, or be done with its verdict.    *)

Reset(l) ==
    /\ line' = l /\ attempt' = 0 /\ delay' = BackoffInitial
    /\ UNCHANGED <<now, made, lastAt>>

Call   == Reset("gate")
Return == Reset("free")

-----------------------------------------------------------------------------
(* _request and _with_retries.                                             *)

\* The fuse: nothing is sent past the cap, and the refusal is not retried.
Refuse ==
    /\ line = "gate" /\ made >= MaxRequests
    /\ line' = "budget"
    /\ UNCHANGED <<now, made, lastAt, attempt, delay>>

\* Bug variant of Send: the cap is left to the caller.
SendUnfused ==
    /\ line = "gate"
    /\ now' = IF lastAt = Never THEN now ELSE Later(now, lastAt + MinInterval)
    /\ made' = made + 1
    /\ line' = "sent"
    /\ UNCHANGED <<lastAt, attempt, delay>>

\* Bug variant of Send: each operation keeps an interval of its own, between its retries.
SendHasty ==
    /\ line = "gate" /\ made < MaxRequests
    /\ now' = IF attempt = 0 THEN now ELSE Later(now, lastAt + MinInterval)
    /\ made' = made + 1
    /\ line' = "sent"
    /\ UNCHANGED <<lastAt, attempt, delay>>

Send ==
    /\ line = "gate" /\ made < MaxRequests
    /\ now' = IF lastAt = Never THEN now ELSE Later(now, lastAt + MinInterval)
    /\ made' = made + 1
    /\ line' = "sent"
    /\ UNCHANGED <<lastAt, attempt, delay>>

Answer(verdict, t) ==
    /\ line = "sent"
    /\ now' = now + t /\ lastAt' = now + t
    /\ line' = verdict
    /\ UNCHANGED <<made, attempt, delay>>

\* Bug variant of BackOff: the backoff is never multiplied.
BackOffFlat(t) ==
    /\ line = "sent" /\ attempt < Retries
    /\ lastAt' = now + t /\ now' = now + t + delay
    /\ attempt' = attempt + 1 /\ UNCHANGED delay
    /\ line' = "gate"
    /\ UNCHANGED made

\* A transient failure sleeps and tries again ...
BackOff(t) ==
    /\ line = "sent" /\ attempt < Retries
    /\ lastAt' = now + t /\ now' = now + t + delay
    /\ attempt' = attempt + 1 /\ delay' = delay * BackoffFactor
    /\ line' = "gate"
    /\ UNCHANGED made

\* ... until the last attempt, whose failure is the caller's.
GiveUp(t) == attempt = Retries /\ Answer("transient", t)

ClientInit ==
    /\ now = 0 /\ made = 0 /\ lastAt = Never
    /\ line = "free" /\ attempt = 0 /\ delay = BackoffInitial

ClientTypeOK ==
    /\ now \in Nat /\ made \in 0..MaxRequests /\ lastAt \in Nat \union {Never}
    /\ line \in {"free", "gate", "sent"} \union Verdicts
    /\ attempt \in 0..Retries /\ delay \in Nat
=============================================================================
