----------------------------- MODULE RadProofs -----------------------------
(***************************************************************************)
(* The pace, the cap and the cost of a document hold for every value of    *)
(* the constants, whatever the source answers and however slowly.          *)
(*                                                                         *)
(* The invariant counts.  A clock that is behind (n - 1) intervals is      *)
(* excluded by when the last answer was in; what a document has cost so    *)
(* far is bounded by the pages behind it and the attempts of this one.     *)
(***************************************************************************)
EXTENDS RadProperties, TLAPS, WellFoundedInduction

Fetching == asked \in {"download"} \union Walk

\* What is in flight, and that there is a day or a document it is for.
InFlight ==
    /\ (line = "free") = (asked = "none")
    /\ asked = "list" => listed < Days
    /\ Fetching => settled < Queue
    /\ asked # "none" => Running
    /\ Running /\ asked # "continue" => continued = 0
    /\ line = "document" => asked # "list"

\* The last answer was in no earlier than the intervals behind it add up to.
Spaced ==
    /\ made > 0 => now >= (made - 1) * MinInterval
    /\ line = "sent" => made > 0
    /\ lastAt # Never => lastAt <= now
    /\ made > 0 /\ line # "sent" => lastAt # Never /\ lastAt >= (made - 1) * MinInterval

\* The operations of the document that are behind it.
Behind ==
    IF asked = "download" THEN 0
    ELSE IF asked = "entry" THEN 1
    ELSE IF asked = "viewer" THEN 2
    ELSE IF asked = "generator" THEN 3
    ELSE IF asked = "menu" THEN 4
    ELSE 5 + continued

\* Each operation behind took at most Retries + 1 requests, and this one its attempts so far.
Costed ==
    Fetching => made - before <= (Retries + 1) * Behind + attempt + (IF line = "gate" THEN 0 ELSE 1)

IInv == TypeOK /\ InFlight /\ Spaced /\ Costed

-----------------------------------------------------------------------------
(* Arithmetic the steps share.                                             *)

LEMMA OneMore ==
    ASSUME NEW n \in Int, NEW k \in Int
    PROVE  (n + 1) * k = n * k + k /\ k * (n + 1) = k * n + k
BY SMT

LEMMA Monotone ==
    ASSUME NEW k \in Nat, NEW m \in Int, NEW n \in Int, m <= n
    PROVE  k * m <= k * n
BY SMT

LEMMA Products ==
    /\ \A n \in Int : n * MinInterval \in Int /\ (Retries + 1) * n \in Int
    /\ \A n \in Nat : n * BackoffFactor \in Nat
BY ClientAssumption, SMT DEF ClientAssumption
-----------------------------------------------------------------------------
(* Induction and recursion over the natural numbers, and the two functions *)
(* the patience of an operation is measured with.                          *)

\* The order of the natural numbers, as the library's theorems take it.
Below == {p \in Nat \X Nat : p[1] < p[2]}

LEMMA BelowIsWellFounded == IsWellFoundedOn(Below, Nat)
<1>1. Below = OpToRel(<, Nat)
  BY Zenon DEF Below, OpToRel
<1>2. QED
  BY <1>1, NatLessThanWellFounded, Zenon

\* Induction over the natural numbers, for a set in place of a predicate: a set that misses a
\* number misses a least one.
LEMMA NatSetInduction ==
    ASSUME NEW S, 0 \in S, \A n \in Nat : n \in S => n + 1 \in S
    PROVE  Nat \subseteq S
<1> SUFFICES ASSUME Nat \ S # {}
             PROVE  FALSE
  OBVIOUS
<1>1. PICK x \in Nat \ S : \A y \in Nat \ S : <<y, x>> \notin Below
  <2>1. Nat \ S \subseteq Nat
    OBVIOUS
  <2> QED
    BY <2>1, BelowIsWellFounded, WFMin
<1>2. x - 1 \in Nat /\ <<x - 1, x>> \in Below
  BY DEF Below
<1>3. x - 1 \in S
  BY <1>1, <1>2
<1>4. QED
  BY <1>2, <1>3

\* `f` starts at s0 and takes the step `next` from every number to the one after it.
Iterates(f, s0, next) == f[0] = s0 /\ \A n \in Nat : f[n + 1] = next[<<n, f[n]>>]

\* Every such step is taken by a function: any two that take it up to n agree up to n, and what
\* they agree on, for every n, is the function.
LEMMA NatRecursion ==
    ASSUME NEW S, NEW s0 \in S, NEW next \in [Nat \X S -> S]
    PROVE  \E f \in [Nat -> S] : Iterates(f, s0, next)
<1> DEFINE Upto(n) == {f \in [Nat -> S] : f[0] = s0 /\ \A k \in Nat : k < n => f[k + 1] = next[<<k, f[k]>>]}
           Reached == {n \in Nat : Upto(n) # {}}
           Agreed(f, g, m) == {n \in Nat : n <= m => f[n] = g[n]}
<1>1. Nat \subseteq Reached
  <2>1. 0 \in Reached
    <3>1. [k \in Nat |-> s0] \in Upto(0)
      OBVIOUS
    <3> QED
      BY <3>1
  <2>2. ASSUME NEW n \in Nat, n \in Reached
        PROVE  n + 1 \in Reached
    <3>1. PICK f \in Upto(n) : TRUE
      BY <2>2
    <3> DEFINE g == [f EXCEPT ![n + 1] = next[<<n, f[n]>>]]
    <3>2. g \in [Nat -> S] /\ \A k \in Nat : k # n + 1 => g[k] = f[k]
      OBVIOUS
    <3>3. g[n + 1] = next[<<n, f[n]>>] /\ g[0] = s0
      OBVIOUS
    <3>4. \A k \in Nat : k < n + 1 => g[k + 1] = next[<<k, g[k]>>]
      <4> SUFFICES ASSUME NEW k \in Nat, k < n + 1
                   PROVE  g[k + 1] = next[<<k, g[k]>>]
        OBVIOUS
      <4>1. g[k] = f[k]
        BY <3>2
      <4>2. CASE k = n
        BY <3>3, <4>1, <4>2
      <4>3. CASE k < n
        <5>1. f[k + 1] = next[<<k, f[k]>>]
          BY <4>3
        <5>2. g[k + 1] = f[k + 1]
          BY <3>2, <4>3
        <5> QED
          BY <4>1, <5>1, <5>2
      <4> QED
        BY <4>2, <4>3
    <3>5. g \in Upto(n + 1)
      BY <3>2, <3>3, <3>4
    <3>6. Upto(n + 1) # {}
      <4> HIDE DEF Upto, g
      <4> QED
        BY <3>5
    <3> QED
      BY <3>6
  <2> HIDE DEF Reached
  <2> QED
    BY <2>1, <2>2, NatSetInduction
<1>2. ASSUME NEW m \in Nat, NEW f \in Upto(m), NEW g \in Upto(m)
      PROVE  \A n \in Nat : n <= m => f[n] = g[n]
  <2>1. 0 \in Agreed(f, g, m)
    OBVIOUS
  <2>2. ASSUME NEW n \in Nat, n \in Agreed(f, g, m)
        PROVE  n + 1 \in Agreed(f, g, m)
    <3> SUFFICES ASSUME n + 1 <= m
                 PROVE  f[n + 1] = g[n + 1]
      OBVIOUS
    <3>1. n < m /\ f[n] = g[n]
      BY <2>2
    <3>2. f[n + 1] = next[<<n, f[n]>>] /\ g[n + 1] = next[<<n, g[n]>>]
      BY <3>1
    <3> QED
      BY <3>1, <3>2
  <2>3. Nat \subseteq Agreed(f, g, m)
    <3> HIDE DEF Agreed
    <3> QED
      BY <2>1, <2>2, NatSetInduction
  <2> QED
    BY <2>3
<1> DEFINE one == [n \in Nat |-> CHOOSE f \in Upto(n) : TRUE]
           h == [n \in Nat |-> one[n][n]]
<1>3. \A n \in Nat : one[n] \in Upto(n)
  BY <1>1
<1> HIDE DEF one
<1>4. h \in [Nat -> S] /\ h[0] = s0
  BY <1>3
<1>5. ASSUME NEW n \in Nat
      PROVE  h[n + 1] = next[<<n, h[n]>>]
  <2>1. one[n + 1] \in Upto(n + 1) /\ one[n] \in Upto(n)
    BY <1>3
  <2>2. one[n + 1] \in Upto(n)
    BY <2>1
  <2>3. one[n + 1][n] = one[n][n]
    <3> HIDE DEF Upto
    <3> QED
      BY <1>2, <2>1, <2>2
  <2>4. \A f \in Upto(n + 1) : f[n + 1] = next[<<n, f[n]>>]
    OBVIOUS
  <2> QED
    BY <2>1, <2>3, <2>4
<1> HIDE DEF h
<1>6. QED
  BY <1>4, <1>5 DEF Iterates

\* Each backoff is the last one times the factor.
LEMMA SleepIsGeometric ==
    /\ Sleep \in [Nat -> Nat]
    /\ Sleep[0] = BackoffInitial
    /\ \A n \in Nat : Sleep[n + 1] = Sleep[n] * BackoffFactor
<1> DEFINE next == [p \in Nat \X Nat |-> p[2] * BackoffFactor]
           Eqn(f) == f = [n \in Nat |-> IF n = 0 THEN BackoffInitial ELSE f[n - 1] * BackoffFactor]
<1>1. next \in [Nat \X Nat -> Nat] /\ BackoffInitial \in Nat
  BY ClientAssumption, Products DEF ClientAssumption
<1>2. PICK f \in [Nat -> Nat] : f[0] = BackoffInitial /\ \A n \in Nat : f[n + 1] = f[n] * BackoffFactor
  <2> HIDE DEF next
  <2>1. \E f \in [Nat -> Nat] : Iterates(f, BackoffInitial, next)
    BY <1>1, NatRecursion
  <2> QED
    BY <2>1 DEF Iterates, next
<1>3. Eqn(f)
  <2>1. ASSUME NEW n \in Nat, n # 0
        PROVE  f[n] = f[n - 1] * BackoffFactor
    <3>1. n - 1 \in Nat /\ (n - 1) + 1 = n
      BY <2>1
    <3> QED
      BY <1>2, <3>1
  <2>2. f = [n \in Nat |-> f[n]]
    OBVIOUS
  <2>3. \A n \in Nat : f[n] = IF n = 0 THEN BackoffInitial ELSE f[n - 1] * BackoffFactor
    BY <1>2, <2>1
  <2> QED
    BY <2>2, <2>3, Zenon
<1>4. Eqn(Sleep)
  <2>1. Sleep = CHOOSE g : Eqn(g)
    BY DEF Sleep
  <2> HIDE DEF Eqn
  <2> QED
    BY <1>3, <2>1
<1> HIDE DEF Sleep
<1>5. Sleep[0] = BackoffInitial /\ \A n \in Nat : Sleep[n + 1] = Sleep[n] * BackoffFactor
  BY <1>4
<1>6. \A n \in Nat : Sleep[n] \in Nat
  <2> DEFINE T == {n \in Nat : Sleep[n] \in Nat}
  <2>1. 0 \in T /\ \A n \in Nat : n \in T => n + 1 \in T
    BY <1>5, ClientAssumption, Products DEF ClientAssumption
  <2> HIDE DEF T
  <2>2. Nat \subseteq T
    BY <2>1, NatSetInduction
  <2> QED
    BY <2>2 DEF T
<1>7. QED
  BY <1>4, <1>5, <1>6

\* Each backoff adds its sleep to what was waited.
LEMMA WaitedAddsUp ==
    /\ Waited \in [Nat -> Nat]
    /\ Waited[0] = 0
    /\ \A n \in Nat : Waited[n + 1] = Waited[n] + Sleep[n]
<1> DEFINE next == [p \in Nat \X Nat |-> p[2] + Sleep[p[1]]]
           Eqn(f) == f = [n \in Nat |-> IF n = 0 THEN 0 ELSE f[n - 1] + Sleep[n - 1]]
<1>1. next \in [Nat \X Nat -> Nat] /\ 0 \in Nat
  BY SleepIsGeometric
<1>2. PICK f \in [Nat -> Nat] : f[0] = 0 /\ \A n \in Nat : f[n + 1] = f[n] + Sleep[n]
  <2> HIDE DEF next
  <2>1. \E f \in [Nat -> Nat] : Iterates(f, 0, next)
    BY <1>1, NatRecursion
  <2> QED
    BY <2>1 DEF Iterates, next
<1>3. Eqn(f)
  <2>1. ASSUME NEW n \in Nat, n # 0
        PROVE  f[n] = f[n - 1] + Sleep[n - 1]
    <3>1. n - 1 \in Nat /\ (n - 1) + 1 = n
      BY <2>1
    <3> QED
      BY <1>2, <3>1
  <2>2. f = [n \in Nat |-> f[n]]
    OBVIOUS
  <2>3. \A n \in Nat : f[n] = IF n = 0 THEN 0 ELSE f[n - 1] + Sleep[n - 1]
    BY <1>2, <2>1
  <2> QED
    BY <2>2, <2>3, Zenon
<1>4. Eqn(Waited)
  <2>1. Waited = CHOOSE g : Eqn(g)
    BY DEF Waited
  <2> HIDE DEF Eqn
  <2> QED
    BY <1>3, <2>1
<1> HIDE DEF Waited
<1>5. Waited[0] = 0 /\ \A n \in Nat : Waited[n + 1] = Waited[n] + Sleep[n]
  BY <1>4
<1>6. \A n \in Nat : Waited[n] \in Nat
  <2> DEFINE T == {n \in Nat : Waited[n] \in Nat}
  <2>1. 0 \in T /\ \A n \in Nat : n \in T => n + 1 \in T
    BY <1>5, SleepIsGeometric
  <2> HIDE DEF T
  <2>2. Nat \subseteq T
    BY <2>1, NatSetInduction
  <2> QED
    BY <2>2 DEF T
<1>7. QED
  BY <1>4, <1>5, <1>6

-----------------------------------------------------------------------------
(* The transport: the only steps that move the clock and the count.        *)

LEMMA InitEstablishes == Init => IInv
BY ClientAssumption, SourceAssumption
   DEF ClientAssumption, SourceAssumption, Init, ClientInit, IInv, TypeOK, ClientTypeOK,
       InFlight, Spaced, Costed, Fetching, Walk, Running, Verdicts, Never

LEMMA TransportKeepsTypes ==
    ASSUME IInv, Transport
    PROVE  TypeOK' /\ InFlight'
<1> USE ClientAssumption DEF ClientAssumption, Transport, IInv, TypeOK, ClientTypeOK, InFlight, Spaced,
        Fetching, Running, runVars, Verdicts, Never
<1>1. CASE Refuse
  BY <1>1 DEF Refuse
<1>2. CASE Send
  BY <1>2 DEF Send, Later
<1>3. ASSUME NEW t \in Durations, NEW verdict \in {"ok", "contract", "document", "captcha"},
             Possible(verdict), Answer(verdict, t)
      PROVE  TypeOK' /\ InFlight'
  BY <1>3 DEF Possible, Answer
<1>4. ASSUME NEW t \in Durations, BackOff(t)
      PROVE  TypeOK' /\ InFlight'
  BY <1>4, Products DEF BackOff
<1>5. ASSUME NEW t \in Durations, GiveUp(t)
      PROVE  TypeOK' /\ InFlight'
  BY <1>5 DEF GiveUp, Answer
<1>6. QED
  BY <1>1, <1>2, <1>3, <1>4, <1>5

\* An answer of any kind is in no earlier than the request was sent.
LEMMA AnswerSpaces ==
    ASSUME IInv, NEW t \in Nat, line = "sent", lastAt' = now + t, now' >= now + t, now' \in Nat,
           line' # "sent", UNCHANGED made
    PROVE  Spaced'
<1>1. (made - 1) * MinInterval \in Int /\ (made' - 1) * MinInterval = (made - 1) * MinInterval
  BY Products DEF IInv, TypeOK, ClientTypeOK
<1>2. made > 0 /\ now >= (made - 1) * MinInterval
  BY DEF IInv, Spaced
<1>3. lastAt' # Never /\ now' >= lastAt' /\ lastAt' >= (made - 1) * MinInterval
  BY <1>1, <1>2 DEF IInv, TypeOK, ClientTypeOK, Never
<1>4. QED
  BY <1>1, <1>2, <1>3 DEF IInv, TypeOK, ClientTypeOK, Spaced

LEMMA TransportKeepsSpace ==
    ASSUME IInv, Transport
    PROVE  Spaced'
<1> USE ClientAssumption DEF ClientAssumption, IInv, TypeOK, ClientTypeOK, Never
<1>1. CASE Refuse
  BY <1>1 DEF Refuse, Spaced
<1>2. CASE Send
  <2>1. (made + 1 - 1) * MinInterval = (made - 1) * MinInterval + MinInterval
    BY OneMore
  <2>2. CASE lastAt = Never
    <3>1. made = 0
      BY <1>2, <2>2 DEF Send, Spaced
    <3> QED
      BY <1>2, <2>2, <3>1 DEF Send, Spaced
  <2>3. CASE lastAt # Never
    <3>1. now' \in Nat /\ now' >= lastAt + MinInterval /\ made' = made + 1 /\ line' = "sent"
          /\ lastAt' = lastAt /\ lastAt' <= now'
      BY <1>2, <2>3 DEF Send, Later, Spaced
    <3>2. made > 0 => lastAt >= (made - 1) * MinInterval
      BY <1>2 DEF Send, Spaced
    <3>3. (made' - 1) * MinInterval = (made - 1) * MinInterval + MinInterval
      BY <2>1, <3>1
    <3>4. made = 0 => (made' - 1) * MinInterval = 0
      BY <3>1
    <3>5. now' >= (made' - 1) * MinInterval
      BY <3>1, <3>2, <3>3, <3>4, Products
    <3> QED
      BY <3>1, <3>5 DEF Spaced
  <2> QED
    BY <2>2, <2>3
<1>3. ASSUME NEW t \in Durations, NEW verdict \in Verdicts, Answer(verdict, t)
      PROVE  Spaced'
  BY <1>3, AnswerSpaces DEF Answer, Verdicts
<1>4. ASSUME NEW t \in Durations, BackOff(t)
      PROVE  Spaced'
  BY <1>4, AnswerSpaces DEF BackOff
<1>5. QED
  BY <1>1, <1>2, <1>3, <1>4 DEF Transport, GiveUp, Verdicts

LEMMA TransportKeepsCost ==
    ASSUME IInv, Transport
    PROVE  Costed'
<1> USE DEF IInv, TypeOK, ClientTypeOK
<1>1. asked' = asked /\ before' = before /\ Behind' = Behind /\ Fetching' = Fetching
  BY DEF Transport, runVars, Behind, Fetching
<1>2. Behind \in Nat /\ (Retries + 1) * Behind \in Int
  <2>1. Behind \in Nat
    BY DEF Behind
  <2> QED
    BY <2>1, Products
<1>3. \/ made' = made /\ attempt' = attempt /\ (line = "gate" => line' # "sent") /\ line' # "gate"
      \/ made' = made + 1 /\ attempt' = attempt /\ line = "gate" /\ line' # "gate"
      \/ made' = made /\ attempt' = attempt + 1 /\ line # "gate" /\ line' = "gate"
  BY DEF Transport, Refuse, Send, Answer, BackOff, GiveUp
<1>4. QED
  BY <1>1, <1>2, <1>3 DEF Costed

-----------------------------------------------------------------------------
(* The caller: an operation follows another, or nothing is in flight.      *)

LEMMA CallerKeepsSpace ==
    ASSUME IInv, UNCHANGED <<now, made, lastAt>>, line' # "sent", line # "sent"
    PROVE  Spaced'
BY DEF IInv, Spaced

\* The next page is called once this one's attempts are behind it.
LEMMA NextPageIsPaid ==
    ASSUME IInv, Fetching, Fetching', Behind' = Behind + 1, attempt' = 0, line' = "gate",
           UNCHANGED <<made, before>>
    PROVE  Costed'
<1> USE ClientAssumption DEF ClientAssumption, IInv, TypeOK, ClientTypeOK
<1>1. Behind \in Nat
  BY DEF Behind
<1>2. made - before <= (Retries + 1) * Behind + attempt + 1
  BY <1>1, Products DEF Costed
<1>3. (Retries + 1) * (Behind + 1) = (Retries + 1) * Behind + (Retries + 1)
  BY <1>1, OneMore
<1>4. QED
  BY <1>1, <1>2, <1>3, Products DEF Costed

LEMMA SweepKeeps ==
    ASSUME IInv, Sweep
    PROVE  IInv'
<1> USE ClientAssumption, SourceAssumption
    DEF ClientAssumption, SourceAssumption, IInv, TypeOK, ClientTypeOK, InFlight, Fetching, Walk, Running,
        Ask, Drop, Call, Return, Reset, runVars, Verdicts
<1>1. Spaced'
  BY CallerKeepsSpace DEF Sweep, ListNext, DayListed, ListingFails
<1>2. CASE ListNext
  BY <1>1, <1>2 DEF ListNext, Costed
<1>3. CASE DayListed
  BY <1>1, <1>3 DEF DayListed, Costed
<1>4. CASE ListingFails
  BY <1>1, <1>4 DEF ListingFails, Costed
<1>5. QED
  BY <1>2, <1>3, <1>4 DEF Sweep

\* A document dealt with leaves nothing in flight, whatever became of it.
LEMMA SettleKeeps ==
    ASSUME IInv, Fetching, line \notin {"free", "sent"},
           NEW f \in {"whole", "read", "charged", "condemned"}, Settle(f)
    PROVE  IInv'
<1> USE ClientAssumption, SourceAssumption
    DEF ClientAssumption, SourceAssumption, IInv, TypeOK, ClientTypeOK, InFlight, Fetching, Walk, Running,
        Settle, Drop, Return, Reset, Verdicts
<1>1. Spaced'
  BY CallerKeepsSpace
<1>2. QED
  BY <1>1 DEF Costed

LEMMA FetchKeeps ==
    ASSUME IInv, Fetch
    PROVE  IInv'
<1> USE ClientAssumption, SourceAssumption
    DEF ClientAssumption, SourceAssumption, IInv, TypeOK, ClientTypeOK, InFlight, Fetching, Walk, Running,
        Ask, Drop, Call, Return, Reset, runVars, clientVars, Verdicts
<1>1. CASE FetchNext
  <2>1. Spaced'
    BY <1>1, CallerKeepsSpace DEF FetchNext
  <2>2. Costed'
    BY <1>1 DEF FetchNext, Costed, Behind
  <2> QED
    BY <1>1, <2>1, <2>2 DEF FetchNext
<1>2. CASE Deliver \/ DownloadFails \/ DownloadDiverges
  BY <1>2, SettleKeeps DEF Deliver, DownloadFails, DownloadDiverges
<1>3. CASE FetchRefused
  <2>1. Spaced'
    BY <1>3, CallerKeepsSpace DEF FetchRefused
  <2>2. Costed'
    BY <1>3 DEF FetchRefused, Costed
  <2>3. TypeOK' /\ InFlight'
    BY <1>3 DEF FetchRefused
  <2> QED
    BY <2>1, <2>2, <2>3
<1>4. CASE FetchDone
  BY <1>4 DEF FetchDone, Spaced, Costed, Behind
<1>5. QED
  BY <1>1, <1>2, <1>3, <1>4 DEF Fetch
LEMMA ReadKeeps ==
    ASSUME IInv, Read
    PROVE  IInv'
<1> USE ClientAssumption, SourceAssumption
    DEF ClientAssumption, SourceAssumption, IInv, TypeOK, ClientTypeOK, InFlight, Fetching, Walk, Running,
        Ask, Drop, Call, Return, Reset, runVars, Verdicts
<1>1. CASE StartWalk
  <2>1. Spaced'
    BY <1>1, CallerKeepsSpace DEF StartWalk
  <2>2. Costed'
    BY <1>1, NextPageIsPaid DEF StartWalk, Behind
  <2> QED
    BY <1>1, <2>1, <2>2 DEF StartWalk
<1>2. CASE WalkOn
  <2>1. Spaced'
    BY <1>2, CallerKeepsSpace DEF WalkOn
  <2>2. Costed'
    <3>1. asked \in {"entry", "viewer", "generator", "menu"} /\ asked' = Following[asked]
          /\ continued' = continued
      BY <1>2 DEF WalkOn, Following
    <3>2. Behind' = Behind + 1 /\ Fetching /\ Fetching'
      BY <3>1 DEF Behind, Following
    <3> HIDE DEF Fetching
    <3> QED
      BY <1>2, <3>2, NextPageIsPaid DEF WalkOn
  <2> QED
    BY <1>2, <2>1, <2>2 DEF WalkOn, Following
<1>3. CASE Continue
  <2>1. Spaced'
    BY <1>3, CallerKeepsSpace DEF Continue, Examined
  <2>2. Costed'
    <3>1. asked \in {"generate", "continue"} /\ asked' = "continue" /\ continued' = continued + 1
      BY <1>3 DEF Continue
    <3>2. asked = "generate" => continued = 0
      OBVIOUS
    <3>3. Behind = 5 + continued /\ Behind' = 5 + continued'
      BY <3>1, <3>2 DEF Behind
    <3>4. Behind' = Behind + 1 /\ Fetching /\ Fetching'
      BY <3>1, <3>3
    <3> HIDE DEF Fetching
    <3> QED
      BY <1>3, <3>4, NextPageIsPaid DEF Continue
  <2>3. TypeOK' /\ InFlight'
    BY <1>3 DEF Continue, Examined
  <2> QED
    BY <2>1, <2>2, <2>3
<1>4. CASE ReadOut \/ WalkFails \/ WalkExhausted
  BY <1>4, SettleKeeps DEF ReadOut, WalkFails, WalkExhausted, Examined
<1>5. CASE WalkCaptcha \/ WalkDies
  <2>1. Spaced'
    BY <1>5, CallerKeepsSpace DEF WalkCaptcha, WalkDies, Examined
  <2>2. Costed'
    BY <1>5 DEF WalkCaptcha, WalkDies, Costed
  <2>3. TypeOK' /\ InFlight'
    BY <1>5 DEF WalkCaptcha, WalkDies
  <2> QED
    BY <2>1, <2>2, <2>3
<1>6. QED
  BY <1>1, <1>2, <1>3, <1>4, <1>5 DEF Read

-----------------------------------------------------------------------------
(* The theorems.                                                           *)

\* The counting invariant holds of every run, whatever the source answers.
THEOREM InductiveInvariance == Spec => []IInv
<1>1. IInv /\ [Next]_vars => IInv'
  <2> SUFFICES ASSUME IInv, [Next]_vars
               PROVE  IInv'
    OBVIOUS
  <2>1. CASE Transport
    BY <2>1, TransportKeepsTypes, TransportKeepsSpace, TransportKeepsCost DEF IInv
  <2>2. CASE Sweep \/ Fetch \/ Read
    BY <2>2, SweepKeeps, FetchKeeps, ReadKeeps
  <2>3. CASE UNCHANGED vars
    <3> USE <2>3 DEF vars, clientVars, runVars
    <3>1. TypeOK' /\ InFlight'
      BY DEF IInv, TypeOK, ClientTypeOK, InFlight, Fetching, Running
    <3>2. Spaced'
      BY DEF IInv, Spaced
    <3>3. Costed'
      BY DEF IInv, Costed, Fetching, Behind
    <3> QED
      BY <3>1, <3>2, <3>3 DEF IInv
  <2>4. QED
    BY <2>1, <2>2, <2>3 DEF Next
<1>2. QED
  BY InitEstablishes, <1>1, PTL DEF Spec

\* Every variable keeps its type, so a run never sends more than max_requests_per_run requests,
\* whatever mixture of listings, downloads, walks and retries asks for them.
THEOREM RequestsWithinCap == Spec => []TypeOK
<1>1. IInv => TypeOK
  BY DEF IInv
<1>2. QED
  BY InductiveInvariance, <1>1, PTL

\* The minimum interval is kept over the whole run, for every interval, backoff and cap, and
\* however long each answer takes.
THEOREM PaceIsKept == Spec => []Paced
<1>1. IInv => Paced
  BY DEF IInv, Spaced, Paced
<1>2. QED
  BY InductiveInvariance, <1>1, PTL

\* No document costs the source more than its own operations with all their retries, for every
\* number of retries and continuations, and whatever the generator answers.
THEOREM DocumentCostIsBounded == Spec => []DocumentCost
<1>1. IInv => DocumentCost
  <2> SUFFICES ASSUME IInv, Fetching
               PROVE  made - before <= (Retries + 1) * Operations
    BY DEF Fetching, DocumentCost
  <2> USE ClientAssumption, SourceAssumption
      DEF ClientAssumption, SourceAssumption, IInv, TypeOK, ClientTypeOK
  <2>1. Behind \in Nat /\ Operations \in Nat /\ Behind + 1 <= Operations
    <3>1. Fetching => Behind <= 5 + continued
      BY DEF Behind, Fetching, Walk
    <3> QED
      BY <3>1 DEF Behind, Operations
  <2>2. made - before <= (Retries + 1) * Behind + (Retries + 1)
    BY <2>1, Products DEF Costed
  <2>3. (Retries + 1) * (Behind + 1) = (Retries + 1) * Behind + (Retries + 1)
    BY <2>1, OneMore
  <2>4. (Retries + 1) * (Behind + 1) <= (Retries + 1) * Operations
    BY <2>1, Monotone
  <2>5. made - before \in Int
    OBVIOUS
  <2> QED
    BY <2>1, <2>2, <2>3, <2>4, <2>5, Products
<1>2. QED
  BY InductiveInvariance, <1>1, PTL

\* The operation in hand has slept the backoffs behind it, and knows how long the next one is.
Waiting ==
    /\ since <= now
    /\ delay = Sleep[attempt] /\ now - since >= Waited[attempt]
    /\ line = "transient" => attempt = Retries

LEMMA NextKeepsWaiting ==
    ASSUME IInv, Waiting, [Next]_vars
    PROVE  Waiting'
<1> USE ClientAssumption DEF ClientAssumption, IInv, TypeOK, ClientTypeOK
<1>0. attempt \in Nat
  OBVIOUS
<1>1. Waited[attempt] \in Nat /\ Sleep[attempt] \in Nat
  BY <1>0, SleepIsGeometric, WaitedAddsUp
<1>2. ASSUME UNCHANGED <<since, attempt, delay>>, now' \in Nat, now' >= now,
             line' # "transient" \/ line' = line \/ attempt = Retries
      PROVE  Waiting'
  BY <1>1, <1>2 DEF Waiting
<1>3. CASE Transport
  <2>1. CASE Refuse \/ Send
    BY <1>2, <1>3, <2>1 DEF Transport, Refuse, Send, Later, Never
  <2>2. ASSUME NEW t \in Durations, NEW verdict \in {"ok", "contract", "document", "captcha"},
               Answer(verdict, t)
        PROVE  Waiting'
    BY <1>2, <1>3, <2>2 DEF Transport, Answer
  <2>3. ASSUME NEW t \in Durations, BackOff(t)
        PROVE  Waiting'
    <3>1. Sleep[attempt + 1] = Sleep[attempt] * BackoffFactor
          /\ Waited[attempt + 1] = Waited[attempt] + Sleep[attempt]
      BY <1>0, SleepIsGeometric, WaitedAddsUp
    <3>2. /\ attempt' = attempt + 1 /\ delay' = delay * BackoffFactor /\ line' = "gate"
          /\ now' = now + t + delay /\ since' = since
      BY <1>3, <2>3 DEF Transport, BackOff
    <3>3. delay' = Sleep[attempt']
      BY <3>1, <3>2 DEF Waiting
    <3>4. Waited[attempt'] = Waited[attempt] + delay
      BY <3>1, <3>2 DEF Waiting
    <3>5. now' - since' >= Waited[attempt'] /\ since' <= now'
      <4>1. t \in Nat /\ delay \in Nat /\ since <= now /\ now - since >= Waited[attempt]
        BY DEF Waiting
      <4> QED
        BY <1>1, <3>2, <3>4, <4>1
    <3> QED
      BY <3>2, <3>3, <3>5 DEF Waiting
  <2>4. ASSUME NEW t \in Durations, GiveUp(t)
        PROVE  Waiting'
    BY <1>2, <1>3, <2>4 DEF Transport, GiveUp, Answer
  <2> QED
    BY <1>3, <2>1, <2>2, <2>3, <2>4 DEF Transport
<1>4. CASE Sweep \/ (Fetch /\ ~FetchDone) \/ Read
  <2>1. since' = now /\ now' = now /\ attempt' = 0 /\ delay' = BackoffInitial /\ line' # "transient"
    BY <1>4 DEF Sweep, ListNext, DayListed, ListingFails,
                Fetch, FetchNext, Deliver, DownloadFails, DownloadDiverges, FetchRefused,
                Read, StartWalk, WalkOn, ReadOut, Continue, WalkFails, WalkExhausted, WalkCaptcha,
                WalkDies, Settle, Ask, Drop, Call, Return, Reset
  <2> QED
    BY <2>1, SleepIsGeometric, WaitedAddsUp DEF Waiting
<1>5. CASE FetchDone \/ UNCHANGED vars
  BY <1>2, <1>5 DEF FetchDone, vars, clientVars
<1>6. QED
  BY <1>3, <1>4, <1>5 DEF Next

\* No caller is told that the source is failing before every retry was made and the whole
\* geometric series of backoffs slept, for every number of retries, first backoff and factor.
THEOREM FailureIsPatient == Spec => []Patient
<1>1. Init => Waiting
  BY ClientAssumption, SleepIsGeometric, WaitedAddsUp
     DEF ClientAssumption, Init, ClientInit, Waiting
<1>2. Waiting => Patient
  BY DEF Waiting, Patient
<1>3. QED
  BY InductiveInvariance, NextKeepsWaiting, <1>1, <1>2, PTL DEF Spec

\* A walk for a reading copy never costs the delivery while the run goes on, for every number of
\* pages, retries and continuations.
THEOREM WalksKeepDeliveries == Spec => WalkCostsNoDelivery
<1>1. ASSUME IInv, [Next]_vars, asked \in Walk, asked' = "none", ended' = "running"
      PROVE  fate'[settled + 1] \in {"whole", "read"}
  <2> USE <1>1, SourceAssumption
      DEF SourceAssumption, IInv, TypeOK, InFlight, Fetching, Walk, Running
  <2>1. settled + 1 \in 1..Queue
    OBVIOUS
  <2>2. \A f : Settle(f) => fate'[settled + 1] = f
    BY <2>1 DEF Settle
  <2>3. ~Transport /\ ~Sweep /\ ~UNCHANGED vars
    BY DEF Transport, Sweep, ListNext, DayListed, ListingFails, Ask, vars
  <2>4. CASE Fetch
    BY <2>4 DEF Fetch, FetchNext, Deliver, DownloadFails, DownloadDiverges, FetchRefused, FetchDone
  <2>5. CASE Read
    BY <2>2, <2>5 DEF Read, StartWalk, WalkOn, Continue, Ask, ReadOut, WalkFails, WalkExhausted,
                      WalkCaptcha, WalkDies, Following
  <2>6. QED
    BY <2>3, <2>4, <2>5 DEF Next
<1>2. QED
  BY InductiveInvariance, <1>1, PTL DEF Spec, WalkCostsNoDelivery
-----------------------------------------------------------------------------
(* The run is finite.  What is left of it is counted in steps: every day   *)
(* and every document is worth more than all the steps its operations may  *)
(* take, an operation more than all the steps its attempts may take.       *)

\* Steps the operation in flight may still take before its verdict.
Attempting ==
    IF line = "gate" THEN 2 * (Retries - attempt) + 2
    ELSE IF line = "sent" THEN 2 * (Retries - attempt) + 1
    ELSE 0

OperationSteps == 2 * Retries + 4
DocumentSteps  == Operations * OperationSteps

DaysLeft ==
    IF asked = "list" THEN (Days - listed - 1) * OperationSteps + 1 + Attempting
    ELSE (Days - listed) * OperationSteps

DocumentsLeft ==
    IF Fetching THEN (Queue - settled - 1) * DocumentSteps + 1
                     + (Operations - 1 - Behind) * OperationSteps + Attempting
    ELSE (Queue - settled) * DocumentSteps

Remaining == IF Running THEN 1 + DaysLeft + DocumentsLeft ELSE 0

\* Products of what is counted with what it is worth: one less is worth that much less.
LEMMA Worth ==
    /\ OperationSteps \in Nat /\ DocumentSteps \in Nat /\ Operations \in Nat
    /\ \A n \in Nat : n * OperationSteps \in Nat /\ n * DocumentSteps \in Nat
    /\ \A n \in Int : (n - 1) * OperationSteps = n * OperationSteps - OperationSteps
                     /\ (n - 1) * DocumentSteps = n * DocumentSteps - DocumentSteps
<1>1. OperationSteps \in Nat /\ Operations \in Nat
  BY ClientAssumption, SourceAssumption
     DEF ClientAssumption, SourceAssumption, OperationSteps, Operations
<1>2. \A m, n \in Nat : m * n \in Nat
  BY SMT
<1>3. \A n \in Int, k \in Nat : (n - 1) * k = n * k - k
  BY SMT
<1> HIDE DEF OperationSteps, Operations
<1>4. DocumentSteps \in Nat
  BY <1>1, <1>2 DEF DocumentSteps
<1> HIDE DEF DocumentSteps
<1>5. QED
  BY <1>1, <1>2, <1>3, <1>4

\* What is left is a number, and an operation in flight is one the counts have room for.
LEMMA RemainingIsNat ==
    ASSUME IInv
    PROVE  /\ Attempting \in 0..(OperationSteps - 2)
           /\ Fetching => Operations - 1 - Behind \in Nat
           /\ Running => DaysLeft \in Nat /\ DocumentsLeft \in Nat
           /\ Remaining \in Nat
<1> USE ClientAssumption, SourceAssumption
    DEF ClientAssumption, SourceAssumption, IInv, TypeOK, ClientTypeOK, InFlight
<1>1. Attempting \in 0..(OperationSteps - 2)
  BY DEF Attempting, OperationSteps
<1>2. Fetching => Operations - 1 - Behind \in Nat
  BY DEF Fetching, Walk, Behind, Operations
<1>3. asked = "list" => Days - listed - 1 \in Nat
  OBVIOUS
<1>4. Fetching => Queue - settled - 1 \in Nat
  OBVIOUS
<1>5. Days - listed \in Nat /\ Queue - settled \in Nat
  OBVIOUS
<1>6. DaysLeft \in Nat /\ DocumentsLeft \in Nat
  <2>1. /\ (Days - listed) * OperationSteps \in Nat
        /\ asked = "list" => (Days - listed - 1) * OperationSteps \in Nat
    BY <1>3, <1>5, Worth
  <2>2. /\ (Queue - settled) * DocumentSteps \in Nat
        /\ Fetching => (Queue - settled - 1) * DocumentSteps \in Nat
    BY <1>4, <1>5, Worth
  <2>3. Fetching => (Operations - 1 - Behind) * OperationSteps \in Nat
    BY <1>2, Worth
  <2> QED
    BY <1>1, <2>1, <2>2, <2>3, Worth DEF DaysLeft, DocumentsLeft
<1>7. Remaining \in Nat
  BY <1>6 DEF Remaining
<1>8. QED
  BY <1>1, <1>2, <1>6, <1>7

\* There is a day, or a document, for what is in flight.
LEMMA RoomInHand ==
    ASSUME IInv
    PROVE  /\ Days - listed \in Nat /\ Queue - settled \in Nat
           /\ asked = "list" => Days - listed - 1 \in Nat
           /\ Fetching => Queue - settled - 1 \in Nat
BY SourceAssumption DEF SourceAssumption, IInv, TypeOK, InFlight

LEMMA FewerDays ==
    ASSUME IInv, Running, Running', DocumentsLeft' = DocumentsLeft,
           NEW d \in Int, DaysLeft' = d, d < DaysLeft
    PROVE  Remaining' < Remaining
<1>1. DaysLeft \in Nat /\ DocumentsLeft \in Nat
  BY RemainingIsNat
<1>2. Remaining = 1 + DaysLeft + DocumentsLeft /\ Remaining' = 1 + d + DocumentsLeft
  BY DEF Remaining
<1>3. QED
  BY <1>1, <1>2

LEMMA FewerDocuments ==
    ASSUME IInv, Running, Running', DaysLeft' = DaysLeft,
           NEW n \in Int, DocumentsLeft' = n, n < DocumentsLeft
    PROVE  Remaining' < Remaining
<1>1. DaysLeft \in Nat /\ DocumentsLeft \in Nat
  BY RemainingIsNat
<1>2. Remaining = 1 + DaysLeft + DocumentsLeft /\ Remaining' = 1 + DaysLeft + n
  BY DEF Remaining
<1>3. QED
  BY <1>1, <1>2

\* Each attempt has fewer steps in front of it than the last.
LEMMA TransportSpends ==
    ASSUME IInv, Transport
    PROVE  Remaining' < Remaining
<1> USE ClientAssumption DEF ClientAssumption, IInv, TypeOK, ClientTypeOK
<1>1. Running /\ Running' /\ UNCHANGED <<asked, runVars>>
  BY DEF Transport, Running, runVars
<1>2. PICK a \in Nat : Attempting' = a /\ a < Attempting
  <2>1. CASE Refuse \/ Send
    BY <2>1 DEF Refuse, Send, Attempting
  <2>2. ASSUME NEW t \in Durations, NEW verdict \in Verdicts, Answer(verdict, t)
        PROVE  \E a \in Nat : Attempting' = a /\ a < Attempting
    BY <2>2 DEF Answer, Attempting, Verdicts
  <2>3. ASSUME NEW t \in Durations, BackOff(t)
        PROVE  \E a \in Nat : Attempting' = a /\ a < Attempting
    <3>1. line = "sent" /\ line' = "gate" /\ attempt < Retries /\ attempt' = attempt + 1
      BY <2>3 DEF BackOff
    <3>2. Attempting = 2 * (Retries - attempt) + 1 /\ Attempting' = 2 * (Retries - (attempt + 1)) + 2
      BY <3>1 DEF Attempting
    <3> QED
      BY <3>1, <3>2
  <2> QED
    BY <2>1, <2>2, <2>3 DEF Transport, GiveUp, Verdicts
<1>3. asked = "list" \/ Fetching
  BY DEF Transport, Refuse, Send, Answer, BackOff, GiveUp, InFlight, Fetching
<1>4. Fetching => asked # "list"
  BY DEF Fetching, Walk
<1>5. Fetching' = Fetching /\ Behind' = Behind
  BY <1>1 DEF Fetching, Behind, runVars
<1>6. /\ asked' = asked /\ listed' = listed /\ settled' = settled
  BY <1>1 DEF runVars
<1>7. /\ DaysLeft \in Nat /\ DocumentsLeft \in Nat
      /\ Fetching => Operations - 1 - Behind \in Nat
  BY <1>1, RemainingIsNat
<1>8. Attempting \in Nat
  BY RemainingIsNat
<1>9. CASE asked = "list"
  <2>1. DocumentsLeft' = DocumentsLeft
    BY <1>4, <1>5, <1>6, <1>9 DEF DocumentsLeft
  <2>2. (Days - listed - 1) * OperationSteps \in Nat
    BY <1>9, RoomInHand, Worth
  <2>3. DaysLeft = (Days - listed - 1) * OperationSteps + 1 + Attempting
        /\ DaysLeft' = (Days - listed - 1) * OperationSteps + 1 + a
    BY <1>2, <1>6, <1>9 DEF DaysLeft
  <2>4. PICK d \in Int : DaysLeft' = d /\ d < DaysLeft
    BY <1>2, <1>8, <2>2, <2>3
  <2> QED
    BY <1>1, <2>1, <2>4, FewerDays
<1>10. CASE Fetching
  <2>1. DaysLeft' = DaysLeft
    BY <1>4, <1>6, <1>10 DEF DaysLeft
  <2>2. (Queue - settled - 1) * DocumentSteps \in Nat /\ (Operations - 1 - Behind) * OperationSteps \in Nat
    BY <1>7, <1>10, RoomInHand, Worth
  <2>3. DocumentsLeft = (Queue - settled - 1) * DocumentSteps + 1
                        + (Operations - 1 - Behind) * OperationSteps + Attempting
        /\ DocumentsLeft' = (Queue - settled - 1) * DocumentSteps + 1
                        + (Operations - 1 - Behind) * OperationSteps + a
    BY <1>2, <1>5, <1>6, <1>10 DEF DocumentsLeft
  <2>4. PICK n \in Int : DocumentsLeft' = n /\ n < DocumentsLeft
    BY <1>2, <1>8, <2>2, <2>3
  <2> QED
    BY <1>1, <2>1, <2>4, FewerDocuments
<1>11. QED
  BY <1>3, <1>9, <1>10

\* A step that ends the network work leaves nothing of it.
LEMMA EndingSpends ==
    ASSUME IInv, Running, ~Running'
    PROVE  Remaining' < Remaining
BY RemainingIsNat DEF Remaining

\* A day asked for, and a day listed.
LEMMA SweepSpends ==
    ASSUME IInv, Sweep
    PROVE  Remaining' < Remaining
<1> USE ClientAssumption, SourceAssumption
    DEF ClientAssumption, SourceAssumption, IInv, TypeOK, ClientTypeOK, Ask, Drop, Call, Return, Reset, runVars
<1>1. Running
  BY DEF Sweep, ListNext, DayListed, ListingFails, InFlight
<1>2. CASE ListingFails
  BY <1>1, <1>2, EndingSpends DEF ListingFails, Running
<1>3. ASSUME ListNext \/ DayListed
      PROVE  Running' /\ DocumentsLeft' = DocumentsLeft
  BY <1>1, <1>3 DEF ListNext, DayListed, DocumentsLeft, Fetching, Walk, InFlight, Running
<1>4. Days - listed \in Nat /\ (Days - listed) * OperationSteps \in Nat
  BY Worth
<1>5. (Days - listed - 1) * OperationSteps = (Days - listed) * OperationSteps - OperationSteps
  BY <1>4, Worth
<1>6. CASE ListNext
  <2>1. DaysLeft = (Days - listed) * OperationSteps
    BY <1>6 DEF ListNext, DaysLeft, InFlight
  <2>2. Attempting' = 2 * Retries + 2
    BY <1>6 DEF ListNext, Attempting
  <2>3. DaysLeft' = (Days - listed - 1) * OperationSteps + 1 + (2 * Retries + 2)
    BY <1>6, <2>2 DEF ListNext, DaysLeft
  <2>4. OperationSteps = 2 * Retries + 4
    BY DEF OperationSteps
  <2>5. PICK d \in Int : DaysLeft' = d /\ d < DaysLeft
    BY <1>4, <1>5, <2>1, <2>3, <2>4
  <2> QED
    BY <1>1, <1>3, <1>6, <2>5, FewerDays
<1>7. CASE DayListed
  <2>1. DaysLeft = (Days - listed - 1) * OperationSteps + 1 + Attempting
    BY <1>7 DEF DayListed, DaysLeft
  <2>2. Days - listed' = Days - listed - 1 /\ DaysLeft' = (Days - listed') * OperationSteps
    BY <1>7 DEF DayListed, DaysLeft
  <2>3. Attempting \in Nat
    BY DEF Attempting
  <2>4. (Days - listed - 1) * OperationSteps \in Nat
    BY <1>7, RoomInHand, Worth DEF DayListed
  <2>5. PICK d \in Int : DaysLeft' = d /\ d < DaysLeft
    BY <2>1, <2>2, <2>3, <2>4
  <2> QED
    BY <1>1, <1>3, <1>7, <2>5, FewerDays
<1>8. QED
  BY <1>2, <1>6, <1>7 DEF Sweep

\* The next page of the document in hand.
LEMMA NextPageSpends ==
    ASSUME IInv, Running, Running', Fetching, Fetching', Behind' = Behind + 1,
           attempt' = 0, line' = "gate", UNCHANGED <<listed, settled>>,
           Behind + 1 < Operations
    PROVE  Remaining' < Remaining
<1> USE ClientAssumption, SourceAssumption
    DEF ClientAssumption, SourceAssumption, IInv, TypeOK, ClientTypeOK
<1>1. DaysLeft' = DaysLeft
  BY DEF DaysLeft, Fetching, Walk
<1>2. Attempting \in Nat /\ Attempting' = 2 * Retries + 2 /\ OperationSteps = 2 * Retries + 4
  BY DEF Attempting, OperationSteps
<1>3. Behind \in Nat /\ Operations \in Nat
  BY Worth DEF Behind
<1>4. /\ (Queue - settled - 1) * DocumentSteps \in Nat
      /\ (Operations - 1 - Behind) * OperationSteps \in Nat
      /\ (Operations - 1 - Behind - 1) * OperationSteps
             = (Operations - 1 - Behind) * OperationSteps - OperationSteps
  BY <1>3, RemainingIsNat, Worth DEF InFlight
<1>5. Operations - 1 - Behind' = Operations - 1 - Behind - 1
  BY <1>3
<1>6. DocumentsLeft = (Queue - settled - 1) * DocumentSteps + 1
                        + (Operations - 1 - Behind) * OperationSteps + Attempting
  BY DEF DocumentsLeft
<1>7. DocumentsLeft' = (Queue - settled - 1) * DocumentSteps + 1
                        + (Operations - 1 - Behind - 1) * OperationSteps + (2 * Retries + 2)
  BY <1>2, <1>5 DEF DocumentsLeft
<1>8. PICK n \in Int : DocumentsLeft' = n /\ n < DocumentsLeft
  BY <1>2, <1>4, <1>6, <1>7
<1>9. QED
  BY <1>1, <1>8, FewerDocuments

\* A document dealt with, whatever became of it.
LEMMA SettleSpends ==
    ASSUME IInv, Fetching, NEW f, Settle(f)
    PROVE  Remaining' < Remaining
<1> USE ClientAssumption, SourceAssumption
    DEF ClientAssumption, SourceAssumption, IInv, TypeOK, ClientTypeOK, Settle, Drop, Return, Reset
<1>1. Running /\ Running'
  BY DEF InFlight, Running, Fetching, Walk
<1>2. DaysLeft' = DaysLeft
  BY DEF DaysLeft, Fetching, Walk
<1>3. Queue - settled' = Queue - settled - 1 /\ ~Fetching'
  BY DEF Fetching, Walk
<1>4. DocumentsLeft' = (Queue - settled - 1) * DocumentSteps
  BY <1>3 DEF DocumentsLeft
<1>5. DocumentsLeft = (Queue - settled - 1) * DocumentSteps + 1
                        + (Operations - 1 - Behind) * OperationSteps + Attempting
  BY DEF DocumentsLeft
<1>6. /\ (Queue - settled - 1) * DocumentSteps \in Nat
      /\ (Operations - 1 - Behind) * OperationSteps \in Nat /\ Attempting \in Nat
  <2>1. Attempting \in Nat
    BY DEF Attempting
  <2> QED
    BY <2>1, RemainingIsNat, Worth DEF InFlight
<1>7. PICK n \in Int : DocumentsLeft' = n /\ n < DocumentsLeft
  BY <1>4, <1>5, <1>6
<1>8. QED
  BY <1>1, <1>2, <1>7, FewerDocuments

LEMMA FetchSpends ==
    ASSUME IInv, Fetch
    PROVE  Remaining' < Remaining
<1> USE ClientAssumption, SourceAssumption
    DEF ClientAssumption, SourceAssumption, IInv, TypeOK, ClientTypeOK, Ask, Drop, Call, Return, Reset, runVars
<1>1. CASE Deliver \/ DownloadFails \/ DownloadDiverges
  BY <1>1, SettleSpends DEF Deliver, DownloadFails, DownloadDiverges, Fetching
<1>2. CASE FetchRefused \/ FetchDone
  BY <1>2, EndingSpends DEF FetchRefused, FetchDone, Running, InFlight, Walk
<1>3. CASE FetchNext
  <2>1. Running /\ Running' /\ DaysLeft' = DaysLeft
    BY <1>3 DEF FetchNext, Running, DaysLeft, InFlight
  <2>2. Fetching' /\ ~Fetching /\ Behind' = 0
    BY <1>3 DEF FetchNext, Fetching, Behind, InFlight, Walk
  <2>3. DocumentsLeft = (Queue - settled) * DocumentSteps
    BY <2>2 DEF DocumentsLeft
  <2>4. Operations - 1 - Behind' = Operations - 1 /\ Attempting' = 2 * Retries + 2
    BY <1>3, <2>2, Worth DEF FetchNext, Attempting
  <2>5. DocumentsLeft' = (Queue - settled - 1) * DocumentSteps + 1
                          + (Operations - 1) * OperationSteps + (2 * Retries + 2)
    BY <1>3, <2>2, <2>4 DEF FetchNext, DocumentsLeft
  <2>6. (Operations - 1) * OperationSteps = DocumentSteps - OperationSteps
    BY Worth DEF DocumentSteps
  <2>7. (Queue - settled - 1) * DocumentSteps = (Queue - settled) * DocumentSteps - DocumentSteps
        /\ (Queue - settled) * DocumentSteps \in Nat
    BY Worth
  <2>8. OperationSteps = 2 * Retries + 4 /\ DocumentSteps \in Nat
    BY Worth DEF OperationSteps
  <2>9. PICK n \in Int : DocumentsLeft' = n /\ n < DocumentsLeft
    BY <2>3, <2>5, <2>6, <2>7, <2>8
  <2> QED
    BY <2>1, <2>9, FewerDocuments
<1>4. QED
  BY <1>1, <1>2, <1>3 DEF Fetch

LEMMA ReadSpends ==
    ASSUME IInv, Read
    PROVE  Remaining' < Remaining
<1> USE ClientAssumption, SourceAssumption
    DEF ClientAssumption, SourceAssumption, IInv, TypeOK, ClientTypeOK, Ask, Drop, Call, Return, Reset, runVars
<1>1. Running /\ Fetching
  BY DEF Read, StartWalk, WalkOn, ReadOut, Continue, WalkFails, WalkExhausted, WalkCaptcha, WalkDies,
         InFlight, Fetching, Walk, Following
<1>2. CASE ReadOut \/ WalkFails \/ WalkExhausted
  BY <1>1, <1>2, SettleSpends DEF ReadOut, WalkFails, WalkExhausted
<1>3. CASE WalkCaptcha \/ WalkDies
  BY <1>1, <1>3, EndingSpends DEF WalkCaptcha, WalkDies, Running
<1>4. CASE StartWalk \/ WalkOn \/ Continue
  <2>1. /\ Running' /\ Fetching' /\ attempt' = 0 /\ line' = "gate" /\ UNCHANGED <<listed, settled>>
    BY <1>1, <1>4 DEF StartWalk, WalkOn, Continue, Running, Fetching, Walk, Following
  <2>2. Operations = 7 + MaxContinuations
    BY SourceAssumption DEF Operations
  <2>3. Behind' = Behind + 1 /\ Behind + 1 < Operations
    <3>1. CASE StartWalk
      BY <2>2, <3>1 DEF StartWalk, Behind
    <3>2. CASE WalkOn
      <4>1. asked \in {"entry", "viewer", "generator", "menu"} /\ asked' = Following[asked]
            /\ continued' = continued
        BY <3>2 DEF WalkOn, Following
      <4>2. continued = 0
        BY <4>1, <1>1 DEF InFlight
      <4> QED
        BY <2>2, <4>1, <4>2 DEF Behind, Following
    <3>3. CASE Continue
      <4>1. /\ asked \in {"generate", "continue"} /\ asked' = "continue"
            /\ continued' = continued + 1 /\ continued <= MaxContinuations
        BY <3>3 DEF Continue, Examined
      <4>2. Behind = 5 + continued /\ Behind' = 5 + (continued + 1)
        BY <4>1, <1>1 DEF Behind, InFlight
      <4> QED
        BY <2>2, <4>1, <4>2
    <3> QED
      BY <1>4, <3>1, <3>2, <3>3
  <2> QED
    BY <1>1, <2>1, <2>3, NextPageSpends
<1>5. QED
  BY <1>2, <1>3, <1>4 DEF Read

\* Every step of a run leaves it fewer steps to take, and what it has left is a natural number:
\* whatever the source answers, no listing, walk, retry or refused document keeps a run going for
\* ever.  What `RunEnds` adds is that a run that can take a step takes it.
THEOREM RunIsFinite == Spec => [](Remaining \in Nat) /\ [][Remaining' < Remaining]_vars
<1>1. IInv => Remaining \in Nat
  BY RemainingIsNat
<1>2. IInv /\ [Next]_vars => [Remaining' < Remaining]_vars
  BY TransportSpends, SweepSpends, FetchSpends, ReadSpends DEF Next
<1>3. QED
  BY InductiveInvariance, <1>1, <1>2, PTL DEF Spec
=============================================================================
