--------------------------- MODULE RegistryProofs ---------------------------
(***************************************************************************)
(* The promises of the registry cache hold for every set of processes and  *)
(* companies, every age, and whatever is published, refused, damaged or    *)
(* interrupted.                                                            *)
(*                                                                         *)
(* While no two refreshes of one year overlap, whoever stores a package is *)
(* alone with its .part, and what is cached only gets better: a payload    *)
(* was published after everything that was cached when it was requested.   *)
(* From there the argument is about order: editions only grow, and so do   *)
(* the answers made of them.                                               *)
(***************************************************************************)
EXTENDS RegistryProperties, PartFileProofs

Storer(p, y) == pc[p] \in Storing /\ mem[p].year = y

\* At most one refresh of a year; the place while it is at work, and while nobody is.
Calm(y) ==
    /\ \A p, q \in Procs : Refreshing(p, y) /\ Refreshing(q, y) => p = q
    /\ cache[y].file \in Editions \union {Missing}
    /\ (\A p \in Procs : ~(Storer(p, y) /\ pc[p] = "write")) => Quiet(cache[y])
    /\ \A p \in Procs : Storer(p, y) /\ pc[p] = "write" => Only(cache[y], p) /\ cache[y].part = Blank
    /\ \A p \in Procs : Storer(p, y) /\ pc[p] = "rename" => cache[y].part = mem[p].payload

\* What is published, was published on the mornings behind, and is cached, in their order.
Chronicle(y) ==
    /\ Held[y] <= served[y] /\ mornings[y][0] <= served[y]
    /\ \A d, e \in 0 .. MaxAge : d <= e => mornings[y][e] <= mornings[y][d]
    /\ cache[y].file # Missing /\ age[y] <= MaxAge => mornings[y][age[y]] <= Held[y]

\* A payload is no worse than what it is about to replace, nor than what was published today.
Bought(p) ==
    \A y \in Years : Storer(p, y) =>
        /\ mem[p].payload <= served[y]
        /\ Held[y] <= mem[p].payload /\ mornings[y][0] <= mem[p].payload

Loading == {"check", "cached", "download", "merged"} \union Storing

\* The years a load has read.
Behind(p, y) == pc[p] = "merged" \/ y < mem[p].year

\* What a load has read, or will, is no worse than what was cached when it began.
Kept(p) ==
    pc[p] \in Loading =>
        /\ \A y \in Years : Behind(p, y) => mem[p].got[y] <= served[y]
        /\ ~mem[p].blind =>
               \E h \in [Years -> {None} \union Editions] :
                   /\ floor[p] = Registry(h)
                   /\ \A y \in Years : h[y] <= IF Behind(p, y) THEN mem[p].got[y] ELSE Held[y]

\* What a refresh has read was published recently, and so was what it is about to read.
Current(p) ==
    pc[p] \in Loading /\ mem[p].refresh /\ ~mem[p].missed /\ ~mem[p].blind =>
        \A y \in Years :
            /\ Behind(p, y) => mornings[y][MaxAge] <= mem[p].got[y]
            /\ pc[p] = "cached" /\ mem[p].year = y => mornings[y][MaxAge] <= Held[y]

Promised ==
    /\ \A y \in Years : Calm(y) /\ Chronicle(y)
    /\ \A p \in Procs : Bought(p) /\ Kept(p) /\ Current(p)

\* Whoever stores has something to store.
Laden == \A p \in Procs : pc[p] \in Storing => mem[p].payload \in Editions

Published ==
    /\ \A y \in Years : served[y] <= Len(Filed[y])
    /\ mornings \in [Years -> [0 .. MaxAge -> Nat]]

IInv == TypeOK /\ Published /\ Laden /\ (~overlapped => Promised)

-----------------------------------------------------------------------------
(* Editions, and the answers made of them.                                 *)

LEMMA EditionsAreNumbers ==
    /\ Editions \subseteq Nat \ {0} /\ None \in Nat /\ None \notin Editions
    /\ {Missing, Blank, Torn} \intersect Editions = {}
    /\ \A y \in Years : Len(Filed[y]) \in Nat /\ DOMAIN Filed[y] = 1 .. Len(Filed[y])
    /\ \A y \in Years : \A n \in 1 .. Len(Filed[y]) : n \in Editions
    /\ 1 \in Years /\ 2 \in Years /\ Years \subseteq Nat
<1>1. \A y \in Years : Filed[y] \in Seq(SUBSET Companies)
  BY CacheAssumption DEF CacheAssumption
<1>2. \A y \in Years : Len(Filed[y]) \in Nat /\ DOMAIN Filed[y] = 1 .. Len(Filed[y])
  BY <1>1
<1>3. \A y \in Years : \A n \in 1 .. Len(Filed[y]) : n \in Editions
  BY <1>2 DEF Editions
<1>4. Editions \subseteq Nat \ {0}
  BY <1>2 DEF Editions
<1> QED
  BY <1>2, <1>3, <1>4, CacheAssumption DEF CacheAssumption, Years, None

\* Nothing is worse than nobody's answer.
LEMMA NobodyIsLeast ==
    ASSUME NEW a \in Nat \X Nat
    PROVE  AtLeast(a, Nobody)
BY DEF AtLeast, Nobody

\* With packages no worse, every company's answer is no worse, and none vanishes.
LEMMA BetterAnswers ==
    ASSUME NEW g, NEW h, NEW c \in Companies,
           \A y \in Years : g[y] \in Nat /\ h[y] \in Nat /\ h[y] <= g[y] /\ g[y] <= Len(Filed[y])
    PROVE  AtLeast(Registry(g)[c], Registry(h)[c])
<1>1. \A y \in Years : h[y] # None => /\ g[y] # None /\ Filed[y][h[y]] \subseteq Filed[y][g[y]]
  <2> SUFFICES ASSUME NEW y \in Years, h[y] # None
               PROVE  g[y] # None /\ Filed[y][h[y]] \subseteq Filed[y][g[y]]
    OBVIOUS
  <2>1. h[y] \in DOMAIN Filed[y] /\ g[y] \in DOMAIN Filed[y] /\ h[y] <= g[y]
    BY EditionsAreNumbers DEF None
  <2> QED
    BY <2>1, CacheAssumption, EditionsAreNumbers DEF CacheAssumption, None
<1>2. Refused(g) => Refused(h)
  BY <1>1 DEF Refused
<1>3. Registry(g)[c] = (IF Refused(g) THEN Nobody ELSE Answer(g, c))
      /\ Registry(h)[c] = (IF Refused(h) THEN Nobody ELSE Answer(h, c))
  BY DEF Registry
<1>4. /\ g[1] \in Nat /\ g[2] \in Nat /\ h[1] \in Nat /\ h[2] \in Nat /\ h[1] <= g[1] /\ h[2] <= g[2]
      /\ 1 \in Years /\ 2 \in Years
  BY EditionsAreNumbers
<1>5. Registry(g)[c] \in Nat \X Nat
  BY <1>3, <1>4 DEF Answer, Nobody
<1>6. CASE Registry(h)[c] = Nobody
  BY <1>5, <1>6, NobodyIsLeast
<1>7. CASE ~Refused(h) /\ h[2] # None /\ c \in Filed[2][h[2]]
  <2>1. Registry(h)[c] = <<2, h[2]>>
    BY <1>3, <1>7 DEF Answer
  <2>2. Registry(g)[c] = <<2, g[2]>>
    BY <1>1, <1>2, <1>3, <1>4, <1>7 DEF Answer
  <2> QED
    BY <1>4, <2>1, <2>2 DEF AtLeast
<1>8. CASE ~Refused(h) /\ ~(h[2] # None /\ c \in Filed[2][h[2]]) /\ h[1] # None /\ c \in Filed[1][h[1]]
  <2>1. Registry(h)[c] = <<1, h[1]>>
    BY <1>3, <1>8 DEF Answer
  <2>2. Registry(g)[c] = <<2, g[2]>> \/ Registry(g)[c] = <<1, g[1]>>
    BY <1>1, <1>2, <1>3, <1>4, <1>8 DEF Answer
  <2> QED
    BY <1>4, <2>1, <2>2 DEF AtLeast
<1> QED
  BY <1>3, <1>6, <1>7, <1>8 DEF Answer

\* What is held, in terms of what lies under the name.
HeldOf(content) == IF Whole(content) THEN content ELSE None

LEMMA HeldIsCached ==
    ASSUME NEW content \in Editions \union {Missing, Blank, Torn}
    PROVE  /\ HeldOf(content) \in {None} \union Editions /\ HeldOf(content) \in Nat
           /\ content \in Editions => HeldOf(content) = content
           /\ content \notin Editions => HeldOf(content) = None
BY EditionsAreNumbers DEF HeldOf, Whole

LEMMA HeldByYear == \A y \in Years : Held[y] = HeldOf(cache[y].file)
BY DEF Held, HeldOf

-----------------------------------------------------------------------------
(* The beginning.                                                          *)

LEMMA NoLoadIsTyped == NoLoad \in Loads /\ NoLoad.payload = None /\ NoLoad.year = 1
BY EditionsAreNumbers DEF NoLoad, Loads

LEMMA InitEstablishes == Init => IInv
<1> SUFFICES ASSUME Init PROVE IInv
  OBVIOUS
<1>1. EmptyPlace \in Places(Editions) /\ Quiet(EmptyPlace) /\ EmptyPlace.file = Missing
  BY DEF EmptyPlace, Places, Whereabouts, Quiet
<1>2. TypeOK
  <2>1. Old \in Ages
    BY CacheAssumption DEF CacheAssumption, Ages, Old
  <2> QED
    BY <1>1, <2>1, NoLoadIsTyped DEF Init, TypeOK
<1>3. Published
  BY EditionsAreNumbers, CacheAssumption DEF CacheAssumption, Init, Published, NoMornings, None
<1>4. \A y \in Years : Held[y] = None
  BY <1>1, HeldByYear, HeldIsCached, EditionsAreNumbers DEF Init
<1>5. \A y \in Years : Calm(y)
  BY <1>1 DEF Init, Calm, Refreshing, Storer, Storing
<1>6. \A y \in Years : Chronicle(y)
  BY <1>1, <1>4, CacheAssumption DEF CacheAssumption, Init, Chronicle, NoMornings, None
<1>7. \A p \in Procs : Bought(p) /\ Kept(p) /\ Current(p)
  BY DEF Init, Bought, Kept, Current, Storer, Storing, Loading
<1> QED
  BY <1>2, <1>3, <1>5, <1>6, <1>7 DEF IInv, Promised, Init, Laden, Storing

-----------------------------------------------------------------------------
(* Types.                                                                  *)

\* What answering one year does to the load.
LEMMA AnsweredLoads ==
    ASSUME TypeOK, NEW p \in Procs, NEW m \in Loads, NEW e \in {None} \union Editions,
           Answered(p, m, e)
    PROVE  /\ mem' \in [Procs -> Loads]
           /\ mem'[p].got = [m.got EXCEPT ![m.year] = e] /\ mem'[p].year = 2
           /\ mem'[p].refresh = m.refresh /\ mem'[p].missed = m.missed /\ mem'[p].blind = m.blind
           /\ pc' \in [Procs -> {"idle", "check", "cached", "download", "merged", "dead"} \union Storing]
           /\ pc'[p] = IF m.year = 1 THEN "check" ELSE "merged"
           /\ \A q \in Procs \ {p} : pc'[q] = pc[q] /\ mem'[q] = mem[q]
<1> DEFINE new == [m EXCEPT !.got[m.year] = e, !.year = IF @ = 1 THEN 2 ELSE @, !.payload = None]
<1>1. m.year \in Years /\ m.got \in [Years -> {None} \union Editions]
  BY DEF Loads
<1>2. [m.got EXCEPT ![m.year] = e] \in [Years -> {None} \union Editions]
  BY <1>1
<1>3. (IF m.year = 1 THEN 2 ELSE m.year) = 2 /\ 2 \in Years
  BY <1>1 DEF Years
<1>4. /\ new.got = [m.got EXCEPT ![m.year] = e] /\ new.year = 2
      /\ new.refresh = m.refresh /\ new.missed = m.missed /\ new.blind = m.blind /\ new \in Loads
  BY <1>2, <1>3 DEF Loads
<1>5. mem' = [mem EXCEPT ![p] = new] /\ Go(p, IF m.year = 1 THEN "check" ELSE "merged")
  BY DEF Answered
<1> HIDE DEF new
<1> QED
  BY <1>4, <1>5 DEF TypeOK, Go

LEMMA LoadKeepsTypes ==
    ASSUME IInv, NEW p \in Procs, Load(p), Remember
    PROVE  TypeOK' /\ Published' /\ \A q \in Procs \ {p} : pc'[q] = pc[q] /\ mem'[q] = mem[q]
<1> USE DEF IInv
<1>1. /\ overlapped' \in BOOLEAN /\ served' = served
      /\ (~overlapped' => mornings' = mornings /\ ~overlapped)
  BY DEF Remember, TypeOK
<1>2. Published'
  <2>1. mornings' \in [Years -> [0 .. MaxAge -> Nat]]
    BY <1>1, EditionsAreNumbers DEF Remember, Published, NoMornings
  <2> QED
    BY <1>1, <2>1 DEF Published
<1>3. /\ mem[p] \in Loads /\ mem[p].year \in Years /\ mem[p].payload \in {None} \union Editions
      /\ [mem[p] EXCEPT !.blind = TRUE] \in Loads /\ [mem[p] EXCEPT !.missed = TRUE] \in Loads
      /\ \A e \in Editions : [mem[p] EXCEPT !.payload = e] \in Loads
      /\ \A b \in BOOLEAN : [NoLoad EXCEPT !.refresh = b] \in Loads
  BY NoLoadIsTyped DEF TypeOK, Loads
<1>4. 0 \in Ages /\ age \in [Years -> Ages] /\ cache \in [Years -> Places(Editions)]
  BY CacheAssumption DEF CacheAssumption, Ages, Old, TypeOK
<1> DEFINE States == {"idle", "check", "cached", "download", "merged", "dead"} \union Storing
           Typed == /\ pc' \in [Procs -> States] /\ mem' \in [Procs -> Loads]
                    /\ \A q \in Procs \ {p} : pc'[q] = pc[q] /\ mem'[q] = mem[q]
                    /\ cache' \in [Years -> Places(Editions)] /\ age' \in [Years -> Ages]
<1> SUFFICES Typed
  BY <1>1, <1>2 DEF TypeOK
<1>5. CASE Begin(p) \/ Check(p) \/ Download404(p) \/ DownloadFails(p) \/ ParserDies(p) \/ End(p)
  BY <1>3, <1>4, <1>5, NoLoadIsTyped
  DEF Begin, Check, Download404, DownloadFails, ParserDies, End, TypeOK, Go, Storing
<1>6. CASE ReadCached(p)
  <2>1. (IF Whole(cache[mem[p].year].file) THEN cache[mem[p].year].file ELSE None)
          \in {None} \union Editions
    BY <1>3, <1>4 DEF Whole, Places
  <2> QED
    BY <1>3, <1>4, <1>6, <2>1, AnsweredLoads DEF ReadCached
<1>7. CASE ReadFails(p)
  BY <1>3, <1>4, <1>7, AnsweredLoads DEF ReadFails
<1>8. CASE Download(p)
  <2>1. served[mem[p].year] \in Editions
    BY <1>3, <1>8 DEF Download, TypeOK
  <2> QED
    BY <1>3, <1>4, <1>8, <2>1 DEF Download, TypeOK, Go, Storing
<1>9. CASE OpenPart(p)
  BY <1>3, <1>4, <1>9, CallsLeaveAPlace DEF OpenPart, TypeOK, Go, Storing
<1>10. CASE WritePart(p)
  <2>1. pc[p] = "write" /\ mem[p].payload \in Editions
    BY <1>10 DEF WritePart, Laden, Storing
  <2>2. Written(cache[mem[p].year], p, mem[p].payload) \subseteq Places(Editions)
    BY <1>3, <1>4, <2>1, WritesLeaveAPlace
  <2>3. cache' \in [Years -> Places(Editions)] /\ age' \in [Years -> Ages]
    BY <1>3, <1>4, <1>10, <2>2 DEF WritePart
  <2> QED
    BY <1>10, <2>3 DEF WritePart, TypeOK, Go, Storing
<1>11. CASE Replace(p) \/ StoreFails(p)
  <2>1. cache' \in [Years -> Places(Editions)]
    <3>1. \E at \in Places(Editions) : cache' = [cache EXCEPT ![mem[p].year] = at]
      <4>1. cache[mem[p].year] \in Places(Editions)
        BY <1>3, <1>4
      <4> QED
        BY <1>11, <4>1, CallsLeaveAPlace DEF Replace, StoreFails
    <3> QED
      BY <1>4, <3>1
  <2>2. age' \in [Years -> Ages]
    <3>1. age' = age \/ age' = [age EXCEPT ![mem[p].year] = 0]
      BY <1>11 DEF Replace, StoreFails
    <3> QED
      BY <1>4, <3>1
  <2> QED
    BY <1>3, <1>11, <2>1, <2>2, AnsweredLoads DEF Replace, StoreFails
<1>12. CASE Crash(p)
  <2>1. cache' \in [Years -> Places(Editions)]
    BY <1>4, <1>12, CallsLeaveAPlace DEF Crash
  <2> QED
    BY <1>4, <1>12, <2>1, NoLoadIsTyped DEF Crash, TypeOK, Go
<1> QED
  BY <1>5, <1>6, <1>7, <1>8, <1>9, <1>10, <1>11, <1>12 DEF Load

\* Whoever stores has a payload: it comes with the download and stays until the year is answered.
LEMMA LoadKeepsLaden ==
    ASSUME IInv, NEW p \in Procs, Load(p), Remember
    PROVE  Laden'
<1>1. \A q \in Procs \ {p} : pc'[q] = pc[q] /\ mem'[q] = mem[q]
  BY LoadKeepsTypes
<1> SUFFICES pc'[p] \in Storing => mem'[p].payload \in Editions
  BY <1>1 DEF IInv, Laden
<1>2. CASE Download(p)
  <2>1. mem[p].year \in Years /\ served[mem[p].year] \in Editions
    BY <1>2 DEF Download, IInv, TypeOK, Loads
  <2> QED
    BY <1>2, <2>1 DEF Download, IInv, TypeOK, Loads
<1>3. CASE OpenPart(p) \/ WritePart(p)
  BY <1>3 DEF OpenPart, WritePart, IInv, Laden, Storing
<1>4. CASE ReadCached(p) \/ ReadFails(p) \/ Replace(p) \/ StoreFails(p)
  <2>1. pc'[p] \in {"check", "merged"}
    BY <1>4 DEF ReadCached, ReadFails, Replace, StoreFails, Answered, Go, IInv, TypeOK
  <2> QED
    BY <2>1 DEF Storing
<1>5. CASE \/ Begin(p) \/ Check(p) \/ Download404(p) \/ DownloadFails(p) \/ ParserDies(p)
           \/ End(p) \/ Crash(p)
  BY <1>5 DEF Begin, Check, Download404, DownloadFails, ParserDies, End, Crash, Go, IInv, TypeOK, Storing
<1> QED
  BY <1>2, <1>3, <1>4, <1>5 DEF Load

-----------------------------------------------------------------------------
(* The place while no refreshes of one year overlap.                       *)

\* A year the step does not touch.
LEMMA UntouchedStaysCalm ==
    ASSUME IInv, NEW p \in Procs, Load(p), Remember, ~overlapped',
           NEW y \in Years, cache'[y] = cache[y],
           ~(Storer(p, y) /\ pc[p] = "write"),
           ~(mem'[p].year = y /\ pc'[p] \in {"write", "rename"})
    PROVE  Calm(y)'
<1>1. \A q \in Procs \ {p} : pc'[q] = pc[q] /\ mem'[q] = mem[q]
  BY LoadKeepsTypes
<1>2. ~overlapped /\ Calm(y) /\ \A q, r \in Procs : Refreshing(q, y)' /\ Refreshing(r, y)' => q = r
  BY DEF IInv, Promised, Remember, TypeOK
<1> QED
  BY <1>1, <1>2 DEF Calm, Storer

\* The year somebody is at work on.
LEMMA StoreStaysCalm ==
    ASSUME IInv, NEW p \in Procs, Load(p), Remember, ~overlapped', NEW y \in Years, Storer(p, y)
    PROVE  /\ Calm(y)'
           /\ \/ cache'[y].file = cache[y].file /\ age'[y] = age[y]
              \/ pc[p] = "rename" /\ cache'[y].file = mem[p].payload /\ age'[y] = 0
<1>1. /\ \A q \in Procs \ {p} : pc'[q] = pc[q] /\ mem'[q] = mem[q]
      /\ \A q, r \in Procs : Refreshing(q, y)' /\ Refreshing(r, y)' => q = r
      /\ cache[y] \in Places(Editions) /\ cache \in [Years -> Places(Editions)] /\ age \in [Years -> Ages]
  BY LoadKeepsTypes DEF IInv, TypeOK, Remember
<1>2. Calm(y) /\ mem[p].year = y /\ pc[p] \in Storing /\ Refreshing(p, y) /\ mem[p].payload \in Editions
  BY DEF IInv, Promised, Remember, Storer, Refreshing, Laden, TypeOK
<1>3. \A q \in Procs \ {p} : ~Storer(q, y) /\ ~Storer(q, y)'
  BY <1>1, <1>2 DEF Calm, Storer, Refreshing
<1>4. /\ pc[p] # "write" => Quiet(cache[y])
      /\ pc[p] = "write" => Only(cache[y], p) /\ cache[y].part = Blank
      /\ pc[p] = "rename" => cache[y].part = mem[p].payload
      /\ cache[y].file \in Editions \union {Missing}
  BY <1>2, <1>3 DEF Calm, Storer
<1> SUFFICES /\ cache'[y].file \in Editions \union {Missing}
             /\ ~(Storer(p, y)' /\ pc'[p] = "write") => Quiet(cache'[y])
             /\ Storer(p, y)' /\ pc'[p] = "write" => Only(cache'[y], p) /\ cache'[y].part = Blank
             /\ Storer(p, y)' /\ pc'[p] = "rename" => cache'[y].part = mem'[p].payload
             /\ \/ cache'[y].file = cache[y].file /\ age'[y] = age[y]
                \/ pc[p] = "rename" /\ cache'[y].file = mem[p].payload /\ age'[y] = 0
  BY <1>1, <1>3 DEF Calm
<1>5. CASE OpenPart(p)
  <2>1. /\ pc[p] = "open" /\ pc'[p] = "write" /\ mem' = mem /\ age' = age
        /\ cache'[y] = Truncated(cache[y], p)
    BY <1>1, <1>2, <1>5 DEF OpenPart, Go, IInv, TypeOK
  <2>2. cache'[y].file = cache[y].file /\ cache'[y].part = Blank /\ Only(cache'[y], p)
    BY <1>1, <1>4, <2>1, OpensAlone
  <2> QED
    BY <1>2, <1>4, <2>1, <2>2 DEF Storer, Storing
<1>6. CASE WritePart(p)
  <2>1. /\ pc[p] = "write" /\ pc'[p] = "rename" /\ mem' = mem
        /\ cache'[y] \in Written(cache[y], p, mem[p].payload)
        /\ cache[y].hand[p] # "file" => age' = age
    BY <1>1, <1>2, <1>6 DEF WritePart, Go, IInv, TypeOK
  <2>2. cache'[y].file = cache[y].file /\ cache'[y].part = mem[p].payload /\ Quiet(cache'[y])
    BY <1>1, <1>4, <2>1, WritesAlone
  <2> QED
    BY <1>2, <1>4, <2>1, <2>2 DEF Only
<1>7. CASE Replace(p)
  <2>1. pc[p] = "rename" /\ cache'[y] = Renamed(cache[y]) /\ age'[y] = 0
    BY <1>1, <1>2, <1>7 DEF Replace
  <2>2. pc'[p] \in {"check", "merged"}
    BY <1>7 DEF Replace, Answered, Go, IInv, TypeOK
  <2>3. cache'[y].file = mem[p].payload /\ Quiet(cache'[y])
    BY <1>1, <1>4, <2>1, RenamesAlone
  <2> QED
    BY <1>2, <2>1, <2>2, <2>3 DEF Storer, Storing
<1>8. CASE StoreFails(p)
  <2>1. cache'[y] = Discarded(cache[y], p) /\ age' = age
    BY <1>1, <1>2, <1>8 DEF StoreFails
  <2>2. pc'[p] \in {"check", "merged"}
    BY <1>8 DEF StoreFails, Answered, Go, IInv, TypeOK
  <2>3. cache'[y].file = cache[y].file /\ Quiet(cache'[y])
    BY <1>1, <1>4, <2>1, ClosesAlone
  <2> QED
    BY <1>4, <2>1, <2>2, <2>3 DEF Storer, Storing
<1>9. CASE Crash(p)
  <2>1. cache'[y] = Closed(cache[y], p) /\ age' = age /\ pc'[p] = "idle"
    BY <1>1, <1>2, <1>9 DEF Crash, Go, IInv, TypeOK
  <2>2. cache'[y].file = cache[y].file /\ Quiet(cache'[y])
    BY <1>1, <1>4, <2>1, ClosesAlone
  <2> QED
    BY <1>4, <2>1, <2>2 DEF Storer, Storing
<1> QED
  BY <1>2, <1>5, <1>6, <1>7, <1>8, <1>9
  DEF Load, Begin, Check, ReadCached, ReadFails, Download404, DownloadFails, Download, ParserDies, End, Storing

LEMMA LoadStaysCalm ==
    ASSUME IInv, NEW p \in Procs, Load(p), Remember, ~overlapped', NEW y \in Years
    PROVE  /\ Calm(y)'
           /\ \/ cache'[y].file = cache[y].file /\ age'[y] = age[y]
              \/ /\ Storer(p, y) /\ pc[p] = "rename"
                 /\ cache'[y].file = mem[p].payload /\ age'[y] = 0
<1>1. CASE Storer(p, y)
  BY <1>1, StoreStaysCalm
<1>2. CASE ~Storer(p, y)
  <2>1. /\ cache \in [Years -> Places(Editions)] /\ age \in [Years -> Ages]
        /\ pc \in [Procs -> {"idle", "check", "cached", "download", "merged", "dead"} \union Storing]
        /\ mem[p].year \in Years
    BY DEF IInv, TypeOK, Loads
  <2>2. cache'[y] = cache[y] /\ age'[y] = age[y]
    <3>1. CASE Crash(p)
      <4>1. Calm(y)
        BY DEF IInv, Promised, Remember, TypeOK
      <4>2. cache[y].hand[p] = "closed"
        BY <1>2, <4>1 DEF Calm, Quiet, Only
      <4>3. Closed(cache[y], p) = cache[y]
        BY <2>1, <4>2 DEF Closed, Places
      <4> QED
        BY <3>1, <4>3 DEF Crash
    <3>2. CASE OpenPart(p) \/ WritePart(p) \/ Replace(p) \/ StoreFails(p)
      <4>1. mem[p].year # y
        BY <1>2, <3>2 DEF Storer, OpenPart, WritePart, Replace, StoreFails, Storing
      <4> QED
        BY <2>1, <3>2, <4>1 DEF OpenPart, WritePart, Replace, StoreFails
    <3> QED
      BY <3>1, <3>2
      DEF Load, Begin, Check, ReadCached, ReadFails, Download404, DownloadFails, Download, ParserDies, End
  <2>3. ~(mem'[p].year = y /\ pc'[p] \in {"write", "rename"})
    BY <1>2, <2>1
    DEF Load, Begin, Check, ReadCached, ReadFails, Download404, DownloadFails, Download, ParserDies, End,
        OpenPart, WritePart, Replace, StoreFails, Crash, Answered, Go, Storer, Storing
  <2> QED
    BY <1>2, <2>2, <2>3, UntouchedStaysCalm
<1> QED
  BY <1>1, <1>2

-----------------------------------------------------------------------------
(* What is cached only gets better.                                        *)

\* What the comparisons of the proofs are between.
LEMMA Numbers ==
    ASSUME TypeOK, Published
    PROVE  /\ \A y \in Years : Held[y] \in Nat /\ Held[y] \in {None} \union Editions /\ served[y] \in Nat
           /\ \A y \in Years : \A d \in 0 .. MaxAge : mornings[y][d] \in Nat
           /\ \A y \in Years : age[y] \in Nat
           /\ \A p \in Procs : /\ mem[p].year \in Years /\ mem[p].payload \in Nat
                               /\ \A y \in Years : mem[p].got[y] \in Nat
           /\ 0 \in 0 .. MaxAge /\ MaxAge \in 0 .. MaxAge /\ MaxAge \in Nat
<1>1. MaxAge \in Nat /\ 0 \in 0 .. MaxAge /\ MaxAge \in 0 .. MaxAge /\ Ages \subseteq Nat
  BY CacheAssumption DEF CacheAssumption, Ages, Old
<1>2. \A y \in Years : Held[y] \in Nat /\ Held[y] \in {None} \union Editions
  BY HeldByYear, HeldIsCached DEF TypeOK, Places
<1>3. {None} \union Editions \subseteq Nat
  BY EditionsAreNumbers
<1>4. ASSUME NEW p \in Procs
      PROVE  /\ mem[p].year \in Years /\ mem[p].payload \in Nat
             /\ \A y \in Years : mem[p].got[y] \in Nat
  <2>1. mem[p] \in Loads
    BY DEF TypeOK
  <2> QED
    BY <1>3, <2>1 DEF Loads
<1>5. \A y \in Years : served[y] \in Nat /\ age[y] \in Nat
  BY <1>1, <1>3 DEF TypeOK
<1>6. \A y \in Years : \A d \in 0 .. MaxAge : mornings[y][d] \in Nat
  BY DEF Published
<1> QED
  BY <1>1, <1>2, <1>4, <1>5, <1>6

LEMMA HeldGrows ==
    ASSUME IInv, NEW p \in Procs, Load(p), Remember, ~overlapped', NEW y \in Years
    PROVE  /\ Held[y] <= Held'[y] /\ Held'[y] <= served[y]
           /\ Held'[y] # Held[y] => Storer(p, y) /\ pc[p] = "rename"
           /\ Chronicle(y)'
<1>1. /\ TypeOK /\ Published /\ Laden /\ Promised /\ served' = served /\ mornings' = mornings
  BY DEF IInv, Remember, TypeOK
<1>2. /\ Held[y] \in Nat /\ served[y] \in Nat /\ mornings[y][0] \in Nat /\ Held[y] <= served[y]
      /\ Held[y] = HeldOf(cache[y].file) /\ Held'[y] = HeldOf(cache'[y].file)
  BY <1>1, Numbers, HeldByYear DEF Promised, Chronicle, Held, HeldOf
<1>3. CASE cache'[y].file = cache[y].file /\ age'[y] = age[y]
  BY <1>1, <1>2, <1>3 DEF Promised, Chronicle
<1>4. CASE Storer(p, y) /\ pc[p] = "rename" /\ cache'[y].file = mem[p].payload /\ age'[y] = 0
  <2>1. /\ mem[p].payload \in Editions /\ mem[p].payload <= served[y]
        /\ Held[y] <= mem[p].payload /\ mornings[y][0] <= mem[p].payload
    BY <1>1, <1>4 DEF Promised, Bought, Laden, Storer
  <2>2. Held'[y] = mem[p].payload
    BY <1>2, <1>4, <2>1, HeldIsCached
  <2> QED
    BY <1>1, <1>4, <2>1, <2>2 DEF Promised, Chronicle
<1> QED
  BY <1>3, <1>4, LoadStaysCalm

-----------------------------------------------------------------------------
(* What the loads have bought, read and may still read.                    *)

\* The comparisons with a load's beginning stay what they are while it lasts.
LEMMA FloorStays ==
    ASSUME NEW p \in Procs, Remember, ~overlapped', pc'[p] # "idle"
    PROVE  /\ pc[p] # "idle" => floor'[p] = floor[p]
           /\ pc[p] = "idle" => floor'[p] = Registry(Held)
           /\ served' = served /\ mornings' = mornings
BY DEF Remember

LEMMA OthersStay ==
    ASSUME IInv, NEW p \in Procs, Load(p), Remember, ~overlapped', NEW q \in Procs \ {p}
    PROVE  Bought(q)' /\ Kept(q)' /\ Current(q)'
<1>1. pc'[q] = pc[q] /\ mem'[q] = mem[q]
  BY LoadKeepsTypes
<1>2. /\ TypeOK /\ Published /\ Promised /\ served' = served /\ mornings' = mornings
  BY DEF IInv, Remember, TypeOK
<1>3. /\ \A y \in Years : Held[y] \in Nat /\ Held'[y] \in Nat /\ Held[y] <= Held'[y]
      /\ \A y \in Years : Storer(q, y) => Held'[y] = Held[y]
  <2>1. TypeOK' /\ Published'
    BY LoadKeepsTypes
  <2>2. \A y \in Years : Held[y] \in Nat /\ Held'[y] \in Nat
    <3>1. \A y \in Years : Held'[y] = HeldOf(cache'[y].file)
      BY DEF Held, HeldOf
    <3>2. \A y \in Years : cache'[y].file \in Editions \union {Missing, Blank, Torn}
      BY <2>1 DEF TypeOK, Places
    <3> QED
      BY <1>2, <3>1, <3>2, HeldIsCached, Numbers
  <2>3. ASSUME NEW y \in Years, Storer(q, y)
        PROVE  Held'[y] = Held[y]
    <3>1. ~Storer(p, y)
      BY <1>2, <2>3 DEF Promised, Calm, Storer, Refreshing
    <3> QED
      BY <3>1, HeldGrows
  <2> QED
    BY <2>2, <2>3, HeldGrows
<1>4. Bought(q)'
  BY <1>1, <1>2, <1>3 DEF Promised, Bought, Storer
<1>5. Kept(q)'
  <2> SUFFICES ASSUME pc[q] \in Loading
               PROVE  /\ \A y \in Years : Behind(q, y) => mem[q].got[y] <= served[y]
                      /\ ~mem[q].blind =>
                             \E h \in [Years -> {None} \union Editions] :
                                 /\ floor'[q] = Registry(h)
                                 /\ \A y \in Years : h[y] <= IF Behind(q, y) THEN mem[q].got[y] ELSE Held'[y]
    BY <1>1, <1>2 DEF Kept, Behind
  <2>1. Kept(q) /\ pc[q] # "idle" /\ floor'[q] = floor[q]
    BY <1>1, <1>2, FloorStays DEF Promised, Loading, Storing
  <2>2. SUFFICES ASSUME ~mem[q].blind
                 PROVE  \E h \in [Years -> {None} \union Editions] :
                            /\ floor'[q] = Registry(h)
                            /\ \A y \in Years : h[y] <= IF Behind(q, y) THEN mem[q].got[y] ELSE Held'[y]
    BY <2>1 DEF Kept
  <2>3. PICK h \in [Years -> {None} \union Editions] :
            /\ floor[q] = Registry(h)
            /\ \A y \in Years : h[y] <= IF Behind(q, y) THEN mem[q].got[y] ELSE Held[y]
    BY <2>1, <2>2 DEF Kept
  <2>4. \A y \in Years : h[y] \in Nat
    BY <2>3, EditionsAreNumbers
  <2> QED
    BY <1>3, <2>1, <2>3, <2>4
<1>6. Current(q)'
  <2>1. \A y \in Years : mornings[y][MaxAge] \in Nat
    BY <1>2, Numbers
  <2> QED
    BY <1>1, <1>2, <1>3, <2>1 DEF Promised, Current, Behind
<1> QED
  BY <1>4, <1>5, <1>6

\* A load that goes on in the same year, with the same in memory but for the payload.
LEMMA SameYearStays ==
    ASSUME IInv, NEW p \in Procs, Load(p), Remember, ~overlapped',
           pc[p] \in Loading \ {"merged"}, pc'[p] \in Loading \ {"merged"},
           mem'[p].year = mem[p].year, mem'[p].got = mem[p].got, mem'[p].blind = mem[p].blind
    PROVE  Kept(p)'
<1>1. /\ TypeOK /\ Published /\ Promised /\ served' = served
      /\ \A y \in Years : Held[y] \in Nat /\ Held[y] <= Held'[y]
  BY HeldGrows, Numbers DEF IInv, Remember, TypeOK
<1>2. \A y \in Years : Held'[y] \in Nat
  <2>1. TypeOK' /\ \A y \in Years : Held'[y] = HeldOf(cache'[y].file)
    BY LoadKeepsTypes DEF Held, HeldOf
  <2> QED
    BY <2>1, HeldIsCached DEF TypeOK, Places
<1>3. Kept(p) /\ pc[p] # "idle" /\ pc'[p] # "idle" /\ floor'[p] = floor[p]
  BY <1>1, FloorStays DEF Promised, Loading, Storing
<1>4. \A y \in Years : Behind(p, y)' <=> Behind(p, y)
  BY DEF Behind
<1>5. CASE mem[p].blind
  BY <1>1, <1>3, <1>4, <1>5 DEF Kept
<1>6. CASE ~mem[p].blind
  <2>1. PICK h \in [Years -> {None} \union Editions] :
            /\ floor[p] = Registry(h)
            /\ \A y \in Years : h[y] <= IF Behind(p, y) THEN mem[p].got[y] ELSE Held[y]
    BY <1>3, <1>6 DEF Kept
  <2>2. \A y \in Years : h[y] \in Nat
    BY <2>1, EditionsAreNumbers
  <2>3. \A y \in Years : h[y] <= IF Behind(p, y) THEN mem[p].got[y] ELSE Held'[y]
    BY <1>1, <1>2, <2>1, <2>2
  <2> QED
    BY <1>1, <1>3, <1>4, <2>1, <2>3 DEF Kept
<1> QED
  BY <1>5, <1>6

\* A load that has an answer for its year goes on to the next, or is done.
LEMMA AnsweredStays ==
    ASSUME IInv, NEW p \in Procs, Load(p), Remember, ~overlapped', pc[p] \in Loading \ {"merged"},
           NEW m \in Loads, NEW e \in {None} \union Editions, Answered(p, m, e),
           m.got = mem[p].got, m.year = mem[p].year, m.refresh = mem[p].refresh, m.missed = mem[p].missed,
           mem[p].blind => m.blind,
           e <= served[m.year],
           ~m.blind => Held[m.year] <= e,
           ~m.blind /\ m.refresh /\ ~m.missed => mornings[m.year][MaxAge] <= e
    PROVE  Kept(p)' /\ Current(p)'
<1>1. /\ TypeOK /\ Published /\ Promised /\ served' = served /\ mornings' = mornings
      /\ \A y \in Years : Held[y] \in Nat /\ Held[y] <= Held'[y]
  BY HeldGrows, Numbers DEF IInv, Remember, TypeOK
<1>2. /\ mem'[p].got = [m.got EXCEPT ![m.year] = e] /\ mem'[p].year = 2
      /\ mem'[p].refresh = m.refresh /\ mem'[p].missed = m.missed /\ mem'[p].blind = m.blind
      /\ pc'[p] = IF m.year = 1 THEN "check" ELSE "merged"
  BY <1>1, AnsweredLoads
<1>3. /\ \A y \in Years : Held'[y] \in Nat
      /\ m.year \in Years /\ m.got \in [Years -> {None} \union Editions] /\ e \in Nat
  <2>1. TypeOK' /\ \A y \in Years : Held'[y] = HeldOf(cache'[y].file)
    BY LoadKeepsTypes DEF Held, HeldOf
  <2>2. \A y \in Years : Held'[y] \in Nat
    BY <2>1, HeldIsCached DEF TypeOK, Places
  <2> QED
    BY <2>2, EditionsAreNumbers DEF Loads
<1>4. Kept(p) /\ Current(p) /\ pc[p] # "idle" /\ pc'[p] # "idle" /\ floor'[p] = floor[p]
  BY <1>1, <1>2, FloorStays DEF Promised, Loading, Storing
<1>5. /\ \A y \in Years : Behind(p, y)' <=> Behind(p, y) \/ y = m.year
      /\ \A y \in Years : Behind(p, y) => y # m.year /\ mem'[p].got[y] = mem[p].got[y]
      /\ mem'[p].got[m.year] = e
  BY <1>2, <1>3 DEF Behind, Years
<1>6. \A y \in Years : Behind(p, y)' => mem'[p].got[y] <= served[y]
  BY <1>4, <1>5 DEF Kept
<1>7. CASE m.blind
  BY <1>1, <1>2, <1>6, <1>7 DEF Kept, Current
<1>8. CASE ~m.blind
  <2>1. PICK h \in [Years -> {None} \union Editions] :
            /\ floor[p] = Registry(h)
            /\ \A y \in Years : h[y] <= IF Behind(p, y) THEN mem[p].got[y] ELSE Held[y]
    BY <1>4, <1>8 DEF Kept
  <2>2. \A y \in Years : h[y] \in Nat
    BY <2>1, EditionsAreNumbers
  <2>3. \A y \in Years : h[y] <= IF Behind(p, y)' THEN mem'[p].got[y] ELSE Held'[y]
    <3> SUFFICES ASSUME NEW y \in Years
                 PROVE  h[y] <= IF Behind(p, y)' THEN mem'[p].got[y] ELSE Held'[y]
      OBVIOUS
    <3>1. CASE y = m.year
      BY <1>1, <1>3, <1>5, <1>8, <2>1, <2>2, <3>1
    <3>2. CASE y # m.year
      BY <1>1, <1>3, <1>5, <2>1, <2>2, <3>2
    <3> QED
      BY <3>1, <3>2
  <2>4. Kept(p)'
    BY <1>1, <1>4, <1>6, <2>1, <2>3 DEF Kept
  <2>5. Current(p)'
    <3> SUFFICES ASSUME m.refresh, ~m.missed, NEW y \in Years
                 PROVE  Behind(p, y)' => mornings[y][MaxAge] <= mem'[p].got[y]
      BY <1>1, <1>2 DEF Current
    <3>1. CASE y = m.year
      BY <1>5, <1>8, <3>1
    <3>2. CASE y # m.year
      BY <1>4, <1>5, <1>8, <3>2 DEF Current
    <3> QED
      BY <3>1, <3>2
  <2> QED
    BY <2>4, <2>5
<1> QED
  BY <1>7, <1>8

LEMMA OwnStays ==
    ASSUME IInv, NEW p \in Procs, Load(p), Remember, ~overlapped'
    PROVE  Bought(p)' /\ Kept(p)' /\ Current(p)'
<1>1. /\ TypeOK /\ Published /\ Promised /\ Laden /\ served' = served /\ mornings' = mornings
      /\ \A y \in Years : /\ Held[y] \in Nat /\ served[y] \in Nat /\ Chronicle(y) /\ Held[y] <= Held'[y]
                          /\ mornings[y][0] \in Nat /\ mornings[y][MaxAge] \in Nat
                          /\ mornings[y][MaxAge] <= mornings[y][0]
  <2>1. TypeOK /\ Published /\ Promised /\ Laden /\ served' = served /\ mornings' = mornings
    BY DEF IInv, Remember, TypeOK
  <2>2. \A y \in Years : Chronicle(y) /\ Held[y] <= Held'[y]
    BY <2>1, HeldGrows DEF Promised
  <2>3. \A y \in Years : mornings[y][MaxAge] <= mornings[y][0]
    BY <2>1, <2>2, Numbers DEF Chronicle
  <2> QED
    BY <2>1, <2>2, <2>3, Numbers
<1>2. /\ mem[p] \in Loads /\ mem[p].year \in Years
      /\ mem \in [Procs -> Loads]
      /\ pc \in [Procs -> {"idle", "check", "cached", "download", "merged", "dead"} \union Storing]
  BY <1>1 DEF TypeOK, Loads
<1>3. Bought(p) /\ Kept(p) /\ Current(p)
  BY <1>1 DEF Promised
<1>4. CASE Begin(p)
  <2>1. /\ pc[p] = "idle" /\ pc'[p] = "check" /\ mem'[p].year = 1 /\ cache' = cache
    BY <1>2, <1>4 DEF Begin, Go, NoLoad
  <2>2. floor'[p] = Registry(Held) /\ Held' = Held
    BY <2>1, FloorStays DEF Held
  <2>3. Held \in [Years -> {None} \union Editions]
    <3>1. \A y \in Years : Held[y] \in {None} \union Editions
      BY <1>1, Numbers
    <3> QED
      BY <3>1 DEF Held
  <2>4. \A y \in Years : ~Behind(p, y)'
    BY <2>1 DEF Behind, Years
  <2>5. Kept(p)'
    <3> SUFFICES \E h \in [Years -> {None} \union Editions] :
                     /\ floor'[p] = Registry(h)
                     /\ \A y \in Years : h[y] <= IF Behind(p, y)' THEN mem'[p].got[y] ELSE Held'[y]
      BY <2>4 DEF Kept
    <3>1. \A y \in Years : Held[y] <= Held'[y]
      BY <1>1
    <3> QED
      BY <2>2, <2>3, <2>4, <3>1
  <2> QED
    BY <2>1, <2>4, <2>5 DEF Bought, Current, Storer, Storing
<1>5. CASE Check(p)
  <2>1. /\ pc[p] = "check" /\ pc'[p] \in {"download", "cached"} /\ mem' = mem /\ cache' = cache /\ age' = age
        /\ pc'[p] = "cached" => ~mem[p].refresh \/ IsFresh(mem[p].year)
    BY <1>2, <1>5 DEF Check, Go
  <2>2. Kept(p)'
    BY <2>1, SameYearStays DEF Loading
  <2>3. ASSUME pc'[p] = "cached", mem[p].refresh
        PROVE  mornings[mem[p].year][MaxAge] <= Held'[mem[p].year]
    <3> DEFINE y == mem[p].year
    <3>1. y \in Years /\ Held'[y] = Held[y] /\ cache[y].file # Missing /\ age[y] <= MaxAge /\ Chronicle(y)
      BY <1>1, <1>2, <2>1, <2>3 DEF IsFresh, Held
    <3>2. age[y] \in 0 .. MaxAge /\ mornings[y][age[y]] <= Held[y]
      BY <1>1, <3>1, Numbers DEF Chronicle
    <3>3. mornings[y][MaxAge] <= mornings[y][age[y]]
      BY <1>1, <3>1, <3>2, Numbers DEF Chronicle
    <3>4. mornings[y][age[y]] \in Nat
      BY <1>1, <3>1, <3>2, Numbers
    <3> QED
      BY <1>1, <3>1, <3>2, <3>3, <3>4
  <2>4. Current(p)'
    BY <1>1, <1>3, <2>1, <2>3 DEF Current, Behind, Loading
  <2> QED
    BY <2>1, <2>2, <2>4 DEF Bought, Storer, Storing
<1>6. CASE ReadCached(p)
  <2> DEFINE e == IF Whole(cache[mem[p].year].file) THEN cache[mem[p].year].file ELSE None
  <2>1. pc[p] = "cached" /\ Answered(p, mem[p], e)
    BY <1>6 DEF ReadCached
  <2>2. e = Held[mem[p].year] /\ e \in {None} \union Editions
    BY <1>1, <1>2, Numbers DEF Held
  <2>3. e <= served[mem[p].year] /\ Held[mem[p].year] <= e
    BY <1>1, <1>2, <2>2 DEF Chronicle
  <2>4. ~mem[p].blind /\ mem[p].refresh /\ ~mem[p].missed => mornings[mem[p].year][MaxAge] <= e
    BY <1>2, <1>3, <2>1, <2>2 DEF Current, Loading
  <2> HIDE DEF e
  <2>5. Kept(p)' /\ Current(p)'
    BY <1>2, <2>1, <2>2, <2>3, <2>4, AnsweredStays DEF Loading
  <2>6. pc'[p] \notin Storing
    BY <1>1, <1>2, <2>1, <2>2, AnsweredLoads DEF Storing
  <2> QED
    BY <2>5, <2>6 DEF Bought, Storer
<1>7. CASE ReadFails(p)
  <2> DEFINE m == [mem[p] EXCEPT !.blind = TRUE]
  <2>1. pc[p] = "cached" /\ Answered(p, m, None)
    BY <1>7 DEF ReadFails
  <2>2. /\ m \in Loads /\ m.got = mem[p].got /\ m.year = mem[p].year /\ m.refresh = mem[p].refresh
        /\ m.missed = mem[p].missed /\ m.blind
    BY <1>2 DEF Loads
  <2>3. None <= served[mem[p].year]
    BY <1>1, <1>2 DEF None
  <2> HIDE DEF m
  <2>4. Kept(p)' /\ Current(p)'
    BY <2>1, <2>2, <2>3, AnsweredStays DEF Loading
  <2>5. pc'[p] \notin Storing
    BY <1>1, <2>1, <2>2, AnsweredLoads DEF Storing
  <2> QED
    BY <2>4, <2>5 DEF Bought, Storer
<1>8. CASE Download404(p)
  <2>1. /\ pc[p] = "download" /\ pc'[p] = "cached" /\ mem' = mem /\ cache' = cache
        /\ served[mem[p].year] = 0
    BY <1>2, <1>8 DEF Download404, Go, None
  <2>2. Kept(p)'
    BY <2>1, SameYearStays DEF Loading, Storing
  <2>3. mornings[mem[p].year][MaxAge] <= Held'[mem[p].year]
    <3>1. mornings[mem[p].year][0] <= 0
      BY <1>1, <1>2, <2>1 DEF Chronicle
    <3>2. Held' = Held
      BY <2>1 DEF Held
    <3> QED
      BY <1>1, <1>2, <3>1, <3>2
  <2>4. Current(p)'
    BY <1>1, <1>3, <2>1, <2>3 DEF Current, Behind, Loading
  <2> QED
    BY <2>1, <2>2, <2>4 DEF Bought, Storer, Storing
<1>9. CASE DownloadFails(p)
  <2>1. /\ pc[p] = "download" /\ pc'[p] = "cached" /\ mem'[p] = [mem[p] EXCEPT !.missed = TRUE]
    BY <1>2, <1>9 DEF DownloadFails, Go
  <2>2. /\ mem'[p].missed /\ mem'[p].year = mem[p].year /\ mem'[p].got = mem[p].got
        /\ mem'[p].blind = mem[p].blind
    BY <1>2, <2>1 DEF Loads
  <2>3. Kept(p)'
    BY <2>1, <2>2, SameYearStays DEF Loading, Storing
  <2> QED
    BY <2>1, <2>2, <2>3 DEF Bought, Current, Storer, Storing
<1>10. CASE Download(p)
  <2>1. /\ pc[p] = "download" /\ pc'[p] = "open" /\ cache' = cache
        /\ mem'[p] = [mem[p] EXCEPT !.payload = served[mem[p].year]]
    BY <1>2, <1>10 DEF Download, Go
  <2>2. /\ mem'[p].payload = served[mem[p].year] /\ mem'[p].year = mem[p].year
        /\ mem'[p].got = mem[p].got /\ mem'[p].refresh = mem[p].refresh
        /\ mem'[p].missed = mem[p].missed /\ mem'[p].blind = mem[p].blind
    BY <1>2, <2>1 DEF Loads
  <2>3. Kept(p)'
    BY <2>1, <2>2, SameYearStays DEF Loading, Storing
  <2>4. Current(p)'
    BY <1>1, <1>3, <2>1, <2>2 DEF Current, Behind, Loading, Storing
  <2>5. Bought(p)'
    <3>1. Held' = Held
      BY <2>1 DEF Held
    <3> QED
      BY <1>1, <1>2, <2>2, <3>1 DEF Bought, Storer, Chronicle
  <2> QED
    BY <2>3, <2>4, <2>5
<1>11. CASE OpenPart(p) \/ WritePart(p)
  <2>1. /\ pc[p] \in {"open", "write"} /\ pc'[p] \in {"write", "rename"} /\ mem' = mem
    BY <1>2, <1>11 DEF OpenPart, WritePart, Go
  <2>2. Kept(p)'
    BY <2>1, SameYearStays DEF Loading, Storing
  <2>3. Current(p)'
    BY <1>1, <1>3, <2>1 DEF Current, Behind, Loading, Storing
  <2>4. \A y \in Years : Held'[y] = Held[y]
    BY <2>1, HeldGrows
  <2>5. Bought(p)'
    BY <1>1, <1>3, <2>1, <2>4 DEF Bought, Storer, Storing
  <2> QED
    BY <2>2, <2>3, <2>5
<1>12. CASE Replace(p) \/ StoreFails(p)
  <2> DEFINE e == mem[p].payload
  <2>1. pc[p] \in Storing /\ Answered(p, mem[p], e)
    BY <1>12 DEF Replace, StoreFails, Storing
  <2>2. /\ e \in Editions /\ e <= served[mem[p].year] /\ Held[mem[p].year] <= e
        /\ mornings[mem[p].year][0] <= e
    BY <1>1, <1>2, <1>3, <2>1 DEF Laden, Bought, Storer
  <2>3. mornings[mem[p].year][MaxAge] <= e
    <3>1. e \in Nat
      BY <2>2, EditionsAreNumbers
    <3> QED
      BY <1>1, <1>2, <2>2, <3>1
  <2> HIDE DEF e
  <2>4. Kept(p)' /\ Current(p)'
    BY <1>2, <2>1, <2>2, <2>3, AnsweredStays DEF Loading, Storing
  <2>5. pc'[p] \notin Storing
    BY <1>1, <1>2, <2>1, <2>2, AnsweredLoads DEF Storing
  <2> QED
    BY <2>4, <2>5 DEF Bought, Storer
<1>13. CASE ParserDies(p) \/ End(p) \/ Crash(p)
  <2>1. pc'[p] \in {"dead", "idle"}
    BY <1>2, <1>13 DEF ParserDies, End, Crash, Go
  <2> QED
    BY <2>1 DEF Bought, Kept, Current, Storer, Storing, Loading
<1> QED
  BY <1>4, <1>5, <1>6, <1>7, <1>8, <1>9, <1>10, <1>11, <1>12, <1>13 DEF Load

LEMMA LoadKeeps ==
    ASSUME IInv, NEW p \in Procs, Load(p), Remember
    PROVE  IInv'
<1>1. TypeOK' /\ Published' /\ Laden'
  BY LoadKeepsTypes, LoadKeepsLaden
<1>2. ASSUME ~overlapped'
      PROVE  Promised'
  <2>1. \A y \in Years : Calm(y)' /\ Chronicle(y)'
    BY <1>2, LoadStaysCalm, HeldGrows
  <2>2. \A q \in Procs : Bought(q)' /\ Kept(q)' /\ Current(q)'
    BY <1>2, OwnStays, OthersStay
  <2> QED
    BY <2>1, <2>2 DEF Promised
<1> QED
  BY <1>1, <1>2 DEF IInv

-----------------------------------------------------------------------------
(* The publisher and the days.                                             *)

LEMMA PublishKeeps ==
    ASSUME IInv, Publish
    PROVE  IInv'
<1>1. /\ cache' = cache /\ age' = age /\ pc' = pc /\ mem' = mem
      /\ mornings' = mornings /\ floor' = floor /\ overlapped' = overlapped /\ Held' = Held
  BY DEF Publish, historyVars, Held
<1>2. TypeOK /\ Published /\ Laden
  BY DEF IInv
<1>3. PICK z \in Years : served[z] < Len(Filed[z]) /\ served' = [served EXCEPT ![z] = @ + 1]
  BY DEF Publish
<1>4. served[z] \in Nat /\ served[z] + 1 \in 1 .. Len(Filed[z])
  BY <1>2, <1>3, Numbers, EditionsAreNumbers
<1>5. TypeOK'
  <2>1. served' \in [Years -> {None} \union Editions]
    BY <1>2, <1>3, <1>4, EditionsAreNumbers DEF TypeOK
  <2> QED
    BY <1>1, <1>2, <2>1 DEF TypeOK
<1>6. \A y \in Years : served[y] \in Nat /\ served'[y] \in Nat /\ served[y] <= served'[y]
  BY <1>2, <1>3, Numbers DEF TypeOK
<1>7. Published'
  BY <1>1, <1>2, <1>3, <1>4, EditionsAreNumbers DEF Published, TypeOK
<1>8. ASSUME ~overlapped'
      PROVE  Promised'
  <2>1. Promised
    BY <1>1, <1>8 DEF IInv
  <2>2. ASSUME NEW y \in Years
        PROVE  Calm(y)' /\ Chronicle(y)'
    <3>1. Calm(y)'
      BY <1>1, <2>1 DEF Promised, Calm, Refreshing, Storer
    <3>2. Chronicle(y)'
      BY <1>1, <1>2, <1>6, <2>1, Numbers DEF Promised, Chronicle
    <3> QED
      BY <3>1, <3>2
  <2>3. ASSUME NEW p \in Procs
        PROVE  Bought(p)' /\ Kept(p)' /\ Current(p)'
    <3>1. Bought(p) /\ Kept(p) /\ Current(p) /\ mem[p].payload \in Nat
          /\ \A y \in Years : mem[p].got[y] \in Nat
      BY <1>2, <2>1, Numbers DEF Promised
    <3>2. Bought(p)'
      BY <1>1, <1>6, <3>1 DEF Bought, Storer
    <3>3. Kept(p)'
      BY <1>1, <1>6, <3>1 DEF Kept, Behind
    <3>4. Current(p)'
      BY <1>1, <3>1 DEF Current, Behind
    <3> QED
      BY <3>2, <3>3, <3>4
  <2> QED
    BY <2>2, <2>3 DEF Promised
<1> QED
  BY <1>1, <1>2, <1>5, <1>7, <1>8 DEF IInv, Laden

LEMMA NextDayKeeps ==
    ASSUME IInv, NextDay
    PROVE  IInv'
<1>1. /\ cache' = cache /\ pc' = pc /\ mem' = mem /\ served' = served
      /\ floor' = floor /\ overlapped' = overlapped /\ Held' = Held
      /\ \A p \in Procs : pc[p] = "idle"
  BY DEF NextDay, Held
<1>2. TypeOK /\ Published /\ Laden
  BY DEF IInv
<1>3. /\ age' \in [Years -> Ages]
      /\ \A y \in Years : age'[y] = IF age[y] = Old THEN Old ELSE age[y] + 1
  BY <1>2, CacheAssumption DEF CacheAssumption, NextDay, TypeOK, Ages, Old
<1>4. mornings' \in [Years -> [0 .. MaxAge -> Nat]]
  <2>1. ASSUME NEW y \in Years, NEW d \in 0 .. MaxAge
        PROVE  (IF d = 0 THEN served[y] ELSE mornings[y][d - 1]) \in Nat
    BY <1>2, Numbers
  <2> QED
    BY <1>2, <2>1 DEF NextDay, Published
<1>5. TypeOK' /\ Published' /\ Laden'
  BY <1>1, <1>2, <1>3, <1>4 DEF TypeOK, Published, Laden
<1>6. ASSUME ~overlapped'
      PROVE  Promised'
  <2>1. /\ Promised
        /\ \A y \in Years : \A d \in 0 .. MaxAge :
               mornings'[y][d] = IF d = 0 THEN served[y] ELSE mornings[y][d - 1]
    BY <1>1, <1>6 DEF IInv, NextDay
  <2>2. ASSUME NEW y \in Years
        PROVE  Calm(y)' /\ Chronicle(y)'
    <3>1. Calm(y)'
      BY <1>1, <2>1 DEF Promised, Calm, Refreshing, Storer
    <3>2. /\ Chronicle(y) /\ Held[y] \in Nat /\ served[y] \in Nat /\ age[y] \in Nat /\ MaxAge \in Nat
          /\ \A d \in 0 .. MaxAge : mornings[y][d] \in Nat
      BY <1>2, <2>1, Numbers DEF Promised
    <3>3. \A d \in 0 .. MaxAge : mornings[y][d] <= served[y]
      BY <3>2 DEF Chronicle
    <3>4. ASSUME NEW d \in 0 .. MaxAge, NEW e \in 0 .. MaxAge, d <= e
          PROVE  mornings'[y][e] <= mornings'[y][d]
      <4>1. CASE e = 0
        BY <2>1, <3>2, <3>4, <4>1
      <4>2. CASE e # 0 /\ d = 0
        <5>1. e - 1 \in 0 .. MaxAge
          BY <3>2, <4>2
        <5> QED
          BY <2>1, <3>3, <4>2, <5>1
      <4>3. CASE e # 0 /\ d # 0
        <5>1. e - 1 \in 0 .. MaxAge /\ d - 1 \in 0 .. MaxAge /\ d - 1 <= e - 1
          BY <3>2, <3>4, <4>3
        <5> QED
          BY <2>1, <3>2, <4>3, <5>1 DEF Chronicle
      <4> QED
        BY <4>1, <4>2, <4>3
    <3>5. ASSUME cache[y].file # Missing, age'[y] <= MaxAge
          PROVE  mornings'[y][age'[y]] <= Held[y]
      <4>1. age[y] # Old /\ age'[y] = age[y] + 1 /\ age[y] <= MaxAge /\ age'[y] \in 0 .. MaxAge
        BY <1>3, <3>2, <3>5 DEF Old
      <4>2. mornings'[y][age'[y]] = mornings[y][age[y]]
        BY <2>1, <3>2, <4>1
      <4> QED
        BY <3>2, <3>5, <4>1, <4>2 DEF Chronicle
    <3>6. Held[y] <= served[y] /\ mornings'[y][0] <= served[y]
      BY <2>1, <3>2 DEF Chronicle
    <3> QED
      BY <1>1, <3>1, <3>4, <3>5, <3>6 DEF Chronicle
  <2>3. \A p \in Procs : Bought(p)' /\ Kept(p)' /\ Current(p)'
    BY <1>1 DEF Bought, Kept, Current, Storer, Storing, Loading
  <2> QED
    BY <2>2, <2>3 DEF Promised
<1> QED
  BY <1>5, <1>6 DEF IInv

LEMMA StutterKeeps ==
    ASSUME IInv, UNCHANGED vars
    PROVE  IInv'
<1>1. Held' = Held
  BY DEF vars, Held
<1>2. TypeOK' /\ Published' /\ Laden' /\ overlapped' = overlapped
  BY DEF vars, historyVars, IInv, TypeOK, Published, Laden
<1>3. Promised => Promised'
  BY <1>1 DEF vars, historyVars, Promised, Calm, Chronicle, Bought, Kept, Current, Behind, Refreshing, Storer
<1> QED
  BY <1>2, <1>3 DEF IInv

-----------------------------------------------------------------------------
(* The theorems.                                                           *)

\* The invariant holds always: while refreshes of one year do not overlap, what is published, on
\* its way, cached and read stay in their order.
THEOREM InductiveInvariance == Spec => []IInv
<1>1. IInv /\ [Next]_vars => IInv'
  BY LoadKeeps, PublishKeeps, NextDayKeeps, StutterKeeps DEF Next, Command
<1> QED
  BY InitEstablishes, <1>1, PTL DEF Spec

\* However the commands overlap, what lies in the cache is a package, nothing, an empty file, or
\* two packages in one.
THEOREM TypeCorrectness == Spec => []TypeOK
<1>1. IInv => TypeOK
  BY DEF IInv
<1> QED
  BY InductiveInvariance, <1>1, PTL

\* While refreshes of one year do not overlap, what is cached is a whole package or nothing,
\* wherever a download or a store fails or dies (cache.py 13-15).
THEOREM CacheIsKeptWhole == Spec => []CacheIsWhole
<1>1. IInv => CacheIsWhole
  BY DEF IInv, Promised, Calm, CacheIsWhole
<1> QED
  BY InductiveInvariance, <1>1, PTL

LEMMA NoAnswerAges == IInv => AnswersNeverAge
<1> SUFFICES ASSUME IInv, NEW p \in Procs, pc[p] = "merged", ~mem[p].blind, ~overlapped,
                    NEW c \in Companies
             PROVE  AtLeast(Registry(mem[p].got)[c], floor[p][c])
  BY DEF AnswersNeverAge
<1>1. TypeOK /\ Published /\ Kept(p) /\ \A y \in Years : Behind(p, y)
  BY DEF IInv, Promised, Behind
<1>2. PICK h \in [Years -> {None} \union Editions] :
          /\ floor[p] = Registry(h)
          /\ \A y \in Years : h[y] <= mem[p].got[y]
  BY <1>1 DEF Kept, Loading
<1>3. \A y \in Years : mem[p].got[y] \in Nat /\ h[y] \in Nat /\ mem[p].got[y] <= Len(Filed[y])
  <2>1. \A y \in Years : mem[p].got[y] <= served[y] /\ served[y] <= Len(Filed[y])
    BY <1>1 DEF Kept, Loading, Published
  <2>2. \A y \in Years : mem[p].got[y] \in Nat /\ h[y] \in Nat /\ served[y] \in Nat
    BY <1>1, <1>2, Numbers, EditionsAreNumbers
  <2> QED
    BY <2>1, <2>2, EditionsAreNumbers
<1> QED
  BY <1>2, <1>3, BetterAnswers

\* No company's answer is older than the cache had it when the command began, and none vanishes
\* (cache.py 8-15, registry.py 158-169).
THEOREM AnswersAreKept == Spec => []AnswersNeverAge
BY InductiveInvariance, NoAnswerAges, PTL

\* A refresh that was refused nothing works with packages that were still published at most
\* MaxAge days ago (cache.py 86-99).
THEOREM RegistryIsKeptCurrent == Spec => []RegistryIsCurrent
<1>1. IInv => RegistryIsCurrent
  BY DEF IInv, Promised, Current, Behind, Loading, RegistryIsCurrent
<1> QED
  BY InductiveInvariance, <1>1, PTL

-----------------------------------------------------------------------------
(* What is cached, from one step to the next.                              *)

\* A step puts nothing older in the place of what was cached, nothing that was never published,
\* and writes at most the year whose package the command has in hand, by its rename.
CacheOnlyGrows ==
    [][~overlapped' =>
          \A y \in Years :
              /\ Held[y] <= Held'[y] /\ Held'[y] <= served[y]
              /\ Held'[y] # Held[y] => \E p \in Procs : Storer(p, y) /\ pc[p] = "rename"]_vars

\* While refreshes of one year do not overlap the snapshots only ever become newer, whatever
\* fails, dies or is published meanwhile: no refresh puts an older package over a newer one, and
\* none loses the package it could not replace (cache.py 8-15, 217-235).
THEOREM SnapshotsOnlyGrow == Spec => CacheOnlyGrows
<1> DEFINE Grows ==
      ~overlapped' =>
          \A y \in Years :
              /\ Held[y] <= Held'[y] /\ Held'[y] <= served[y]
              /\ Held'[y] # Held[y] => \E p \in Procs : Storer(p, y) /\ pc[p] = "rename"
<1>1. ASSUME IInv, Next, ~overlapped', NEW y \in Years
      PROVE  /\ Held[y] <= Held'[y] /\ Held'[y] <= served[y]
             /\ Held'[y] # Held[y] => \E p \in Procs : Storer(p, y) /\ pc[p] = "rename"
  <2>1. CASE Command
    <3>1. PICK p \in Procs : Load(p) /\ Remember
      BY <2>1 DEF Command
    <3> QED
      BY <1>1, <3>1, HeldGrows
  <2>2. CASE Publish \/ NextDay
    <3>1. Held' = Held /\ overlapped' = overlapped
      BY <2>2 DEF Publish, NextDay, historyVars, Held
    <3>2. Held[y] \in Nat /\ Held[y] <= served[y]
      BY <1>1, <3>1, Numbers DEF IInv, Promised, Chronicle
    <3> QED
      BY <3>1, <3>2
  <2> QED
    BY <1>1, <2>1, <2>2 DEF Next
<1>2. IInv /\ [Next]_vars => [Grows]_vars
  BY <1>1
<1>3. [][Grows]_vars => CacheOnlyGrows
  BY DEF CacheOnlyGrows
<1> QED
  BY InductiveInvariance, <1>2, <1>3, PTL DEF Spec

-----------------------------------------------------------------------------
(* A load comes to its end.                                                *)

\* The most steps a command may still take: those of the year at hand, and those of the next.
InYear ==
    [idle |-> 0, merged |-> 1, dead |-> 1,
     check |-> 6, download |-> 5, open |-> 4, write |-> 3, rename |-> 2, cached |-> 2]

StepsLeft(p) ==
    InYear[pc[p]] + IF mem[p].year = 1 /\ pc[p] \notin {"idle", "merged", "dead"} THEN 6 ELSE 0

\* No step of anyone gives a command back what it has behind it.
CommandsEnd ==
    [][\A p \in Procs : pc[p] # "idle" =>
          \/ pc'[p] = pc[p] /\ mem'[p] = mem[p]
          \/ StepsLeft(p)' < StepsLeft(p)]_vars

LEMMA StepsAreFew ==
    ASSUME TypeOK, NEW p \in Procs
    PROVE  /\ StepsLeft(p) \in 0 .. 12
           /\ pc[p] # "idle" => StepsLeft(p) > 0
           /\ pc[p] \notin {"idle", "merged", "dead"} => StepsLeft(p) > 1
BY DEF TypeOK, StepsLeft, InYear, Storing

LEMMA OwnStepsCount ==
    ASSUME IInv, NEW p \in Procs, Load(p), pc[p] # "idle"
    PROVE  StepsLeft(p)' < StepsLeft(p)
<1>1. TypeOK /\ mem[p] \in Loads /\ mem[p].year \in {1, 2}
  BY DEF IInv, TypeOK, Loads, Years
<1> USE <1>1 DEF StepsLeft, InYear
<1>2. ASSUME NEW m \in Loads, m.year = mem[p].year, NEW e \in {None} \union Editions, Answered(p, m, e),
             pc[p] \in {"cached", "rename", "open", "write"}
      PROVE  StepsLeft(p)' < StepsLeft(p)
  <2>1. /\ mem'[p].year = 2
        /\ pc'[p] = IF m.year = 1 THEN "check" ELSE "merged"
    BY <1>2, AnsweredLoads
  <2> QED
    BY <1>2, <2>1
<1>3. CASE ReadCached(p)
  <2>1. (IF Whole(cache[mem[p].year].file) THEN cache[mem[p].year].file ELSE None)
          \in {None} \union Editions
    BY DEF Whole, Places, TypeOK, Years
  <2> QED
    BY <1>2, <1>3, <2>1 DEF ReadCached
<1>4. CASE ReadFails(p)
  <2>1. [mem[p] EXCEPT !.blind = TRUE] \in Loads /\ [mem[p] EXCEPT !.blind = TRUE].year = mem[p].year
    BY DEF Loads
  <2> QED
    BY <1>2, <1>4, <2>1 DEF ReadFails
<1>5. CASE Replace(p) \/ StoreFails(p)
  <2>1. mem[p].payload \in {None} \union Editions
    BY DEF Loads
  <2> QED
    BY <1>2, <1>5, <2>1 DEF Replace, StoreFails, Storing
<1>6. CASE Check(p) \/ Download404(p) \/ DownloadFails(p) \/ Download(p) \/ OpenPart(p) \/ WritePart(p)
  <2>1. /\ mem'[p].year = mem[p].year
        /\ <<pc[p], pc'[p]>> \in
               {<<"check", "download">>, <<"check", "cached">>, <<"download", "cached">>,
                <<"download", "open">>, <<"open", "write">>, <<"write", "rename">>}
    BY <1>6 DEF Check, Download404, DownloadFails, Download, OpenPart, WritePart, Go, TypeOK, Loads
  <2> QED
    BY <2>1
<1>7. CASE ParserDies(p)
  <2>1. pc'[p] = "dead" /\ pc[p] \in {"download", "cached"}
    BY <1>7 DEF ParserDies, Go, TypeOK
  <2> QED
    BY <2>1
<1>8. CASE End(p) \/ Crash(p)
  <2>1. pc'[p] = "idle"
    BY <1>8 DEF End, Crash, Go, TypeOK
  <2> QED
    BY <1>1, <2>1, StepsAreFew
<1> QED
  BY <1>3, <1>4, <1>5, <1>6, <1>7, <1>8 DEF Load, Begin

\* Whatever the others do to the place and whatever the CVM answers, a command has its registry,
\* or has failed, after at most 12 steps of its own: no year is asked for twice, and none of a
\* command's steps waits for another command (cache.py 101-235).
THEOREM NoCommandRunsForEver ==
    Spec => [](\A p \in Procs : StepsLeft(p) \in 0 .. 12) /\ CommandsEnd
<1> DEFINE Ends ==
      \A p \in Procs : pc[p] # "idle" =>
          \/ pc'[p] = pc[p] /\ mem'[p] = mem[p]
          \/ StepsLeft(p)' < StepsLeft(p)
           Few == \A p \in Procs : StepsLeft(p) \in 0 .. 12
<1>1. ASSUME IInv, Next, NEW p \in Procs, pc[p] # "idle"
      PROVE  \/ pc'[p] = pc[p] /\ mem'[p] = mem[p]
             \/ StepsLeft(p)' < StepsLeft(p)
  <2>1. CASE Publish \/ NextDay
    BY <2>1 DEF Publish, NextDay
  <2>2. ASSUME NEW q \in Procs, Load(q), Remember
        PROVE  q = p \/ (pc'[p] = pc[p] /\ mem'[p] = mem[p])
    BY <1>1, <2>2, LoadKeepsTypes
  <2> QED
    BY <1>1, <2>1, <2>2, OwnStepsCount DEF Next, Command
<1>2. IInv /\ [Next]_vars => [Ends]_vars
  BY <1>1
<1>3. [][Ends]_vars => CommandsEnd
  BY DEF CommandsEnd
<1>4. IInv => Few
  BY StepsAreFew DEF IInv
<1> HIDE DEF Few
<1>5. Spec => []Few
  BY InductiveInvariance, <1>4, PTL
<1>6. Spec => CommandsEnd
  BY InductiveInvariance, <1>2, <1>3, PTL DEF Spec
<1> QED
  BY <1>5, <1>6 DEF Few
=============================================================================
