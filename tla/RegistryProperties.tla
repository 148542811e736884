------------------------- MODULE RegistryProperties -------------------------
(***************************************************************************)
(* What the registry cache promises (RegistryCache).  Two refreshes of one *)
(* year at once share one .part, and the slower one may put an older       *)
(* package over a newer: the promises are stated for as long as that has   *)
(* not happened.  Loads, and refreshes of the two years, may overlap.      *)
(***************************************************************************)
EXTENDS RegistryCache

Loads == [refresh : BOOLEAN, year : Years, got : [Years -> {None} \union Editions],
          payload : {None} \union Editions, missed : BOOLEAN, blind : BOOLEAN]

\* Every variable keeps its type: however the commands overlap, what lies in the cache is a
\* package, nothing, an empty file, or two packages written over each other.
TypeOK ==
    /\ cache \in [Years -> Places(Editions)]
    /\ age \in [Years -> Ages]
    /\ served \in [Years -> {None} \union Editions]
    /\ pc \in [Procs -> {"idle", "check", "cached", "download", "merged", "dead"} \union Storing]
    /\ mem \in [Procs -> Loads]
    /\ overlapped \in BOOLEAN

\* A download that fails or arrives corrupt leaves the previous snapshot exactly where it was
\* (cache.py 13-15), and so does a store that fails or dies anywhere: what is under a package's
\* name is a package that parsed whole, or nothing.
CacheIsWhole ==
    ~overlapped => \A y \in Years : cache[y].file \in Editions \union {Missing}

\* No company gets an older answer than the cache held for it when the command began, and none
\* vanishes: not because a refresh failed, a year is not published, another command refreshed
\* meanwhile, or the current year's package is still thin (cache.py 8-15, 161-168, registry.py
\* 158-169).  In particular load raises only where nothing usable was cached.
AnswersNeverAge ==
    \A p \in Procs : pc[p] = "merged" /\ ~mem[p].blind /\ ~overlapped =>
        \A c \in Companies : AtLeast(Registry(mem[p].got)[c], floor[p][c])

\* A command that was free to refresh, and was not refused a download, works with packages that
\* were still published at most the configured age ago (cache.py 3-6, 86-99): neither the rename
\* nor a failed refresh nor another command's rewrite makes an old package look young.
RegistryIsCurrent ==
    \A p \in Procs : pc[p] = "merged" /\ mem[p].refresh /\ ~mem[p].missed /\ ~mem[p].blind
                                      /\ ~overlapped =>
        \A y \in Years : mem[p].got[y] >= mornings[y][MaxAge]

\* "A cached package that no longer parses is treated exactly like one that was never there"
\* (cache.py 164), and a download that arrives corrupt lets the run continue on the previous
\* snapshot (13-14): no command dies of a damaged package.
CorruptPackageIsSurvived == \A p \in Procs : pc[p] # "dead"
=============================================================================
