------------------------ MODULE WatchListProperties ------------------------
(***************************************************************************)
(* What the operator is promised about companies.yaml (WatchListStore).    *)
(* Two saves at once share one .part and break the first two promises:     *)
(* those are stated for as long as no two saves have been under way at the *)
(* same time.  Everything else may overlap: loads, settlings, edits.       *)
(***************************************************************************)
EXTENDS WatchListStore

\* Every variable keeps its type: whatever the processes do to each other, what lies under the
\* name is nothing, an empty file, a whole list, or two lists written over each other.
TypeOK ==
    /\ list \in Places(Lists)
    /\ pc \in [Procs -> {"idle", "load", "change", "save", "reload", "monitor"} \union Saving]
    /\ mem \in [Procs -> [job : Commands, loaded : Lists \union {Missing, Blank}, doc : Lists,
                          monitored : SUBSET Codes, unread : BOOLEAN]]
    /\ edited \subseteq Edits
    /\ overlapped \in BOOLEAN

\* A save that crashes or fails leaves the previous list intact rather than half a list
\* (store.py 15-16, 194-200), also when it finds the .part of a save that died before it.
ListIsWhole == ~overlapped => file \in Lists \union {Missing}

\* A save writes its own change and nothing else: the new list is the one that was on disk when
\* the digests were compared, with the company added, removed or rewritten from the registry,
\* and every note of the operator's still in it (store.py 182-201).
SaveIsMinimal ==
    [][\A p \in Procs :
        (pc[p] = "rename" /\ pc'[p] # "rename" /\ file' # file /\ ~overlapped) =>
            file' \in Changed(mem[p].job, Parsed(mem[p].loaded))]_vars

\* What a run goes on to monitor was on disk since it last read the file: since its save compared
\* the digests, since it read the list again when they differed, and since it loaded the list when
\* it had nothing to save or could not read the file to compare it.  So an edit made before the
\* comparison is the list the run works with (run.py 341-344), unless that read failed: then the
\* run goes on with what it had loaded and settled (run.py 345-351).
RunFollowsTheList ==
    \A p \in Procs : pc[p] = "monitor" => mem[p].monitored \in recent[p]
=============================================================================
