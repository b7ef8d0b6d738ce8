------------------------------- MODULE Health -------------------------------
(***************************************************************************)
(* What pbs.datastore.health makes of one datastore's readings             *)
(* (src/tools.rs): its entry in the list, its status, the result of its    *)
(* last garbage collection and the verify jobs.  A problem is named by its *)
(* kind; the words of a report are left out.                               *)
(***************************************************************************)
EXTENDS Integers

CONSTANTS
    Store,      \* the datastore looked at
    MinFree     \* the percentage of it that should be free

\* run_state: "ok", "warnings: ...", and everything else is a failure; a run that
\* has not been has no state.
RunStates == {"none", "ok", "warnings", "failed"}
Failure(state) == state = "failed"
Warning(state) == state = "warnings"

\* A store as its list entry, its status and its GC show it.  A store whose mount is
\* gone, or whose chunk directory is, fails its status read.
StoreStates ==
    [mounted : BOOLEAN, maintenance : BOOLEAN, readable : BOOLEAN,
     total : {0, 100}, avail : {MinFree - 1, MinFree}, gc : RunStates, stillBad : BOOLEAN]

\* Mutant: jobs of every store count.
FindingsOfAll(store, jobs) ==
    LET mine == jobs
    IN  IF mine = {} THEN {"no verify job"}
        ELSE {x \in {"not scheduled"} : \A j \in mine : ~j.scheduled}
             \cup {x \in {"verify failed"} : \E j \in mine : Failure(j.state)}

verify_findings(store, jobs) ==
    LET mine == {j \in jobs : j.store = store}
    IN  IF mine = {} THEN {"no verify job"}
        ELSE {x \in {"not scheduled"} : \A j \in mine : ~j.scheduled}
             \cup {x \in {"verify failed"} : \E j \in mine : Failure(j.state)}

\* assess_datastore, part by part: the entry in the list, the status, and the GC's
\* result, which is only read when the status could be.
OfEntry(ds) ==
    {x \in {"not mounted"} : ~ds.mounted} \cup {x \in {"maintenance"} : ds.maintenance}
OfStatus(ds) ==
    IF ~ds.readable THEN {"unreadable"}
    ELSE IF ds.total = 0 THEN {"empty"}
    ELSE {x \in {"little free"} : ds.avail * 100 < ds.total * MinFree}
OfGc(ds) ==
    {x \in {"gc failed"} : Failure(ds.gc)} \cup {x \in {"still bad"} : ds.stillBad}

\* What is not looked at when the status cannot be read.
Behind(problem) == problem \in {"empty", "little free", "gc failed", "still bad"}
=============================================================================
