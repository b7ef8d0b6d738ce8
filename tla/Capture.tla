------------------------------ MODULE Capture ------------------------------
(***************************************************************************)
(* The capture of a running server's configuration                         *)
(* (src/config_backup.rs: hold_locks, read_snapshot, read_once), beside    *)
(* the processes that rewrite it.                                          *)
(*                                                                         *)
(* A writer replaces its files one by one, each by an atomic rename: PBS   *)
(* does so while it holds its lock files exclusively, a restore (swap)     *)
(* holds none.  A file is the number of times it was replaced, which is    *)
(* also its stamp; 0 is a file that is not there.                          *)
(***************************************************************************)
EXTENDS Integers, FiniteSets

CONSTANTS
    NFiles,         \* files of the config, in the order they are read
    Required,       \* those without which nothing is captured
    NLocks,         \* lock files, in the order writers take them
    Writers,        \* one rewrite of some files each
    LocksOf,        \* the lock files a writer takes, none for a restore
    Rewrites,       \* the files it replaces
    Attempts,       \* LOCK_ATTEMPTS
    MaxCaptures     \* bound: captures begun

Files == 1..NFiles
Locks == 1..NLocks
Rounds == 2

ASSUME ConfigAssumption ==
    /\ NFiles \in Nat /\ NLocks \in Nat
    /\ Required \subseteq Files
    /\ LocksOf \in [Writers -> SUBSET Locks]
    /\ Rewrites \in [Writers -> SUBSET Files]
    /\ Attempts \in Nat \ {0} /\ MaxCaptures \in Nat

VARIABLES
    file,       \* on disk: how often each file was replaced
    lockFiles,  \* the lock files that exist
    wpc,        \* each writer: "idle", "locking", "writing", "done" or "stopped"
    wheld,      \* the locks it holds exclusively
    wleft,      \* the files it has still to replace
    \* the capture
    pc,
    listed,     \* the lock files it found
    held,       \* those it holds shared
    attempt,    \* attempts to take them all, 1..Attempts
    round,      \* reads of the whole config, 1..Rounds
    todo,       \* locks to take, or files to read or stamp
    seen,       \* what was read
    now,        \* the stamps taken after the read
    reply,
    captures,
    \* for stating properties
    cut,        \* the files when the last one had been read
    cutMid      \* the writers that were midway then

disk == <<file, lockFiles>>
writers == <<wpc, wheld, wleft>>
ghosts == <<cut, cutMid>>
vars == <<disk, writers, pc, listed, held, attempt, round, todo, seen, now, reply,
          captures, ghosts>>

Nothing == [f \in Files |-> 0]
Present == {f \in Files : file[f] # 0}
First(x, S) == x \in S /\ \A y \in S : x <= y

Init ==
    /\ file \in [Files -> {0, 1}]
    /\ lockFiles \in SUBSET Locks
    /\ wpc = [w \in Writers |-> "idle"]
    /\ wheld = [w \in Writers |-> {}]
    /\ wleft = Rewrites
    /\ pc = "idle" /\ listed = {} /\ held = {} /\ todo = {}
    /\ attempt = 1 /\ round = 1
    /\ seen = Nothing /\ now = Nothing
    /\ reply = "none" /\ captures = 0
    /\ cut = Nothing /\ cutMid = {}

-----------------------------------------------------------------------------
(* Writers: PBS's open_backup_lockfile and its atomic renames, and a restore *)

capture == <<pc, listed, held, attempt, round, todo, seen, now, reply, captures, ghosts>>

Wanted(w) == LocksOf[w] \ wheld[w]
Midway(w) == wpc[w] = "writing" /\ wleft[w] # Rewrites[w] /\ wleft[w] # {}

WStart(w) ==
    /\ wpc[w] = "idle"
    /\ wpc' = [wpc EXCEPT ![w] = "locking"]
    /\ UNCHANGED <<disk, wheld, wleft, capture>>

\* A writer creates a lock file that is missing.
WCreateLock(w) ==
    /\ wpc[w] = "locking"
    /\ \E l \in Wanted(w) \ lockFiles : lockFiles' = lockFiles \cup {l}
    /\ UNCHANGED <<file, writers, capture>>

\* flock(LOCK_EX): blocks while anyone else holds it.
WLock(w) ==
    /\ wpc[w] = "locking"
    /\ \E l \in Wanted(w) :
        /\ First(l, Wanted(w)) /\ l \in lockFiles \ held
        /\ \A v \in Writers : l \notin wheld[v]
        /\ wheld' = [wheld EXCEPT ![w] = @ \cup {l}]
    /\ UNCHANGED <<disk, wpc, wleft, capture>>

WLocked(w) ==
    /\ wpc[w] = "locking" /\ Wanted(w) = {}
    /\ wpc' = [wpc EXCEPT ![w] = "writing"]
    /\ UNCHANGED <<disk, wheld, wleft, capture>>

WReplace(w) ==
    /\ wpc[w] = "writing"
    /\ \E f \in wleft[w] :
        /\ file' = [file EXCEPT ![f] = @ + 1]
        /\ wleft' = [wleft EXCEPT ![w] = @ \ {f}]
    /\ UNCHANGED <<lockFiles, wpc, wheld, capture>>

\* The locks go when the writer has replaced its files, or dies before.
WEnd(w) ==
    /\ wpc[w] = "writing"
    /\ wpc' = [wpc EXCEPT ![w] = IF wleft[w] = {} THEN "done" ELSE "stopped"]
    /\ wheld' = [wheld EXCEPT ![w] = {}]
    /\ UNCHANGED <<disk, wleft, capture>>

Writer(w) == WStart(w) \/ WCreateLock(w) \/ WLock(w) \/ WLocked(w) \/ WReplace(w) \/ WEnd(w)

-----------------------------------------------------------------------------
(* hold_locks *)

\* Mutant: an error path that keeps the locks.
ReleasedOnSuccess(r) == IF r = "captured" THEN {} ELSE held

\* The locks go when the block that reads the config ends, however it ends.
Released(r) == {}

Return(r) ==
    /\ pc' = "idle" /\ reply' = r /\ held' = Released(r) /\ todo' = {}
    /\ UNCHANGED <<disk, writers, listed, attempt, round, seen, now, captures, ghosts>>

\* The lock files are listed once; one that appears later is not taken.
ListLocks ==
    /\ pc = "idle" /\ captures < MaxCaptures
    /\ captures' = captures + 1
    /\ listed' = lockFiles /\ todo' = lockFiles
    /\ attempt' = 1 /\ round' = 1 /\ seen' = Nothing /\ now' = Nothing
    /\ cut' = Nothing /\ cutMid' = {} /\ reply' = "none"
    /\ pc' = "lock"
    /\ UNCHANGED <<disk, writers, held>>

\* Mutant: a lock that would block is passed over.
BusyPassedOver(l) == FALSE

\* flock(LOCK_SH | LOCK_NB) would block.
Busy(l) == \E w \in Writers : l \in wheld[w]

\* Mutant: what is held is kept for the next attempt.
KeptForRetry == held

\* A lock that is taken makes the capture let go of those it has, and sleep.
HeldAsleep == {}

TryLock ==
    /\ pc = "lock"
    /\ \E l \in todo :
        \/ ~Busy(l) /\ held' = held \cup {l} /\ todo' = todo \ {l} /\ pc' = pc
        \/ Busy(l) /\ held' = HeldAsleep /\ todo' = {} /\ pc' = "sleep"
    /\ UNCHANGED <<disk, writers, listed, attempt, round, seen, now, reply, captures, ghosts>>

\* Mutant: one attempt too many.
AttemptsPassed == attempt > Attempts

AttemptsSpent == attempt = Attempts

Retry ==
    /\ pc = "sleep"
    /\ \/ AttemptsSpent /\ Return("locked")
       \/ /\ ~AttemptsSpent /\ attempt' = attempt + 1
          /\ todo' = listed /\ pc' = "lock"
          /\ UNCHANGED <<disk, writers, listed, held, round, seen, now, reply, captures, ghosts>>

-----------------------------------------------------------------------------
(* read_snapshot and read_once *)

\* scan: the names first, and a refusal if a required one is missing.
Scan ==
    /\ \/ pc = "lock" /\ todo = {}
       \/ pc = "scan"
    /\ \/ /\ Required \subseteq Present
          /\ todo' = Present /\ seen' = Nothing /\ pc' = "read"
          /\ UNCHANGED <<disk, writers, listed, held, attempt, round, now, reply, captures, ghosts>>
       \/ /\ ~(Required \subseteq Present) /\ Return("incomplete")

\* One file: opened, its stamp taken and its bytes read, all of one inode.
Read ==
    /\ pc = "read"
    /\ \E f \in Files :
        /\ First(f, todo)
        /\ seen' = [seen EXCEPT ![f] = file[f]]
        /\ todo' = todo \ {f}
    /\ UNCHANGED <<disk, writers, pc, listed, held, attempt, round, now, reply, captures, ghosts>>

\* All files are read; the names are scanned again to stamp them.
Rescan ==
    /\ pc = "read" /\ todo = {}
    /\ pc' = "stamp" /\ todo' = Present /\ now' = Nothing
    /\ cut' = file /\ cutMid' = {w \in Writers : Midway(w)}
    /\ UNCHANGED <<disk, writers, listed, held, attempt, round, seen, reply, captures>>

Stamp ==
    /\ pc = "stamp"
    /\ \E f \in Files :
        /\ First(f, todo)
        /\ now' = [now EXCEPT ![f] = file[f]]
        /\ todo' = todo \ {f}
    /\ UNCHANGED <<disk, writers, pc, listed, held, attempt, round, seen, reply, captures, ghosts>>

\* Mutant: only the files that were read are compared.
UnchangedWhereRead == \A f \in Files : seen[f] # 0 => now[f] # 0

\* No file was replaced, removed or added since it was read.
UnchangedSince == now = seen

\* One retry, then a refusal.
Compare ==
    /\ pc = "stamp" /\ todo = {}
    /\ \/ UnchangedSince /\ Return("captured")
       \/ ~UnchangedSince /\ round = Rounds /\ Return("changing")
       \/ /\ ~UnchangedSince /\ round < Rounds
          /\ round' = round + 1 /\ pc' = "scan"
          /\ UNCHANGED <<disk, writers, listed, held, attempt, todo, seen, now, reply, captures, ghosts>>

\* A lock, a directory or a file cannot be read, or a size limit is passed.
Fail == pc \notin {"idle", "sleep"} /\ Return("failed")

CaptureStep == TryLock \/ Retry \/ Scan \/ Read \/ Rescan \/ Stamp \/ Compare

Next == ListLocks \/ CaptureStep \/ Fail \/ \E w \in Writers : Writer(w)

Spec == Init /\ [][Next]_vars

\* The capture's loops are bounded and it only sleeps between attempts; a PBS
\* writer that started runs.
FairSpec ==
    /\ Spec
    /\ WF_vars(CaptureStep)
    /\ \A w \in Writers : WF_vars(WCreateLock(w) \/ WLock(w) \/ WLocked(w) \/ WEnd(w))

-----------------------------------------------------------------------------
(* Properties *)

Replies == {"none", "locked", "incomplete", "captured", "changing", "failed"}

\* Every variable keeps its type.
TypeOK ==
    /\ file \in [Files -> Nat] /\ lockFiles \subseteq Locks
    /\ wpc \in [Writers -> {"idle", "locking", "writing", "done", "stopped"}]
    /\ wheld \in [Writers -> SUBSET Locks] /\ wleft \in [Writers -> SUBSET Files]
    /\ pc \in {"idle", "lock", "sleep", "scan", "read", "stamp"}
    /\ listed \subseteq Locks /\ held \subseteq listed
    /\ attempt \in 1..Attempts /\ round \in 1..Rounds
    /\ todo \subseteq Files \cup Locks
    /\ seen \in [Files -> Nat] /\ now \in [Files -> Nat]
    /\ reply \in Replies /\ captures \in 0..MaxCaptures
    /\ cut \in [Files -> Nat] /\ cutMid \subseteq Writers

\* What is captured is what the files held all together at one moment, whoever
\* rewrote them meanwhile, with a lock or without.
ConsistentCut == reply = "captured" => seen = cut

\* At that moment no rewrite was half done, unless by a writer none of whose lock
\* files existed when the capture listed them: user.cfg and token.shadow, which
\* PBS rewrites under one lock, are captured from the same change.  (Half done is a
\* rewrite whose writer still runs: what one that has died left half done is what
\* the files hold, and is captured so.)
WholeRewrites ==
    reply = "captured" => \A w \in cutMid : LocksOf[w] \cap listed = {}

\* Nobody waits for the capture while the capture waits for them.
NoWaitCycle ==
    pc = "sleep" => \A w \in Writers : wpc[w] = "locking" => Wanted(w) \cap held = {}

\* A writer is never shut out: the capture returns and lets go of the locks,
\* whatever it met.
WritersProceed == \A w \in Writers : wpc[w] = "locking" ~> wpc[w] # "locking"

-----------------------------------------------------------------------------
(* The inductive invariant behind them *)

\* While it reads, the capture holds every lock it listed, and nobody holds one
\* both ways.
LocksInv ==
    /\ pc \in {"idle", "sleep"} => held = {}
    /\ pc = "lock" => todo \subseteq listed /\ held = listed \ todo
    /\ pc \in {"scan", "read", "stamp"} => held = listed
    /\ \A w \in Writers :
        /\ wheld[w] \cap held = {}
        /\ wpc[w] = "writing" => LocksOf[w] \subseteq wheld[w]
    /\ \A w \in cutMid : LocksOf[w] \cap listed = {}

\* A file is only ever replaced by a newer one, so what was read is at most what
\* is there at the cut, and that at most what is stamped after it.
CutInv ==
    /\ pc \in {"read", "stamp"} => \A f \in Files : seen[f] <= file[f]
    /\ pc = "stamp" => \A f \in Files :
        /\ seen[f] <= cut[f] /\ cut[f] <= file[f]
        /\ f \notin todo => cut[f] <= now[f]
    /\ pc # "idle" => reply = "none"

Inv == TypeOK /\ LocksInv /\ CutInv /\ ConsistentCut

-----------------------------------------------------------------------------
(* Why no capture runs for ever: the reads of the config, the attempts at the locks, *)
(* where it is in one of these, and what its loop has still to do there.             *)

Place ==
    IF pc = "lock" THEN 5 ELSE IF pc = "sleep" THEN 4 ELSE IF pc = "scan" THEN 3
    ELSE IF pc = "read" THEN 2 ELSE IF pc = "stamp" THEN 1 ELSE 0

Closer ==
    \/ round' > round
    \/ round' = round /\ attempt' > attempt
    \/ /\ round' = round /\ attempt' = attempt
       /\ Place' < Place \/ (Place' = Place /\ todo' \subseteq todo /\ todo' # todo)

\* Whatever the writers do meanwhile, each step a capture takes of its own ends it or
\* brings it closer to its end.
CaptureEnds == [][pc # "idle" => UNCHANGED capture \/ pc' = "idle" \/ Closer]_vars

-----------------------------------------------------------------------------
(* What the code's comment says, and what it does not hold for *)

\* "Holding all of them shared gives a view consistent across files": no
\* rewrite is captured half done.
ViewIsWhole == reply = "captured" => cutMid = {}
=============================================================================
