------------------------------ MODULE Restore ------------------------------
(***************************************************************************)
(* The restore of a captured configuration into a live config directory,   *)
(* and the recovery that settles a restore which was cut off               *)
(* (src/config_backup.rs: materialize, Work, recovery, recover).           *)
(*                                                                         *)
(* One step is one call that changes the file system.  Between any two a   *)
(* call may fail, or the process may die; what is on disk then stays and   *)
(* what was in memory (Work, the recovery plan) is gone.                   *)
(*                                                                         *)
(* A file's content is the number of the restore that wrote it, so equal   *)
(* numbers are the same inode: 1 is what was there at first and n+1 what   *)
(* the n-th restore installs.                                              *)
(***************************************************************************)
EXTENDS Integers, FiniteSets

CONSTANTS
    NFiles,             \* files of the manifest, in manifest order
    NDirs,              \* directories of the manifest, parents first
    Parent,             \* Parent[d]: the directory that holds d, 0 the config root
    DirOf,              \* DirOf[f]: the directory that holds f
    MaxRestores,        \* bound: restores begun
    MaxFaults,          \* bound: failed calls and crashes, together
    OperatorMaySwitch,  \* may one interrupted restore see both recovery actions?
    UnsyncedMarkers     \* phases whose marker may be renamed in place and then
                        \* fail to fsync

Files == 1..NFiles
Dirs == 1..NDirs
Absent == 0
Torn == -1                          \* bytes of a file that was still being written
Versions == 1..(MaxRestores + 1)
Phases == {"staging", "swapping", "rolling_back"}
NextMarker == 0                     \* in junk: the marker's own temp file
NoMarker == [phase |-> "none", listed |-> {}, created |-> {}]
NoPlan == [action |-> "none", install |-> {}, dropTmp |-> {}, putBack |-> {},
           dropPrev |-> {}, chmod |-> {}, rmdirs |-> {}, junk |-> {}]

ASSUME SizesAssumption ==
    /\ NFiles \in Nat /\ NDirs \in Nat
    /\ MaxRestores \in Nat /\ MaxFaults \in Nat
ASSUME TreeAssumption ==
    /\ Parent \in [Dirs -> 0..NDirs]
    /\ \A d \in Dirs : Parent[d] < d
    /\ DirOf \in [Files -> 0..NDirs]
ASSUME ChoicesAssumption ==
    /\ OperatorMaySwitch \in BOOLEAN
    /\ UnsyncedMarkers \subseteq Phases

VARIABLES
    \* on disk
    name,       \* the live file's content, or Absent
    tmp,        \* its staged copy: "none", "partial" or "full"
    prev,       \* its set-aside original (a second link), or Absent
    dirs,       \* the manifest's directories that exist
    marker,     \* .orca-swap-<tag>, or NoMarker
    junk,       \* untagged leftovers: NextMarker, and f for f's .install copy
    \* in memory of the call that runs
    pc,
    phase,      \* Work.phase
    created,    \* Work.created
    displaced,  \* files whose Staged.displaced is set
    left,       \* has undo something to report?
    todo,       \* what the running loop still has to visit
    plan,       \* the steps of a recovery still to apply
    \* what happened, for stating properties
    base,       \* name when the restore began
    baseDirs,   \* dirs when it began
    run,        \* the content it installs
    tried,      \* recovery actions begun on it
    reply,      \* what the last call reported
    faults

disk == <<name, tmp, prev, dirs, marker, junk>>
work == <<pc, phase, created, displaced, left, todo, plan>>
past == <<base, baseDirs, run, tried>>
vars == <<disk, work, past, reply, faults>>

-----------------------------------------------------------------------------
(* The shape of the tree *)

InDir(f, present) == DirOf[f] = 0 \/ DirOf[f] \in present

Leftovers ==
    \/ marker.phase # "none"
    \/ junk # {}
    \/ \E f \in Files : tmp[f] # "none" \/ prev[f] # Absent

\* rmdir succeeds only on a directory that holds nothing.
Empty(d) ==
    /\ \A e \in dirs : Parent[e] # d
    /\ \A f \in Files : DirOf[f] = d =>
          name[f] = Absent /\ tmp[f] = "none" /\ prev[f] = Absent /\ f \notin junk

ParentPresent(d) == Parent[d] = 0 \/ Parent[d] \in dirs

First(x, S) == x \in S /\ \A y \in S : x <= y
Last(x, S) == x \in S /\ \A y \in S : y <= x

-----------------------------------------------------------------------------
(* Outcomes of a call *)

NoFault == UNCHANGED faults
Fault == faults < MaxFaults /\ faults' = faults + 1

\* The call returns: its memory is gone.
Return(r) ==
    /\ pc' = "idle" /\ phase' = "staging" /\ plan' = NoPlan
    /\ created' = {} /\ displaced' = {} /\ todo' = {} /\ left' = FALSE
    /\ reply' = r
    /\ UNCHANGED past

Goto(p, t) ==
    /\ pc' = p /\ todo' = t
    /\ UNCHANGED <<plan, past, reply>>

\* materialize's Err branch.
GotoUndo == Goto("undo_tmp", Files) /\ UNCHANGED <<phase, created, displaced, left>>

-----------------------------------------------------------------------------
(* materialize *)

Init ==
    /\ dirs \in {D \in SUBSET Dirs : \A d \in D : Parent[d] = 0 \/ Parent[d] \in D}
    /\ name \in {n \in [Files -> {Absent, 1}] : \A f \in Files : n[f] = 1 => InDir(f, dirs)}
    /\ tmp = [f \in Files |-> "none"] /\ prev = [f \in Files |-> Absent]
    /\ marker = NoMarker /\ junk = {}
    /\ pc = "idle" /\ phase = "staging" /\ plan = NoPlan
    /\ created = {} /\ displaced = {} /\ todo = {} /\ left = FALSE
    /\ base = name /\ baseDirs = dirs /\ run = 1 /\ tried = {}
    /\ reply = "none" /\ faults = 0

\* Refused while an earlier restore's leftovers are there.
Begin ==
    /\ pc = "idle" /\ ~Leftovers /\ run <= MaxRestores
    /\ run' = run + 1 /\ base' = name /\ baseDirs' = dirs /\ tried' = {}
    /\ reply' = "none" /\ pc' = "mark"
    /\ NoFault
    /\ UNCHANGED <<disk, phase, created, displaced, left, todo, plan>>

-----------------------------------------------------------------------------
(* write_marker: create <marker>.next, write and fsync it, rename it over    *)
(* the marker, fsync the root.  Used before anything is made (staging), for  *)
(* each directory to make (staging), before the swap and before a rollback.  *)

AfterMark == CASE phase = "staging" -> "dirs"
               [] phase = "swapping" -> "swap"
               [] OTHER -> "put_back"

\* If the rollback cannot be recorded nothing is put back (Work.stranded).
MarkFailed ==
    IF phase = "rolling_back" THEN Return("stranded") ELSE GotoUndo

\* The exclusive create of <marker>.next; it also fails if one is there.
CreateNext ==
    /\ pc = "mark"
    /\ \/ /\ NoFault /\ NextMarker \notin junk
          /\ junk' = junk \cup {NextMarker}
          /\ Goto("land", todo)
          /\ UNCHANGED <<phase, created, displaced, left>>
       \/ /\ IF NextMarker \in junk THEN NoFault ELSE Fault
          /\ MarkFailed
          /\ UNCHANGED junk
    /\ UNCHANGED <<name, tmp, prev, dirs, marker>>

\* Mutant: the config root is recorded as created too.
NewMarkerWithRoot == [phase |-> phase,
              listed |-> IF phase = "staging" THEN {} ELSE Files,
              created |-> created \cup {0}]

\* Nothing is staged while the phase is staging; later every file is.
NewMarker == [phase |-> phase,
              listed |-> IF phase = "staging" THEN {} ELSE Files,
              created |-> created]

RenameNext ==
    /\ pc = "land"
    /\ \/ /\ NoFault
          /\ marker' = NewMarker /\ junk' = junk \ {NextMarker}
          /\ Goto(AfterMark, IF phase = "swapping" THEN Files ELSE todo)
          /\ UNCHANGED <<phase, created, displaced, left>>
       \/ \* renamed, but the fsync of the root failed
          /\ Fault /\ phase \in UnsyncedMarkers
          /\ marker' = NewMarker /\ junk' = junk \ {NextMarker}
          /\ MarkFailed
       \/ \* not renamed; removing .next may fail too, which is only logged
          /\ Fault
          /\ junk' \in {junk, junk \ {NextMarker}}
          /\ MarkFailed
          /\ UNCHANGED marker
    /\ UNCHANGED <<name, tmp, prev, dirs>>

\* make_dirs: parents first; each missing directory is recorded, then made.
MakeDirs ==
    /\ pc = "dirs"
    /\ LET missing == Dirs \ dirs IN
       \/ /\ missing = {}
          /\ Goto("stage", Files)
          /\ UNCHANGED <<dirs, phase, created, displaced, left>> /\ NoFault
       \/ \E d \in missing : First(d, missing) /\
          \/ /\ d \notin created
             /\ created' = created \cup {d}
             /\ Goto("mark", todo)
             /\ UNCHANGED <<dirs, phase, displaced, left>> /\ NoFault
          \/ /\ d \in created
             /\ dirs' = dirs \cup {d}
             /\ Goto("dirs", todo)
             /\ UNCHANGED <<phase, created, displaced, left>> /\ NoFault
          \/ \* mkdir failed, or it succeeded and setting the mode failed
             /\ d \in created
             /\ dirs' \in {dirs, dirs \cup {d}}
             /\ GotoUndo /\ Fault
    /\ UNCHANGED <<name, tmp, prev, marker, junk>>

\* stage: read and check the backup's bytes, create the temp file, fill it.
Stage ==
    /\ pc = "stage"
    /\ \/ \E f \in Files : First(f, todo) /\
          \/ /\ tmp[f] = "none"
             /\ tmp' = [tmp EXCEPT ![f] = "partial"]
             /\ Goto("stage", todo)
             /\ UNCHANGED <<phase, created, displaced, left>> /\ NoFault
          \/ /\ tmp[f] = "partial"
             /\ tmp' = [tmp EXCEPT ![f] = "full"]
             /\ Goto("stage", todo \ {f})
             /\ UNCHANGED <<phase, created, displaced, left>> /\ NoFault
       \/ /\ todo = {}
          /\ Goto("aside", {f \in Files : name[f] # Absent})
          /\ UNCHANGED <<tmp, phase, created, displaced, left>> /\ NoFault
       \/ GotoUndo /\ UNCHANGED tmp /\ Fault
    /\ UNCHANGED <<name, prev, dirs, marker, junk>>

\* set_aside: hard-link each file that exists; then the marker turns to swapping.
SetAside ==
    /\ pc = "aside"
    /\ \/ \E f \in Files :
          /\ First(f, todo)
          /\ prev' = [prev EXCEPT ![f] = name[f]]
          /\ Goto("aside", todo \ {f})
          /\ UNCHANGED <<phase, created, displaced, left>> /\ NoFault
       \/ /\ todo = {}
          /\ phase' = "swapping"
          /\ Goto("mark", {})
          /\ UNCHANGED <<prev, created, displaced, left>> /\ NoFault
       \/ GotoUndo /\ UNCHANGED prev /\ Fault
    /\ UNCHANGED <<name, tmp, dirs, marker, junk>>

\* What a name holds once f's staged copy is renamed to it.
Staged(f) == IF tmp[f] = "full" THEN run ELSE Torn

\* Mutant: files are put back before the marker says so.
AfterFailedSwapUnrecorded == "put_back"

\* The rollback is recorded before the first file is put back.
AfterFailedSwap == "mark"

\* swap: rename each staged copy over its file.  When one fails the marker
\* turns to rolling_back and the files already replaced are put back.
Swap ==
    /\ pc = "swap"
    /\ \/ \E f \in Files :
          /\ First(f, todo)
          /\ name' = [name EXCEPT ![f] = Staged(f)]
          /\ tmp' = [tmp EXCEPT ![f] = "none"]
          /\ displaced' = displaced \cup {f}
          /\ Goto("swap", todo \ {f})
          /\ UNCHANGED <<phase, created, left>> /\ NoFault
       \/ /\ todo # {} /\ Fault
          /\ phase' = "rolling_back"
          /\ Goto(AfterFailedSwap, displaced)
          /\ UNCHANGED <<name, tmp, created, displaced, left>>
       \/ /\ todo = {}
          /\ Goto("finish", {})
          /\ UNCHANGED <<name, tmp, phase, created, displaced, left>> /\ NoFault
    /\ UNCHANGED <<prev, dirs, marker, junk>>

\* Mutant: a file that had an original is removed like one that had none.
PutBackAsLost(f) == Absent

\* What a name holds once f is put back: its original, or nothing if it had none.
PutBackAs(f) == prev[f]

\* The rollback inside swap, last replaced file first: the original is renamed
\* back, or a file that had none is removed.  A failure is noted and the loop
\* goes on.
PutBack ==
    /\ pc = "put_back"
    /\ \/ \E f \in Files : Last(f, todo) /\
          \/ /\ name' = [name EXCEPT ![f] = PutBackAs(f)]
             /\ prev' = [prev EXCEPT ![f] = Absent]
             /\ displaced' = displaced \ {f}
             /\ Goto("put_back", todo \ {f})
             /\ UNCHANGED <<phase, created, left>> /\ NoFault
          \/ /\ left' = TRUE
             /\ Goto("put_back", todo \ {f})
             /\ UNCHANGED <<name, prev, phase, created, displaced>> /\ Fault
       \/ /\ todo = {}
          /\ GotoUndo
          /\ UNCHANGED <<name, prev>> /\ NoFault
    /\ UNCHANGED <<tmp, dirs, marker, junk>>

-----------------------------------------------------------------------------
(* Work::undo, after any error before the swap was complete *)

UndoTmp ==
    /\ pc = "undo_tmp"
    /\ \/ \E f \in Files : First(f, todo) /\
          \/ /\ tmp' = [tmp EXCEPT ![f] = "none"]
             /\ Goto("undo_prev", todo)
             /\ UNCHANGED <<phase, created, displaced, left>> /\ NoFault
          \/ /\ tmp[f] # "none" /\ left' = TRUE
             /\ Goto("undo_prev", todo)
             /\ UNCHANGED <<tmp, phase, created, displaced>> /\ Fault
       \/ /\ todo = {}
          /\ Goto("undo_dirs", created)
          /\ UNCHANGED <<tmp, phase, created, displaced, left>> /\ NoFault
    /\ UNCHANGED <<name, prev, dirs, marker, junk>>

\* Mutant: the displaced flag is forgotten.
OutOfPlaceForgotten(f) == FALSE

\* The original of f is held by its set-aside link alone.
OutOfPlace(f) == f \in displaced /\ prev[f] # Absent

\* An original that is out of place is kept and reported.
UndoPrev ==
    /\ pc = "undo_prev"
    /\ \E f \in Files : First(f, todo) /\
       \/ /\ prev' = IF OutOfPlace(f) THEN prev ELSE [prev EXCEPT ![f] = Absent]
          /\ left' = (left \/ OutOfPlace(f))
          /\ Goto("undo_tmp", todo \ {f}) /\ NoFault
       \/ /\ ~OutOfPlace(f) /\ prev[f] # Absent /\ left' = TRUE
          /\ Goto("undo_tmp", todo \ {f})
          /\ UNCHANGED prev /\ Fault
    /\ UNCHANGED <<name, tmp, dirs, marker, junk, phase, created, displaced>>

\* Created directories, last made first.  One that was recorded and never made
\* is fine; one whose parent is gone, or that holds something, is reported.
UndoDirs ==
    /\ pc = "undo_dirs"
    /\ \/ \E d \in Dirs : Last(d, todo) /\
          \/ /\ ParentPresent(d) /\ (d \in dirs => Empty(d))
             /\ dirs' = dirs \ {d}
             /\ Goto("undo_dirs", todo \ {d})
             /\ UNCHANGED left /\ NoFault
          \/ /\ left' = TRUE
             /\ Goto("undo_dirs", todo \ {d})
             /\ UNCHANGED dirs
             /\ IF ParentPresent(d) /\ (d \in dirs => Empty(d)) THEN Fault ELSE NoFault
       \/ /\ todo = {}
          /\ Goto("undo_mark", {})
          /\ \/ NoFault /\ UNCHANGED left
             \/ Fault /\ left' = TRUE              \* sync_dirs
          /\ UNCHANGED dirs
    /\ UNCHANGED <<name, tmp, prev, marker, junk, phase, created, displaced>>

\* Mutant: what could not be undone does not hold the marker back.
IncompleteIgnored == FALSE

\* Something could not be undone.
Incomplete == left

\* The marker goes only when nothing is left to report.
UndoMark ==
    /\ pc = "undo_mark"
    /\ \/ /\ ~Incomplete /\ marker' = NoMarker /\ Return("failed") /\ NoFault
       \/ /\ ~Incomplete /\ marker' \in {marker, NoMarker} /\ Return("incomplete") /\ Fault
       \/ /\ Incomplete /\ UNCHANGED marker /\ Return("incomplete") /\ NoFault
    /\ UNCHANGED <<name, tmp, prev, dirs, junk>>

-----------------------------------------------------------------------------
(* Work::finish, after a complete swap *)

\* Removing the marker commits the restore.  The disjuncts that fail are the
\* fsync or the unlink before it is gone, and the fsync after.
DropMarker ==
    /\ pc = "finish"
    /\ \/ /\ marker' = NoMarker /\ NoFault
          /\ Goto("drop", {f \in Files : prev[f] # Absent})
          /\ UNCHANGED <<phase, created, displaced, left>>
       \/ /\ marker' \in {marker, NoMarker} /\ Fault
          /\ Return("unfinished")
    /\ UNCHANGED <<name, tmp, prev, dirs, junk>>

\* The set-aside originals go; one that cannot be removed is only logged.
DropPrev ==
    /\ pc = "drop"
    /\ \/ \E f \in Files :
          /\ First(f, todo)
          /\ Goto("drop", todo \ {f})
          /\ UNCHANGED <<phase, created, displaced, left>>
          /\ \/ prev' = [prev EXCEPT ![f] = Absent] /\ NoFault
             \/ UNCHANGED prev /\ Fault
       \/ /\ todo = {} /\ UNCHANGED prev
          /\ \/ Return("restored") /\ NoFault
             \/ Return("unfinished") /\ Fault      \* apply_dir_meta, sync_dirs
    /\ UNCHANGED <<name, tmp, dirs, marker, junk>>

-----------------------------------------------------------------------------
(* recovery and recover: the whole plan is made first, then applied *)

HasTmp == {f \in Files : tmp[f] # "none"}
HasPrev == {f \in Files : prev[f] # Absent}
Listed == marker.listed

\* Mutant: leftovers the marker does not list are forgotten.
RollbackPlanListedOnly ==
    LET swapped == {f \in (Listed \cap HasPrev) \ HasTmp : prev[f] # name[f]} IN
    [action |-> "rollback", install |-> {},
     dropTmp |-> HasTmp \cap Listed, putBack |-> swapped,
     dropPrev |-> (HasPrev \cap Listed) \ swapped,
     chmod |-> {}, rmdirs |-> marker.created, junk |-> junk]

\* Mutant: the directories the restore made are forgotten.
RollbackPlanNoRmdir ==
    LET swapped == {f \in (Listed \cap HasPrev) \ HasTmp : prev[f] # name[f]} IN
    [action |-> "rollback", install |-> {},
     dropTmp |-> HasTmp, putBack |-> swapped, dropPrev |-> HasPrev \ swapped,
     chmod |-> {}, rmdirs |-> {}, junk |-> junk]

\* Mutant: a set-aside original is taken for a second link to what is in place.
RollbackPlanNoPutBack ==
    [action |-> "rollback", install |-> {},
     dropTmp |-> HasTmp, putBack |-> {}, dropPrev |-> HasPrev,
     chmod |-> {}, rmdirs |-> marker.created, junk |-> junk]

\* A listed file whose temp file is left was never swapped; one whose temp file
\* is gone was, unless its original is back already (the same inode).  An
\* unlisted leftover is removed, whichever it is.
RollbackPlan ==
    LET swapped == {f \in (Listed \cap HasPrev) \ HasTmp : prev[f] # name[f]} IN
    [action |-> "rollback", install |-> {},
     dropTmp |-> HasTmp, putBack |-> swapped, dropPrev |-> HasPrev \ swapped,
     chmod |-> {}, rmdirs |-> marker.created, junk |-> junk]

\* The directories whose mode is not the backup's, or cannot be read.  Modes are not
\* modelled, so these are all of the manifest's here.
ChmodSteps == Dirs

FinishPlan ==
    [action |-> "finish", install |-> Listed \cap HasTmp,
     dropTmp |-> HasTmp \ Listed, putBack |-> {}, dropPrev |-> HasPrev,
     chmod |-> ChmodSteps, rmdirs |-> {}, junk |-> junk]

\* Only a marker that says swapping leaves the operator a choice.
MayTry(action) ==
    OperatorMaySwitch \/ marker.phase # "swapping" \/ tried \subseteq {action}

StartRecover(p) ==
    /\ pc = "idle" /\ Leftovers /\ MayTry(p.action)
    /\ pc' = "recover" /\ plan' = p
    /\ tried' = tried \cup {p.action}
    /\ reply' = "none" /\ NoFault
    /\ UNCHANGED <<disk, phase, created, displaced, left, todo, base, baseDirs, run>>

StartRollback == StartRecover(RollbackPlan)

\* Mutant: the marker's phase is not checked.
FinishableAnyPhase == marker.phase # "none"

\* Only a restore that had reached the swap, and is not rolling back.
Finishable == marker.phase = "swapping"

\* Refused for a marker that is staging or rolling back.  (Without a marker it
\* makes the steps of a rollback, and is not told apart from one here.)  Every
\* staged file is hashed before anything changes.
StartFinish ==
    /\ Finishable
    /\ \A f \in FinishPlan.install : tmp[f] = "full"
    /\ StartRecover(FinishPlan)

FileSteps == plan.install \cup plan.dropTmp \cup plan.putBack \cup plan.dropPrev

\* The next planned steps keep the order of the files; for one file its temp
\* file or its original is dealt with before dropPrev.
At(f) == pc = "recover" /\ First(f, FileSteps)

Applied(field, x) ==
    /\ plan' = [plan EXCEPT ![field] = @ \ {x}]
    /\ pc' = "recover"
    /\ UNCHANGED <<phase, created, displaced, left, todo, past, reply>>

\* Op::Install: copy the checked bytes to a file of its own, rename that into
\* place, then remove the staged copy.
InstallCopy ==
    \E f \in Files :
    /\ At(f) /\ f \in plan.install
    /\ junk' = junk \cup {f} /\ pc' = "install" /\ NoFault
    /\ UNCHANGED <<name, tmp, prev, dirs, marker, phase, created, displaced, left,
                   todo, plan, past, reply>>

InstallRename ==
    \E f \in Files :
    /\ pc = "install" /\ First(f, FileSteps)
    /\ \/ /\ name' = [name EXCEPT ![f] = Staged(f)]
          /\ junk' = junk \ {f} /\ pc' = "installed" /\ NoFault
          /\ UNCHANGED <<phase, created, displaced, left, todo, plan, past, reply>>
       \/ /\ junk' \in {junk, junk \ {f}} /\ Fault
          /\ Return("recover_failed")
          /\ UNCHANGED name
    /\ UNCHANGED <<tmp, prev, dirs, marker>>

InstallDropTmp ==
    \E f \in Files :
    /\ pc = "installed" /\ First(f, FileSteps)
    /\ tmp' = [tmp EXCEPT ![f] = "none"]
    /\ Applied("install", f) /\ NoFault
    /\ UNCHANGED <<name, prev, dirs, marker, junk>>

RecoverDropTmp ==
    \E f \in Files :
    /\ At(f) /\ f \in plan.dropTmp
    /\ tmp' = [tmp EXCEPT ![f] = "none"]
    /\ Applied("dropTmp", f) /\ NoFault
    /\ UNCHANGED <<name, prev, dirs, marker, junk>>

RecoverPutBack ==
    \E f \in Files :
    /\ At(f) /\ f \in plan.putBack
    /\ name' = [name EXCEPT ![f] = prev[f]]
    /\ prev' = [prev EXCEPT ![f] = Absent]
    /\ Applied("putBack", f) /\ NoFault
    /\ UNCHANGED <<tmp, dirs, marker, junk>>

RecoverDropPrev ==
    \E f \in Files :
    /\ At(f) /\ f \in plan.dropPrev
    /\ f \notin plan.install \cup plan.dropTmp
    /\ prev' = [prev EXCEPT ![f] = Absent]
    /\ Applied("dropPrev", f) /\ NoFault
    /\ UNCHANGED <<name, tmp, dirs, marker, junk>>

\* Op::Chmod: a directory that is gone cannot be opened (its mode could not be read
\* when the plan was made, so there is a step for it).
RecoverChmod ==
    /\ pc = "recover" /\ FileSteps = {}
    /\ \E d \in Dirs :
          /\ First(d, plan.chmod)
          /\ IF d \in dirs THEN Applied("chmod", d) ELSE Return("recover_failed")
    /\ NoFault /\ UNCHANGED disk

\* Op::Rmdir: one already gone is fine, one that holds something is an error,
\* and so is one whose parent directory cannot be opened.
RecoverRmdir ==
    /\ pc = "recover" /\ FileSteps = {}
    /\ \E d \in Dirs : Last(d, plan.rmdirs) /\
       \/ /\ ParentPresent(d) /\ (d \in dirs => Empty(d))
          /\ dirs' = dirs \ {d}
          /\ Applied("rmdirs", d)
       \/ /\ ~(ParentPresent(d) /\ (d \in dirs => Empty(d)))
          /\ UNCHANGED dirs
          /\ Return("recover_failed")
    /\ NoFault
    /\ UNCHANGED <<name, tmp, prev, marker, junk>>

FilesAndDirsDone ==
    pc = "recover" /\ FileSteps = {} /\ plan.chmod = {} /\ plan.rmdirs = {}

\* Mutant: the marker goes before the files are settled.
RecoverUnmarkFirst ==
    /\ pc = "recover" /\ marker # NoMarker
    /\ marker' = NoMarker /\ NoFault
    /\ UNCHANGED <<name, tmp, prev, dirs, junk, work, past, reply>>

RecoverUnmark ==
    /\ FilesAndDirsDone /\ marker # NoMarker
    /\ marker' = NoMarker /\ NoFault
    /\ UNCHANGED <<name, tmp, prev, dirs, junk, work, past, reply>>

RecoverDropJunk ==
    /\ FilesAndDirsDone /\ marker = NoMarker
    /\ \E x \in plan.junk : First(x, plan.junk) /\ junk' = junk \ {x} /\ Applied("junk", x)
    /\ NoFault
    /\ UNCHANGED <<name, tmp, prev, dirs, marker>>

\* The last step fsyncs; a finish then verifies every file against the backup
\* and reports a failure if one differs.
RecoverReturn ==
    /\ FilesAndDirsDone /\ marker = NoMarker /\ plan.junk = {}
    /\ \/ /\ plan.action = "rollback" /\ Return("rolled_back") /\ NoFault
       \/ /\ plan.action = "finish" /\ NoFault
          /\ Return(IF \A f \in Files : name[f] = run THEN "finished" ELSE "recover_failed")
       \/ Return("recover_failed") /\ Fault
    /\ UNCHANGED disk

\* Any planned step may fail; what was done stays done.
RecoverFails ==
    /\ pc \in {"recover", "installed"}
    /\ ~(FilesAndDirsDone /\ marker = NoMarker /\ plan.junk = {})
    /\ Return("recover_failed") /\ Fault
    /\ UNCHANGED disk

-----------------------------------------------------------------------------

\* The process dies between two calls.
Crash ==
    /\ pc # "idle" /\ Return("none") /\ Fault
    /\ UNCHANGED disk

Materialize == CreateNext \/ RenameNext \/ MakeDirs \/ Stage \/ SetAside \/ Swap \/ PutBack
Undo == UndoTmp \/ UndoPrev \/ UndoDirs \/ UndoMark
Finish == DropMarker \/ DropPrev
ApplyPlan ==
    \/ InstallCopy \/ InstallRename \/ InstallDropTmp
    \/ RecoverDropTmp \/ RecoverPutBack \/ RecoverDropPrev
    \/ RecoverChmod \/ RecoverRmdir \/ RecoverUnmark \/ RecoverDropJunk \/ RecoverReturn \/ RecoverFails

Next ==
    \/ Begin \/ Materialize \/ Undo \/ Finish
    \/ StartRollback \/ StartFinish \/ ApplyPlan \/ Crash

Spec == Init /\ [][Next]_vars

\* A call that runs goes on, and an operator keeps at an interrupted restore.
FairSpec ==
    /\ Spec
    /\ WF_vars(Materialize \/ Undo \/ Finish \/ ApplyPlan)
    /\ WF_vars(StartRollback \/ StartFinish)

-----------------------------------------------------------------------------
(* Properties *)

AllOld == \A f \in Files : base[f] # Absent => name[f] = base[f]
AllNew == \A f \in Files : name[f] = run
OriginalAt(f) == base[f] \in {name[f], prev[f]}

DiskTypeOK ==
    /\ name \in [Files -> Versions \cup {Absent, Torn}]
    /\ tmp \in [Files -> {"none", "partial", "full"}]
    /\ prev \in [Files -> Versions \cup {Absent, Torn}]
    /\ dirs \subseteq Dirs
    /\ marker \in [phase : Phases \cup {"none"}, listed : SUBSET Files, created : SUBSET Dirs]
    /\ junk \subseteq 0..NFiles

WorkTypeOK ==
    /\ pc \in {"idle", "mark", "land", "dirs", "stage", "aside", "swap", "put_back",
               "undo_tmp", "undo_prev", "undo_dirs", "undo_mark", "finish", "drop",
               "recover", "install", "installed"}
    /\ phase \in Phases
    /\ created \subseteq Dirs /\ displaced \subseteq Files
    /\ todo \subseteq Files \cup Dirs
    /\ left \in BOOLEAN

PlanTypeOK ==
    plan \in [action : {"none", "rollback", "finish"}, install : SUBSET Files,
              dropTmp : SUBSET Files, putBack : SUBSET Files, dropPrev : SUBSET Files,
              chmod : SUBSET Dirs, rmdirs : SUBSET Dirs, junk : SUBSET (0..NFiles)]

PastTypeOK ==
    /\ base \in [Files -> Versions \cup {Absent, Torn}]
    /\ baseDirs \subseteq Dirs
    /\ run \in Versions
    /\ tried \subseteq {"rollback", "finish"}
    /\ reply \in {"none", "restored", "failed", "incomplete", "stranded", "unfinished",
                  "rolled_back", "finished", "recover_failed"}

\* Every variable keeps its type.
TypeOK == DiskTypeOK /\ WorkTypeOK /\ PlanTypeOK /\ PastTypeOK /\ faults \in 0..MaxFaults

\* A live file holds its original or the restored bytes, whole: it is never
\* missing while it had an original, and never the half-written staged copy,
\* wherever a call fails or the process dies.
OldOrNew == \A f \in Files : name[f] \in {base[f], run}

\* While the marker is there and no finish was begun, every original can still
\* be reached, under its own name or under the name it was set aside as, so a
\* rollback can put it back: swap, put_back, undo and every rollback, however
\* often interrupted, drop a link to an original only when the other is in place.
OriginalsKept ==
    marker.phase # "none" /\ "finish" \notin tried =>
        \A f \in Files : base[f] # Absent => OriginalAt(f)

\* Whenever there is no marker the config is one config: every original is in
\* place, or every file is the restored one.  Whoever sees no marker (the next
\* restore, or PBS once it is started) never sees a mixture.
WholeConfig == marker.phase = "none" => AllOld \/ AllNew

\* What a call reports is so: "restored" and "finished" mean every file is the
\* backup's; an error without "rollback incomplete" means that nothing changed,
\* created directories included, and that nothing is left but, at most, the .next of a
\* marker that could neither be written nor discarded (which refuses the next restore
\* until it is settled); a rollback leaves no directory the restore made.
ReplyIsTrue ==
    /\ reply \in {"restored", "finished"} => AllNew /\ marker.phase = "none"
    /\ reply = "failed" =>
          /\ name = base /\ dirs = baseDirs /\ marker.phase = "none"
          /\ HasTmp = {} /\ HasPrev = {} /\ junk \subseteq {NextMarker}
    /\ reply = "rolled_back" => ~Leftovers /\ (AllNew \/ (AllOld /\ dirs = baseDirs))

\* An interrupted restore whose marker says swapping can be finished as long as
\* no rollback of it was begun: each file is replaced or its staged copy is whole.
FinishStillPossible ==
    pc = "idle" /\ marker.phase = "swapping" /\ "rollback" \notin tried =>
        \A f \in Files : name[f] = run \/ tmp[f] = "full"

\* Once the marker records a rollback no further file is replaced, by swap or by
\* a finish.
RollingBackOnlyPutsBack ==
    [][marker.phase = "rolling_back" =>
         \A f \in Files : name'[f] = run => name[f] = run]_vars

\* However a restore is cut off, its files are settled in the end: the temp files
\* and set-aside originals are gone and the config is whole.
FilesSettle == Leftovers ~> (HasTmp = {} /\ HasPrev = {} /\ (AllOld \/ AllNew))

\* The configuration is what the files hold, but until the marker is gone it is
\* what it was: removing the marker is what commits or aborts.
Atomic == INSTANCE AtomicRestore
    WITH config <- IF marker.phase = "none" THEN name ELSE base, attempt <- run

\* A restore with its failures, crashes and recoveries replaces the configuration
\* as a whole or keeps its originals.
RefinesAtomic == Atomic!Spec

-----------------------------------------------------------------------------
(* What the code's comments and the README say, and the code does not do *)

\* "A marker in Phase::Swapping can be finished (staged files moved into place)
\* or rolled back (originals put back)."
SwappingCanFinish ==
    pc = "idle" /\ marker.phase = "swapping" =>
        \A f \in Files : name[f] = run \/ tmp[f] = "full"

\* "rollback puts the originals back": a rollback that reports success leaves the
\* originals, unless the restore had been completed.
RollbackPutsOriginalsBack == reply = "rolled_back" => AllOld \/ AllNew

\* "settle it with pbs.config_recover": an interrupted restore is settled in the
\* end if the operator keeps at it and calls stop failing.
Settles == Leftovers ~> ~Leftovers
=============================================================================
