---------------------------- MODULE RestoreInv ----------------------------
(***************************************************************************)
(* The inductive invariant of Restore: what holds at each point of a       *)
(* restore and of a recovery, and what a crash there leaves on disk.       *)
(***************************************************************************)
EXTENDS Restore

UndoPcs == {"undo_tmp", "undo_prev", "undo_dirs", "undo_mark"}
RestorePcs == UndoPcs \cup {"mark", "land", "dirs", "stage", "aside", "swap", "put_back",
                            "finish", "drop"}
RecoverPcs == {"recover", "install", "installed"}

Marking(p) == pc \in {"mark", "land"} /\ phase = p

\* No file has been replaced yet.
Preparing ==
    pc \in {"dirs", "stage", "aside"} \/ Marking("staging") \/ Marking("swapping")

\* A marker that says swapping is durable before the restore acts on it or on its
\* failure.
Durable == "swapping" \notin UnsyncedMarkers

\* And the operator keeps to one action.
Steady == ~OperatorMaySwitch /\ Durable

\* A set-aside file is the original.
PrevOld == \A f \in Files : prev[f] \in {Absent, base[f]}

MarkerShape ==
    /\ marker.phase = "none" => marker = NoMarker
    /\ marker.phase = "staging" => marker.listed = {}
    /\ marker.phase \in {"swapping", "rolling_back"} => marker.listed = Files

\* What the running call remembers belongs to where it is.
Memory ==
    /\ pc \in RestorePcs => tried = {}
    /\ pc \in RecoverPcs => plan.action \in tried
    /\ pc \notin RestorePcs => phase = "staging" /\ displaced = {}
    /\ pc \in {"dirs", "stage", "aside"} => phase = "staging"
    /\ pc \in {"swap", "finish", "drop"} => phase = "swapping"
    /\ pc = "put_back" => phase = "rolling_back"

PreparingInv ==
    /\ Preparing => name = base /\ displaced = {} /\ marker.phase \in {"none", "staging"}
    /\ pc = "stage" => \A f \in Files \ todo : tmp[f] = "full"
    /\ pc = "aside" => /\ \A f \in Files : tmp[f] = "full"
                       /\ \A f \in Files \ todo : prev[f] = base[f]
    /\ Marking("swapping") => \A f \in Files : tmp[f] = "full" /\ prev[f] = base[f]

SwappingInv ==
    /\ pc = "swap" =>
         /\ marker.phase = "swapping" /\ displaced = Files \ todo
         /\ \A f \in Files : prev[f] = base[f]
         /\ \A f \in displaced : name[f] = run
         /\ \A f \in Files \ displaced : tmp[f] = "full" /\ name[f] = base[f]
    /\ pc = "finish" => AllNew /\ marker.phase = "swapping"
    /\ pc = "drop" => AllNew /\ marker.phase = "none"

\* Files out of place are known to be, and their originals are set aside.
PuttingBackInv ==
    /\ Marking("rolling_back") => marker.phase = "swapping" /\ todo = displaced
    /\ pc = "put_back" => /\ marker.phase = "rolling_back" /\ todo \subseteq displaced
                          /\ displaced \ todo # {} => left
    /\ pc = "put_back" \/ Marking("rolling_back") =>
         \A f \in todo : prev[f] = base[f]
    /\ pc \in UndoPcs => (displaced # {} => left)
    /\ pc = "put_back" \/ Marking("rolling_back") \/ pc \in UndoPcs =>
         /\ \A f \in Files \ displaced : name[f] = base[f]
         /\ \A f \in displaced : base[f] # Absent => prev[f] = base[f]

\* What a rollback needs of the disk, until a finish is begun.
Kept ==
    marker.phase # "none" =>
      /\ "finish" \notin tried =>
           /\ \A f \in Files : base[f] # Absent => OriginalAt(f)
           /\ \A f \in Files : tmp[f] # "none" => name[f] = base[f]
           /\ marker.phase = "staging" => name = base
      /\ "finish" \in tried => marker.phase = "swapping"

RollbackInv ==
    pc \in RecoverPcs /\ plan.action = "rollback" =>
      /\ pc = "recover" /\ plan.install = {} /\ plan.chmod = {}
      /\ plan.putBack \cap plan.dropPrev = {}
      /\ \A f \in plan.putBack : prev[f] = base[f] /\ base[f] # Absent
      /\ marker.phase # "none" /\ "finish" \notin tried =>
           /\ \A f \in plan.dropPrev : name[f] = base[f]
           /\ \A f \in Files : base[f] # Absent => name[f] = base[f] \/ f \in plan.putBack

FinishInv ==
    /\ pc \in RecoverPcs /\ plan.action = "finish" =>
         /\ plan.putBack = {} /\ plan.dropTmp = {}
         /\ \A f \in plan.install : tmp[f] = "full"
    /\ pc \in RecoverPcs => plan.action \in {"rollback", "finish"}
    /\ pc \in RecoverPcs /\ marker.phase = "none" =>
          plan.install = {} /\ plan.putBack = {} /\ plan.chmod = {}
    /\ pc \in {"install", "installed"} =>
         \E f \in plan.install : First(f, FileSteps) /\ (pc = "installed" => name[f] = run)

\* Whoever never finishes a restore gets it or its originals, whole, even if markers
\* are not durable.
SettledInv == marker.phase = "none" /\ "finish" \notin tried => AllOld \/ AllNew

\* With a durable marker a restore that says swapping is held by a crash or a failed
\* swap, never by an undo, and a finish that no rollback came before installs the rest.
DurableInv ==
    Durable =>
      /\ pc \in UndoPcs => marker.phase # "swapping"
      /\ "rollback" \notin tried =>
           /\ marker.phase = "swapping" => \A f \in Files : name[f] = run \/ tmp[f] = "full"
           /\ pc \in RecoverPcs => \A f \in Files : name[f] = run \/ f \in plan.install
           /\ marker.phase = "none" /\ "finish" \in tried => AllNew

\* With a steady operator as well.
SteadyInv ==
    Steady =>
      /\ marker.phase = "swapping" => "rollback" \notin tried \/ "finish" \notin tried
      /\ marker.phase = "none" /\ "finish" \in tried => AllNew

\* The inductive invariant.
IInv ==
    /\ TypeOK /\ OldOrNew /\ PrevOld /\ MarkerShape /\ Memory
    /\ PreparingInv /\ SwappingInv /\ PuttingBackInv
    /\ Kept /\ RollbackInv /\ FinishInv
    /\ SettledInv /\ DurableInv /\ SteadyInv

-----------------------------------------------------------------------------
(* What the replies rest on: nothing of the restore is left when it says so. *)

\* What an undo has visited is gone, unless it has something to report; the one
\* leftover without a tag that a restore makes is the marker's.
UndoneInv ==
    /\ pc \in RestorePcs => junk \subseteq {NextMarker}
    /\ pc \in {"undo_tmp", "undo_prev"} => left \/
          \A f \in Files \ todo : tmp[f] = "none" /\ prev[f] = Absent
    /\ pc = "undo_prev" => left \/ \A f \in Files : First(f, todo) => tmp[f] = "none"
    /\ pc \in {"undo_dirs", "undo_mark"} => left \/
          \A f \in Files : tmp[f] = "none" /\ prev[f] = Absent

\* A directory is one of the manifest's that was there, or is recorded as created.
CreatedInv ==
    /\ marker.created \cap baseDirs = {}
    /\ (marker.phase = "none" /\ (AllNew \/ "finish" \in tried)) \/
          (baseDirs \subseteq dirs /\ dirs \subseteq baseDirs \cup marker.created)
    /\ pc \notin RestorePcs => created = {}
    /\ pc \in RestorePcs =>
          /\ created \cap baseDirs = {}
          /\ baseDirs \subseteq dirs /\ dirs \subseteq baseDirs \cup created
    /\ pc = "dirs" => marker.phase = "staging" /\ created \subseteq marker.created
    /\ pc = "undo_dirs" => /\ todo \subseteq created
                           /\ left \/ dirs \subseteq baseDirs \cup todo
    /\ pc = "undo_mark" => left \/ dirs \subseteq baseDirs

\* A rollback's plan holds all that is left of the restore.
PlannedInv ==
    /\ pc \in RecoverPcs /\ plan.action = "rollback" =>
          /\ \A f \in Files : tmp[f] # "none" => f \in plan.dropTmp
          /\ \A f \in Files : prev[f] # Absent => f \in plan.putBack \cup plan.dropPrev
          /\ junk \subseteq plan.junk
          /\ plan.rmdirs \subseteq marker.created
          /\ dirs \cap marker.created \subseteq plan.rmdirs
    /\ pc \in RecoverPcs /\ plan.action = "finish" => plan.rmdirs = {}

\* What the replies say is so, a rollback's as long as no finish was begun before it.
ReportIsTrue ==
    /\ reply \in {"restored", "finished"} => AllNew /\ marker.phase = "none"
    /\ reply = "failed" =>
          /\ name = base /\ dirs = baseDirs /\ marker.phase = "none"
          /\ HasTmp = {} /\ HasPrev = {} /\ junk \subseteq {NextMarker}
    /\ reply = "rolled_back" =>
          /\ ~Leftovers
          /\ "finish" \in tried \/ AllNew \/ (AllOld /\ dirs = baseDirs)

\* With IInv it is inductive.
ReplyInv ==
    /\ UndoneInv /\ CreatedInv /\ PlannedInv
    /\ reply # "none" => pc = "idle"
    /\ ReportIsTrue

\* What a restore installs was there in no file when it began.
FreshInv ==
    /\ \A f \in Files : base[f] <= run
    /\ (\A f \in Files : base[f] < run) \/ (pc = "idle" /\ ~Leftovers)

-----------------------------------------------------------------------------
(* When a call fails though nothing below it does. *)

\* Once they are made every directory of the manifest is there, until one is removed.
AllDirsInv ==
    /\ pc \in {"stage", "aside", "swap", "finish"} \/ Marking("swapping") => dirs = Dirs
    /\ Durable /\ marker.phase = "swapping" /\ "rollback" \notin tried => dirs = Dirs

\* What is there is in a directory that is there, and what was there was.
TreeInv ==
    /\ \A d \in dirs : ParentPresent(d)
    /\ \A f \in Files :
          name[f] # Absent \/ tmp[f] # "none" \/ prev[f] # Absent \/ f \in junk => InDir(f, dirs)
    /\ \A d \in baseDirs : Parent[d] = 0 \/ Parent[d] \in baseDirs
    /\ \A f \in Files : base[f] # Absent => InDir(f, baseDirs)
    /\ junk \cap Files # {} => "finish" \in tried

\* A directory that a rollback cannot remove: an earlier rollback has removed its parent,
\* the restore has added a file in it, which a rollback leaves, or an earlier finish has
\* left a copy in it, which a rollback removes only afterwards.
Blocked(d) ==
    \/ ~ParentPresent(d)
    \/ \E f \in Files :
          /\ DirOf[f] = d
          /\ (base[f] = Absent /\ name[f] = run) \/ (f \in junk /\ "finish" \in tried)

\* A recovery that has begun fails only because a call does, because the rollback meets
\* such a directory, or because the finish comes after a rollback: it finds a directory
\* gone and keeps the marker, or has removed the marker and then finds files that are not
\* the restored ones.
RecoveryFailsOnlyFor ==
    [][pc # "idle" /\ reply' = "recover_failed" /\ faults' = faults =>
         \/ plan.action = "rollback" /\ \E d \in plan.rmdirs : Blocked(d)
         \/ /\ plan.action = "finish" /\ (Durable => "rollback" \in tried)
            /\ IF marker = NoMarker THEN \E f \in Files : name[f] # run ELSE dirs # Dirs]_vars

\* A restore before any failure.
CleanInv ==
    faults = 0 =>
      /\ pc \in {"idle", "mark", "land", "dirs", "stage", "aside", "swap", "finish", "drop"}
      /\ phase # "rolling_back" /\ reply \in {"none", "restored"}
      /\ pc = "idle" => ~Leftovers
      /\ junk = IF pc = "land" THEN {NextMarker} ELSE {}
      /\ pc = "swap" => HasTmp \subseteq todo
      /\ pc \in {"finish", "drop"} => HasTmp = {}
      /\ pc = "drop" => marker.phase = "none" /\ HasPrev \subseteq todo

\* As long as no call fails and nothing dies, each restore succeeds.
NothingFailsOfItself == faults = 0 => reply \in {"none", "restored"}

-----------------------------------------------------------------------------
(* Why no call runs for ever: where it is, what its loop has still to do there, and *)
(* for one of these, the steps it takes.                                            *)

\* The calls a restore makes, by how many kinds of them come after; the marker is
\* written at three of them.  A recovery has one loop.
AheadAt(p, ph) ==
    CASE p = "dirs" -> 12 [] p = "stage" -> 11 [] p = "aside" -> 10
      [] p = "swap" -> 8 [] p = "put_back" -> 6 [] p \in {"undo_tmp", "undo_prev"} -> 5
      [] p = "undo_dirs" -> 4 [] p = "undo_mark" -> 3 [] p = "finish" -> 2
      [] p = "drop" \/ p \in RecoverPcs -> 1
      [] p \in {"mark", "land"} /\ ph = "staging" -> 12
      [] p \in {"mark", "land"} /\ ph = "swapping" -> 9
      [] p \in {"mark", "land"} /\ ph = "rolling_back" -> 7
Ahead == AheadAt(pc, phase)

\* A directory is recorded and made, a staged copy created and filled, anything else
\* visited once.
DirWork == ((Dirs \ created) \X {"record"}) \cup ((Dirs \ dirs) \X {"make"})
StageWork == ({f \in Files : tmp[f] = "none"} \X {"create"}) \cup (todo \X {"fill"})
PlanWork ==
    (plan.install \X {"install"}) \cup (plan.dropTmp \X {"drop copy"})
    \cup (plan.putBack \X {"put back"}) \cup (plan.dropPrev \X {"drop original"})
    \cup (plan.chmod \X {"chmod"}) \cup (plan.rmdirs \X {"remove"}) \cup (plan.junk \X {"junk"})
    \cup (IF marker = NoMarker THEN {} ELSE {<<0, "unmark">>})
ToDo ==
    IF Ahead = 12 THEN DirWork
    ELSE IF Ahead = 11 THEN StageWork
    ELSE IF pc \in RecoverPcs THEN PlanWork
    ELSE todo

Within ==
    IF pc \in {"mark", "recover"} THEN 2
    ELSE IF pc \in {"land", "undo_tmp", "install"} THEN 1 ELSE 0

Closer ==
    \/ Ahead' < Ahead
    \/ Ahead' = Ahead /\ ToDo' \subseteq ToDo /\ ToDo' # ToDo
    \/ Ahead' = Ahead /\ ToDo' = ToDo /\ Within' < Within

\* No restore and no recovery runs for ever: each step it takes brings it closer to
\* its end, or it ends.
CallsEnd == [][pc # "idle" => pc' = "idle" \/ Closer]_vars
=============================================================================
