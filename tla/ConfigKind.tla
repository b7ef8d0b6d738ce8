---------------------------- MODULE ConfigKind ----------------------------
(***************************************************************************)
(* The pbs-config backup kind as a whole (src/config_backup.rs:            *)
(* PbsConfigKind, verified_manifest, verify, volume_users, config_restore):*)
(* a backup is taken into the store, may rot there, and is restored onto   *)
(* the live volume, or into a scratch directory, while containers that     *)
(* mount the volume come and go.  The capture itself is modelled in        *)
(* Capture and the replacement of the files in Restore; here a capture is  *)
(* one step and a replacement one step for each file; one that fails puts  *)
(* the originals back, and one that is cut off leaves a marker, which a    *)
(* finish (config_recover) may complete from.                              *)
(*                                                                         *)
(* A content stands for a file's bytes, its owner and its mode; it is the  *)
(* number of the edit that made it, 0 is a file that is not there (or not  *)
(* listed), and a checksum is what it is a checksum of.                    *)
(***************************************************************************)
EXTENDS Integers, FiniteSets

CONSTANTS
    Files, Required,    \* the files, and those a config cannot be without
    Containers,
    Mounts,             \* how a container mounts the volume: "name", "path", "no"
    None, Rot,          \* no value; a value that has rotted
    MaxCalls, MaxEvents \* bounds: verbs; what containers, disks and others do

Contents == 0 .. MaxEvents + 2
Trees == [Files -> Contents \cup {Rot}]
NoTree == [f \in Files |-> 0]

\* A backup in the store: its files, its manifest (the checksum of each file it
\* lists) and the checksum of the manifest, which orca's record of the backup holds.
Slots == [files : Trees, manifest : Trees \cup {Rot}, checksum : Trees \cup {None}]
NoSlot == [files |-> NoTree, manifest |-> NoTree, checksum |-> None]
BackupOf(tree) == [files |-> tree, manifest |-> tree, checksum |-> tree]

\* What an interrupted restore leaves: the manifest it wrote from, and the files not yet
\* replaced, whose staged copies are there.
Markers == [manifest : Trees, left : (SUBSET Files) \ {{}}]

\* The scratch directory, and who has made it.
Dests == [by : {"orca", "other"}, files : Trees]

ASSUME ConfigKindAssumption ==
    /\ Required \subseteq Files /\ Required # {}
    /\ Mounts \in [Containers -> {"name", "path", "no"}]
    /\ MaxCalls \in Nat /\ MaxEvents \in Nat
    /\ None # Rot /\ {None, Rot} \cap Nat = {}
    /\ None \notin Trees \cup Markers \cup Dests

VARIABLES
    live,       \* the files of the live volume
    slot,       \* the backup in the store
    marker,     \* of an interrupted restore in the live volume, or None
    dest,       \* the scratch directory, or None
    \* containers, and docker's files on them
    exists, running, readable,
    \* the verb
    pc, verb,
    stage,      \* the backup being made
    manifest,   \* the manifest that was verified
    todo,       \* containers still to look at, or files still to replace
    before,     \* the live files when the replacement began
    reply, calls, events,
    \* for stating properties
    captured,   \* what the backup in the store was made of
    stale,      \* containers that have loaded what was there before the files were all replaced
    swapped,    \* the call has replaced all files
    touched     \* live files edited while the restored ones were being verified

world == <<live, slot, marker, dest, exists, running, readable>>
call == <<pc, verb, stage, manifest, todo, before, reply, calls>>
ghosts == <<captured, stale, swapped, touched>>
vars == <<world, call, events, ghosts>>

Init ==
    /\ live = [f \in Files |-> 2]
    /\ captured = [f \in Files |-> 1] /\ slot = BackupOf(captured)
    /\ marker = None /\ dest = None
    /\ exists \in SUBSET Containers /\ running \in SUBSET exists
    /\ readable = Containers
    /\ pc = "idle" /\ verb = "none" /\ stage = NoSlot /\ manifest = NoTree
    /\ todo = {} /\ before = NoTree /\ reply = "none" /\ calls = 0 /\ events = 0
    /\ stale = {} /\ swapped = FALSE /\ touched = {}

-----------------------------------------------------------------------------
(* Containers, disks and other processes *)

Event == events < MaxEvents /\ events' = events + 1

Users == {c \in running : Mounts[c] # "no"}

\* A container that starts loads the configuration as it is; docker's file says so.
Start(c) ==
    /\ Event /\ c \notin running
    /\ exists' = exists \cup {c} /\ running' = running \cup {c}
    /\ stale' = IF Mounts[c] # "no" /\ ~swapped THEN stale \cup {c} ELSE stale
    /\ UNCHANGED <<live, slot, marker, dest, readable, captured, touched>>

Stop(c) ==
    /\ Event /\ c \in running
    /\ running' = running \ {c} /\ stale' = stale \ {c}
    /\ UNCHANGED <<live, slot, marker, dest, exists, readable, captured, touched>>

\* Docker is rewriting its file, or has left it broken.
StateFile(c) ==
    /\ Event /\ c \in exists
    /\ readable' = IF c \in readable THEN readable \ {c} ELSE readable \cup {c}
    /\ UNCHANGED <<live, slot, marker, dest, exists, running, captured, stale, touched>>

\* A container on the volume writes a file, or removes it.
Edit(f) ==
    /\ Event /\ Users # {}
    /\ \E new \in {0, events + 3} : live' = [live EXCEPT ![f] = new]
    /\ touched' = IF pc = "verify" THEN touched \cup {f} ELSE touched
    /\ UNCHANGED <<slot, marker, dest, exists, running, readable, captured, stale>>

\* Corruption, in the store: a file, the manifest (which may still read as one that
\* lists less), or the record.
Rots(s) ==
    {[s EXCEPT !.files[f] = Rot] : f \in {g \in Files : s.files[g] # 0}}
    \cup {[s EXCEPT !.manifest = Rot]}
    \cup (IF s.manifest = Rot THEN {}
          ELSE {[s EXCEPT !.manifest = [s.manifest EXCEPT ![f] = 0]] : f \in Files})
    \cup {[s EXCEPT !.checksum = None]}

Corruption ==
    /\ Event
    /\ slot' \in Rots(slot)
    /\ UNCHANGED <<live, marker, dest, exists, running, readable, captured, stale, touched>>

\* Somebody makes the scratch directory.
Squat ==
    /\ Event /\ dest = None /\ dest' = [by |-> "other", files |-> NoTree]
    /\ UNCHANGED <<live, slot, marker, exists, running, readable, captured, stale, touched>>

Events ==
    /\ \/ \E c \in Containers : Start(c) \/ Stop(c) \/ StateFile(c)
       \/ \E f \in Files : Edit(f)
       \/ Corruption \/ Squat
    /\ UNCHANGED <<call, swapped>>

-----------------------------------------------------------------------------
(* Checks *)

missing_required(m) == {f \in Required : m[f] = 0}

\* verify: every listed file is there with its checksum, and no required one is
\* missing from the list.
Verifies(tree, m) ==
    /\ \A f \in Files : m[f] # 0 => tree[f] = m[f]
    /\ missing_required(m) = {}

\* Mutant: any manifest that can be read will do.
ReadsManifest(s) == s.manifest # Rot

\* Mutant: whatever the manifest is, once there is a record.
NoChecksum(s) == s.checksum # None

\* verified_manifest: it hashes to the checksum in the record, and parses.
verified_manifest(s) == s.checksum # None /\ s.manifest # Rot /\ s.checksum = s.manifest

\* Mutant: a mount of the volume's directory is no use of the volume.
UsesByName(c) == Mounts[c] = "name"

\* The volume by its name, or by its path.
Uses(c) == Mounts[c] \in {"name", "path"}

\* volume_users, of one container: a file that cannot be read counts as in use.
InUse(c) == c \notin readable \/ (c \in running /\ Uses(c))

Goes(where) == pc' = where /\ UNCHANGED reply
Ends(r) == pc' = "idle" /\ reply' = r

Listed(m) == {f \in Files : m[f] # 0}

\* What there is to do once no container is left to look at.
After(next) == IF next = "verify" THEN Listed(manifest) ELSE {}

\* ensure_stopped: docker's files are listed, then read one by one.
Look(at, next) ==
    /\ pc = at /\ todo # {}
    /\ \E c \in todo :
          IF InUse(c) THEN Ends("failed") /\ UNCHANGED todo
          ELSE IF todo = {c} THEN Goes(next) /\ todo' = After(next)
               ELSE todo' = todo \ {c} /\ UNCHANGED <<pc, reply>>
    /\ UNCHANGED <<world, verb, stage, manifest, before, calls, events, ghosts>>

ListContainers(at, looks, next) ==
    /\ pc = at
    /\ IF exists = {} THEN Goes(next) /\ todo' = After(next)
       ELSE Goes(looks) /\ todo' = exists
    /\ UNCHANGED <<world, verb, stage, manifest, before, calls, events, ghosts>>

-----------------------------------------------------------------------------
(* The verbs *)

Call(v, first) ==
    /\ pc = "idle" /\ calls < MaxCalls
    /\ calls' = calls + 1 /\ verb' = v /\ pc' = first /\ reply' = "none"
    /\ stage' = NoSlot /\ manifest' = NoTree /\ todo' = {} /\ before' = NoTree
    /\ swapped' = FALSE /\ stale' = Users /\ touched' = {}
    /\ UNCHANGED <<world, events, captured>>

\* backup_into: capture writes the files and the manifest, which are then verified
\* and locked down; orca's record takes the checksum of what was captured.
Capture ==
    /\ pc = "capture"
    /\ IF missing_required(live) # {} THEN Ends("failed") /\ UNCHANGED stage
       ELSE stage' = BackupOf(live) /\ Goes("check")
    /\ UNCHANGED <<world, verb, manifest, todo, before, calls, events, ghosts>>

\* The write of a file did not reach the disk as it was read.
BadWrite ==
    /\ pc = "check" /\ Event
    /\ \E f \in Files : stage' = [stage EXCEPT !.files[f] = Rot]
    /\ UNCHANGED <<world, pc, verb, manifest, todo, before, reply, calls, ghosts>>

CheckBackup ==
    /\ pc = "check"
    /\ IF Verifies(stage.files, stage.checksum)
       THEN Ends("ok") /\ slot' = stage /\ captured' = stage.checksum
       ELSE Ends("failed") /\ UNCHANGED <<slot, captured>>
    /\ UNCHANGED <<live, marker, dest, exists, running, readable, verb, stage, manifest, todo, before,
                   calls, events, stale, swapped, touched>>

\* restore_from and config_restore: the manifest, then every file of the backup.
ReadManifest ==
    /\ pc = "manifest"
    /\ IF verified_manifest(slot)
       THEN manifest' = slot.manifest /\ Goes("payload")
       ELSE Ends("failed") /\ UNCHANGED manifest
    /\ UNCHANGED <<world, verb, stage, todo, before, calls, events, ghosts>>

VerifyPayload ==
    /\ pc = "payload"
    /\ IF Verifies(slot.files, manifest) /\ (verb = "config_restore" => dest = None)
       THEN Goes(IF verb = "restore" THEN "stage" ELSE "mkdir")
       ELSE Ends("failed")
    /\ UNCHANGED <<world, verb, stage, manifest, todo, before, calls, events, ghosts>>

\* materialize verifies the manifest in the store once more, and it must be the one
\* verified before; the files are read again and checked against it as they are staged.
StillVerifies ==
    /\ verified_manifest(slot) /\ slot.manifest = manifest
    /\ \A f \in Listed(manifest) : slot.files[f] = manifest[f]

\* Not where another restore was interrupted.
Stage ==
    /\ pc = "stage"
    /\ IF marker = None /\ StillVerifies
       THEN Goes("swap") /\ todo' = Listed(manifest) /\ before' = live
       ELSE Ends("failed") /\ UNCHANGED <<todo, before>>
    /\ UNCHANGED <<world, verb, stage, manifest, calls, events, ghosts>>

Swap ==
    /\ pc = "swap" /\ todo # {}
    /\ \E f \in todo :
          /\ live' = [live EXCEPT ![f] = manifest[f]] /\ todo' = todo \ {f}
          /\ swapped' = (todo' = {})
          /\ IF todo' = {} THEN Goes("list again") ELSE UNCHANGED <<pc, reply>>
    /\ UNCHANGED <<slot, marker, dest, exists, running, readable, verb, stage, manifest, before, calls,
                   events, captured, stale, touched>>

\* A failure half way, and the originals of the files already replaced are put back.
SwapFails ==
    /\ pc = "swap" /\ Event
    /\ live' = [f \in Files |-> IF f \in Listed(manifest) \ todo THEN before[f] ELSE live[f]]
    /\ Ends("failed")
    /\ UNCHANGED <<slot, marker, dest, exists, running, readable, verb, stage, manifest, todo, before,
                   calls, ghosts>>

\* The process dies half way.
SwapIsCutOff ==
    /\ pc = "swap" /\ Event
    /\ marker' = [manifest |-> manifest, left |-> todo] /\ Ends("failed")
    /\ UNCHANGED <<live, slot, dest, exists, running, readable, verb, stage, manifest, todo,
                   before, calls, ghosts>>

\* finishing_manifest: the backup still verifies, and is the one the restore wrote from.
Finishable(m) == verified_manifest(slot) /\ slot.manifest = m.manifest

\* config_recover with finish.  Without a marker there is nothing to do; the operator
\* must name the backup that the marker does.
StartFinish ==
    /\ pc = "marker"
    /\ \E named \in BOOLEAN :
          IF marker # None /\ named /\ Finishable(marker)
          THEN manifest' = slot.manifest /\ todo' = marker.left /\ Goes("install")
          ELSE /\ Ends(IF marker = None THEN "nothing" ELSE "failed")
               /\ UNCHANGED <<manifest, todo>>
    /\ UNCHANGED <<world, verb, stage, before, calls, events, ghosts>>

\* The rest of the files is installed, and the marker removed.
Install ==
    /\ pc = "install"
    /\ \E f \in todo :
          /\ live' = [live EXCEPT ![f] = manifest[f]]
          /\ swapped' = (todo = {f})
          /\ IF todo = {f}
             THEN marker' = None /\ Goes("verify") /\ todo' = After("verify")
             ELSE marker' = [marker EXCEPT !.left = @ \ {f}] /\ todo' = todo \ {f}
                  /\ UNCHANGED <<pc, reply>>
    /\ UNCHANGED <<slot, dest, exists, running, readable, verb, stage, manifest, before, calls,
                   events, captured, stale, touched>>

InstallIsCutOff ==
    /\ pc = "install" /\ Event /\ Ends("failed")
    /\ UNCHANGED <<world, verb, stage, manifest, todo, before, calls, ghosts>>

\* verify and verify_meta, of one file of the live volume.
AsListed(f) == live[f] = manifest[f]

\* The live files are verified one after another.
VerifyLive ==
    /\ pc = "verify" /\ todo # {}
    /\ \E f \in todo :
          IF AsListed(f)
          THEN /\ todo' = todo \ {f}
               /\ IF todo' = {} THEN Ends("ok") ELSE UNCHANGED <<pc, reply>>
          ELSE Ends("failed") /\ UNCHANGED todo
    /\ UNCHANGED <<world, verb, stage, manifest, before, calls, events, ghosts>>

\* The scratch directory is made anew, and not if somebody was faster.
MakeDest ==
    /\ pc = "mkdir"
    /\ IF dest = None THEN dest' = [by |-> "orca", files |-> NoTree] /\ Goes("fill")
       ELSE Ends("failed") /\ UNCHANGED dest
    /\ UNCHANGED <<live, slot, marker, exists, running, readable, verb, stage, manifest, todo, before,
                   calls, events, ghosts>>

Fill ==
    /\ pc = "fill"
    /\ IF StillVerifies
       THEN dest' = [dest EXCEPT !.files = manifest] /\ Goes("verify copy")
       ELSE Ends("failed") /\ UNCHANGED dest
    /\ UNCHANGED <<live, slot, marker, exists, running, readable, verb, stage, manifest, todo, before,
                   calls, events, ghosts>>

VerifyCopy ==
    /\ pc = "verify copy"
    /\ IF Verifies(dest.files, manifest) THEN Ends("ok") ELSE Ends("failed")
    /\ UNCHANGED <<world, verb, stage, manifest, todo, before, calls, events, ghosts>>

Verbs ==
    \/ Call("backup", "capture") \/ Call("restore", "list") \/ Call("config_restore", "manifest")
    \/ Call("finish", "list finish")
    \/ Capture \/ BadWrite \/ CheckBackup
    \/ ListContainers("list", "look", "manifest") \/ Look("look", "manifest")
    \/ ReadManifest \/ VerifyPayload \/ Stage \/ Swap \/ SwapFails
    \/ ListContainers("list again", "look again", "verify") \/ Look("look again", "verify")
    \/ SwapIsCutOff
    \/ ListContainers("list finish", "look finish", "marker") \/ Look("look finish", "marker")
    \/ StartFinish \/ Install \/ InstallIsCutOff
    \/ VerifyLive
    \/ MakeDest \/ Fill \/ VerifyCopy

Next == Verbs \/ Events

Spec == Init /\ [][Next]_vars

-----------------------------------------------------------------------------
(* Properties *)

\* Every variable has its type.
TypeOK ==
    /\ live \in Trees /\ slot \in Slots /\ stage \in Slots
    /\ manifest \in Trees /\ before \in Trees /\ captured \in Trees
    /\ marker \in {None} \cup Markers
    /\ dest \in {None} \cup Dests
    /\ running \subseteq exists /\ exists \subseteq Containers /\ readable \subseteq Containers
    /\ stale \subseteq Users /\ touched \subseteq Files
    /\ todo \subseteq Containers \cup Files
    /\ reply \in {"none", "ok", "failed", "nothing"} /\ swapped \in BOOLEAN
    /\ calls \in 0 .. MaxCalls /\ events \in 0 .. MaxEvents

\* A restore that succeeds has brought back what the backup was made of, and so has the
\* finish of one that was cut off, whatever has rotted in the store since, whichever
\* backup has taken its place and whoever wrote to the volume meanwhile: when the live
\* files have been verified, or the copy in a directory the restore has made itself,
\* each of the captured files is there as captured, but for what a container that has
\* started since writes to files already looked at (restore_from, config_restore, recover).
RestoredIsWhatWasCaptured ==
    [][reply' = "ok" /\ reply # "ok" /\ verb # "backup" =>
         /\ Required \subseteq Listed(captured)
         /\ verb = "config_restore" => dest.by = "orca"
         /\ \A f \in Listed(captured) \ (IF verb # "config_restore" THEN touched ELSE {}) :
               captured[f] = (IF verb # "config_restore" THEN live[f] ELSE dest.files[f])]_vars

\* When a restore onto the live volume says ok, every container that runs on the
\* volume has loaded the restored files only: none is left that started before they
\* were all replaced, by name or by path, and none whose state cannot be read is
\* taken to be stopped (ensure_stopped, called before and after).
NobodyRunsOnAMix ==
    reply = "ok" /\ verb = "restore" => stale = {}

-----------------------------------------------------------------------------
(* The inductive invariant behind them *)

\* Which verb is where, and that it replies at its end.
PlaceInv ==
    /\ pc \in {"capture", "check"} => verb = "backup"
    /\ pc \in {"list", "look", "stage", "swap", "list again", "look again"} => verb = "restore"
    /\ pc \in {"list finish", "look finish", "marker", "install"} => verb = "finish"
    /\ pc \in {"mkdir", "fill", "verify copy"} => verb = "config_restore"
    /\ pc \in {"manifest", "payload"} => verb \in {"restore", "config_restore"}
    /\ pc = "verify" => verb \in {"restore", "finish"}
    /\ pc # "idle" => reply = "none"

\* A record vouches for what was captured, or is gone; a verb that has verified the
\* manifest goes on with that, and with something to do.
Verified == {"payload", "stage", "swap", "list again", "look again", "install", "verify",
             "mkdir", "fill", "verify copy"}
ManifestInv ==
    /\ missing_required(captured) = {}
    /\ slot.checksum \in {captured, None}
    /\ pc = "check" => stage.checksum \in Trees
    /\ pc \in Verified => manifest = captured
    /\ pc \in {"swap", "install", "verify"} => todo \subseteq Files /\ todo # {}
    /\ pc = "install" => marker # None /\ marker.left = todo

\* From the last replacement on nothing becomes stale, and what is has still to be
\* looked at.
StaleInv ==
    /\ pc \in {"list again", "look again"} => swapped
    /\ pc = "look again" => stale \subseteq todo
    /\ verb = "restore" /\ (pc = "verify" \/ reply = "ok") => swapped /\ stale = {}

\* What has been looked at is as listed, unless it was written since; and a scratch
\* directory is filled by who made it.
CopyInv ==
    /\ pc = "verify" =>
          \A f \in Listed(manifest) \ (todo \cup touched) : live[f] = manifest[f]
    /\ pc \in {"fill", "verify copy"} => dest # None /\ dest.by = "orca"

KInv == TypeOK /\ PlaceInv /\ ManifestInv /\ StaleInv /\ CopyInv
=============================================================================
