-------------------------- MODULE ConfigKindProofs --------------------------
(***************************************************************************)
(* The properties of ConfigKind hold for any files and containers and any  *)
(* number of calls and events.                                             *)
(***************************************************************************)
EXTENDS ConfigKind, TLAPS

-----------------------------------------------------------------------------
(* Lemmas about trees and records *)

LEMMA TreeTypes ==
    /\ NoTree \in Trees /\ NoSlot \in Slots
    /\ \A t \in Trees : BackupOf(t) \in Slots
    /\ \A t \in Trees, f \in Files, x \in Contents \cup {Rot} : [t EXCEPT ![f] = x] \in Trees
    /\ 0 \in Contents
<1>1. 0 \in Contents
  BY ConfigKindAssumption DEF Contents
<1>2. NoTree \in Trees
  BY <1>1 DEF NoTree, Trees
<1>3. NoSlot \in Slots
  BY <1>2 DEF NoSlot, Slots
<1>4. \A t \in Trees : BackupOf(t) \in Slots
  BY DEF BackupOf, Slots
<1>5. \A t \in Trees, f \in Files, x \in Contents \cup {Rot} : [t EXCEPT ![f] = x] \in Trees
  BY DEF Trees
<1> QED BY <1>1, <1>2, <1>3, <1>4, <1>5

\* What rots in a backup leaves it a backup, and its record what it was or nothing.
LEMMA RotsTypes ==
    ASSUME NEW s \in Slots, NEW r \in Rots(s)
    PROVE  r \in Slots /\ r.checksum \in {s.checksum, None}
<1>1. s.files \in Trees /\ s.manifest \in Trees \cup {Rot} /\ s.checksum \in Trees \cup {None}
  BY DEF Slots
<1>2. CASE \E f \in Files : r = [s EXCEPT !.files[f] = Rot]
  <2>1. PICK f \in Files : r = [s EXCEPT !.files[f] = Rot]
    BY <1>2
  <2> DEFINE new == [s.files EXCEPT ![f] = Rot]
  <2>2. new \in Trees
    BY <1>1, TreeTypes
  <2>3. r = [s EXCEPT !.files = new]
    BY <2>1
  <2> HIDE DEF new
  <2> QED BY <2>2, <2>3 DEF Slots
<1>3. CASE r = [s EXCEPT !.manifest = Rot]
  BY <1>3 DEF Slots
<1>4. CASE s.manifest # Rot /\ \E f \in Files : r = [s EXCEPT !.manifest = [s.manifest EXCEPT ![f] = 0]]
  <2>1. PICK f \in Files : r = [s EXCEPT !.manifest = [s.manifest EXCEPT ![f] = 0]]
    BY <1>4
  <2> DEFINE new == [s.manifest EXCEPT ![f] = 0]
  <2>2. new \in Trees
    BY <1>1, <1>4, TreeTypes
  <2>3. r = [s EXCEPT !.manifest = new]
    BY <2>1
  <2> HIDE DEF new
  <2> QED BY <2>2, <2>3 DEF Slots
<1>5. CASE r = [s EXCEPT !.checksum = None]
  BY <1>5 DEF Slots
<1>6. \/ \E f \in Files : r = [s EXCEPT !.files[f] = Rot]
      \/ r = [s EXCEPT !.manifest = Rot]
      \/ s.manifest # Rot /\ \E f \in Files : r = [s EXCEPT !.manifest = [s.manifest EXCEPT ![f] = 0]]
      \/ r = [s EXCEPT !.checksum = None]
  BY DEF Rots
<1> QED BY <1>2, <1>3, <1>4, <1>5, <1>6

\* A manifest that is verified lists what cannot be missing.
LEMMA ListedTypes ==
    /\ \A m : Listed(m) \subseteq Files
    /\ \A m : missing_required(m) = {} => Required \subseteq Listed(m) /\ Listed(m) # {}
    /\ \A x : After(x) = IF x = "verify" THEN Listed(manifest) ELSE {}
BY ConfigKindAssumption DEF Listed, missing_required, After

LEMMA EventTypes ==
    ASSUME events \in 0 .. MaxEvents, Event
    PROVE  events' \in 0 .. MaxEvents /\ events + 3 \in Contents
BY ConfigKindAssumption DEF Event, Contents

-----------------------------------------------------------------------------
(* What the steps do *)

\* The replacement of files, the verbs' other moves, and what others do.
LEMMA EventsAre ==
    ASSUME Events
    PROVE  /\ UNCHANGED <<call, swapped, marker, captured>> /\ Event
           /\ \/ \E c \in Containers : Start(c) \/ Stop(c) \/ StateFile(c)
              \/ \E f \in Files : Edit(f)
              \/ Corruption \/ Squat
BY DEF Events, Start, Stop, StateFile, Edit, Corruption, Squat

Looks(at, looks, next) == ListContainers(at, looks, next) \/ Look(looks, next)

LEMMA LooksAre ==
    ASSUME NEW at, NEW looks, NEW next, Looks(at, looks, next)
    PROVE  /\ UNCHANGED <<world, verb, stage, manifest, before, calls, events, ghosts>>
           /\ \/ pc = at /\ exists = {} /\ pc' = next /\ reply' = reply /\ todo' = After(next)
              \/ pc = at /\ pc' = looks /\ reply' = reply /\ todo' = exists
              \/ pc = looks /\ \E c \in todo : pc' = "idle" /\ reply' = "failed" /\ todo' = todo
              \/ /\ pc = looks
                 /\ \E c \in todo :
                       /\ ~InUse(c) /\ reply' = reply
                       /\ \/ todo = {c} /\ pc' = next /\ todo' = After(next)
                          \/ pc' = pc /\ todo' = todo \ {c}
BY DEF Looks, ListContainers, Look, Goes, Ends

\* Where they start and where they end.
LEMMA LooksGo ==
    /\ Looks("list", "look", "manifest") => pc' \in {"idle", "look", "manifest"}
    /\ Looks("list finish", "look finish", "marker") => pc' \in {"idle", "look finish", "marker"}
    /\ Looks("list again", "look again", "verify") =>
          /\ UNCHANGED manifest
          /\ pc \in {"list again", "look again"}
          /\ pc' \in {"idle", "look again"} \/ (pc' = "verify" /\ todo' = Listed(manifest))
<1>1. Looks("list", "look", "manifest") => pc' \in {"idle", "look", "manifest"}
  BY LooksAre
<1>2. Looks("list finish", "look finish", "marker") => pc' \in {"idle", "look finish", "marker"}
  BY LooksAre
<1>3. ASSUME Looks("list again", "look again", "verify")
      PROVE  /\ UNCHANGED manifest
             /\ pc \in {"list again", "look again"}
             /\ pc' \in {"idle", "look again"} \/ (pc' = "verify" /\ todo' = After("verify"))
  BY <1>3, LooksAre
<1>4. After("verify") = Listed(manifest)
  BY ListedTypes
<1> QED BY <1>1, <1>2, <1>3, <1>4

-----------------------------------------------------------------------------
(* Types *)

LEMMA EventsTypes ==
    ASSUME TypeOK, Events
    PROVE  TypeOK'
<1>0. UNCHANGED <<call, swapped, marker, captured>> /\ Event
  BY EventsAre
<1>1. events' \in 0 .. MaxEvents /\ events + 3 \in Contents
  BY <1>0, EventTypes DEF TypeOK
<1>2. /\ stage' \in Slots /\ manifest' \in Trees /\ before' \in Trees /\ captured' \in Trees
      /\ marker' \in {None} \cup Markers /\ todo' \subseteq Containers \cup Files
      /\ reply' \in {"none", "ok", "failed", "nothing"} /\ swapped' \in BOOLEAN
      /\ calls' \in 0 .. MaxCalls
  BY <1>0 DEF TypeOK, call
<1>3. /\ live' \in Trees /\ slot' \in Slots /\ dest' \in {None} \cup Dests
      /\ running' \subseteq exists' /\ exists' \subseteq Containers /\ readable' \subseteq Containers
      /\ stale' \subseteq Users' /\ touched' \subseteq Files
  <2>1. ASSUME NEW c \in Containers, Start(c)
        PROVE  /\ UNCHANGED <<live, slot, dest, readable, touched>>
               /\ running' \subseteq exists' /\ exists' \subseteq Containers /\ stale' \subseteq Users'
    BY <2>1 DEF Start, TypeOK, Users
  <2>2. ASSUME NEW c \in Containers, Stop(c)
        PROVE  /\ UNCHANGED <<live, slot, dest, exists, readable, touched>>
               /\ running' \subseteq exists' /\ stale' \subseteq Users'
    BY <2>2 DEF Stop, TypeOK, Users
  <2>3. ASSUME NEW c \in Containers, StateFile(c)
        PROVE  /\ UNCHANGED <<live, slot, dest, exists, running, stale, touched>>
               /\ readable' \subseteq Containers
    BY <2>3 DEF StateFile, TypeOK
  <2>4. ASSUME NEW f \in Files, Edit(f)
        PROVE  /\ UNCHANGED <<slot, dest, exists, running, readable, stale>>
               /\ live' \in Trees /\ touched' \subseteq Files
    <3>1. PICK new \in {0, events + 3} : live' = [live EXCEPT ![f] = new]
      BY <2>4 DEF Edit
    <3>2. new \in Contents
      BY <1>1, TreeTypes
    <3> QED BY <2>4, <3>1, <3>2, TreeTypes DEF Edit, TypeOK
  <2>5. CASE Corruption
    <3>1. slot' \in Slots
      BY <2>5, RotsTypes DEF Corruption, TypeOK
    <3> QED BY <2>5, <3>1 DEF Corruption, TypeOK, Users
  <2>6. CASE Squat
    <3>1. dest' \in Dests
      BY <2>6, TreeTypes DEF Squat, Dests
    <3> QED BY <2>6, <3>1 DEF Squat, TypeOK, Users
  <2> QED BY <2>1, <2>2, <2>3, <2>4, <2>5, <2>6, EventsAre DEF TypeOK, Users
<1> QED BY <1>1, <1>2, <1>3 DEF TypeOK

\* What the verbs leave alone, and what their loops keep.
Quiet == UNCHANGED <<world, events, ghosts>>

LEMMA QuietTypes ==
    ASSUME TypeOK, Quiet, stage' \in Slots, manifest' \in Trees, before' \in Trees,
           todo' \subseteq Containers \cup Files, reply' \in {"none", "ok", "failed", "nothing"},
           calls' \in 0 .. MaxCalls
    PROVE  TypeOK'
BY DEF TypeOK, Quiet, world, ghosts, Users

LEMMA LooksTypes ==
    ASSUME TypeOK, NEW at, NEW looks, NEW next, Looks(at, looks, next)
    PROVE  TypeOK'
<1>1. UNCHANGED <<world, verb, stage, manifest, before, calls, events, ghosts>>
  BY LooksAre
<1>2. todo' \subseteq Containers \cup Files /\ (reply' = reply \/ reply' = "failed")
  <2>1. After(next) \subseteq Files
    BY ListedTypes
  <2>2. \/ todo' = After(next) \/ todo' = exists \/ todo' = todo
        \/ \E c \in todo : todo' = todo \ {c}
    BY LooksAre
  <2>3. reply' = reply \/ reply' = "failed"
    BY LooksAre
  <2> QED BY <2>1, <2>2, <2>3 DEF TypeOK
<1> QED BY <1>1, <1>2, QuietTypes DEF TypeOK, Quiet

LEMMA VerbsAre ==
    Verbs => \/ Call("backup", "capture") \/ Call("restore", "list")
             \/ Call("config_restore", "manifest") \/ Call("finish", "list finish")
             \/ Looks("list", "look", "manifest") \/ Looks("list again", "look again", "verify")
             \/ Looks("list finish", "look finish", "marker")
             \/ Capture \/ BadWrite \/ CheckBackup \/ ReadManifest \/ VerifyPayload \/ Stage
             \/ Swap \/ SwapFails \/ SwapIsCutOff \/ StartFinish \/ Install \/ InstallIsCutOff
             \/ VerifyLive \/ MakeDest \/ Fill \/ VerifyCopy
BY DEF Verbs, Looks

LEMMA CallTypes ==
    ASSUME TypeOK, NEW v, NEW first, Call(v, first)
    PROVE  TypeOK'
<1>1. calls' \in 0 .. MaxCalls
  BY ConfigKindAssumption DEF Call, TypeOK
<1> QED BY <1>1, TreeTypes DEF Call, TypeOK, world, Users

LEMMA SwapTypes ==
    ASSUME TypeOK, ManifestInv, PlaceInv, Swap \/ SwapFails \/ SwapIsCutOff
    PROVE  TypeOK'
<1>1. CASE Swap
  <2>1. PICK f \in todo :
           /\ live' = [live EXCEPT ![f] = manifest[f]] /\ todo' = todo \ {f}
           /\ swapped' = (todo' = {})
           /\ reply' = reply
    BY <1>1 DEF Swap, Goes
  <2>2. f \in Files
    BY <1>1, <2>1 DEF Swap, ManifestInv
  <2>3. live' \in Trees
    BY <2>1, <2>2, TreeTypes DEF TypeOK, Trees
  <2>4. UNCHANGED <<slot, marker, dest, exists, running, readable, stage, manifest, before, calls,
                    events, captured, stale, touched>>
    BY <1>1 DEF Swap
  <2> QED BY <2>1, <2>3, <2>4 DEF TypeOK, Users
<1>2. CASE SwapFails
  <2>1. events' \in 0 .. MaxEvents
    BY <1>2, EventTypes DEF SwapFails, TypeOK
  <2>2. live' \in Trees
    <3>1. \A f \in Files : live[f] \in Contents \cup {Rot} /\ before[f] \in Contents \cup {Rot}
      BY DEF TypeOK, Trees
    <3> QED BY <1>2, <3>1 DEF SwapFails, Trees
  <2> QED BY <1>2, <2>1, <2>2 DEF SwapFails, Ends, TypeOK, ghosts, Users
<1>3. CASE SwapIsCutOff
  <2>1. events' \in 0 .. MaxEvents
    BY <1>3, EventTypes DEF SwapIsCutOff, TypeOK
  <2>2. marker' \in Markers
    <3>1. todo \in (SUBSET Files) \ {{}} /\ manifest \in Trees
      BY <1>3 DEF SwapIsCutOff, ManifestInv, TypeOK
    <3>2. marker' = [manifest |-> manifest, left |-> todo]
      BY <1>3 DEF SwapIsCutOff
    <3> QED BY <3>1, <3>2 DEF Markers
  <2> QED BY <1>3, <2>1, <2>2 DEF SwapIsCutOff, Ends, TypeOK, ghosts, Users
<1> QED BY <1>1, <1>2, <1>3

LEMMA InstallTypes ==
    ASSUME TypeOK, ManifestInv, StartFinish \/ Install \/ InstallIsCutOff
    PROVE  TypeOK'
<1>1. CASE StartFinish
  <2>1. Quiet /\ UNCHANGED <<stage, before, calls>>
    BY <1>1 DEF StartFinish, Quiet
  <2>2. /\ manifest' \in Trees /\ todo' \subseteq Containers \cup Files
        /\ reply' \in {"none", "ok", "failed", "nothing"}
    <3>1. CASE UNCHANGED <<manifest, todo>> /\ (reply' = "nothing" \/ reply' = "failed")
      BY <3>1 DEF TypeOK
    <3>2. CASE /\ marker # None /\ Finishable(marker)
               /\ manifest' = slot.manifest /\ todo' = marker.left /\ reply' = reply
      <4>1. slot.manifest \in Trees
        BY <3>2 DEF Finishable, verified_manifest, TypeOK, Slots
      <4>2. marker.left \subseteq Files
        BY <3>2 DEF TypeOK, Markers
      <4> QED BY <3>2, <4>1, <4>2 DEF TypeOK
    <3> QED BY <1>1, <3>1, <3>2 DEF StartFinish, Goes, Ends
  <2> QED BY <2>1, <2>2, QuietTypes DEF TypeOK
<1>2. CASE Install
  <2>1. PICK f \in todo :
           /\ live' = [live EXCEPT ![f] = manifest[f]]
           /\ swapped' = (todo = {f})
           /\ \/ todo = {f} /\ marker' = None /\ todo' = After("verify")
              \/ /\ todo # {f} /\ todo' = todo \ {f}
                 /\ marker' = [marker EXCEPT !.left = @ \ {f}]
           /\ reply' = reply
    BY <1>2 DEF Install, Goes
  <2>2. f \in Files /\ marker \in Markers /\ marker.left = todo
    BY <1>2, <2>1 DEF Install, ManifestInv, TypeOK
  <2>3. live' \in Trees
    BY <2>1, <2>2, TreeTypes DEF TypeOK, Trees
  <2>4. marker' \in {None} \cup Markers /\ todo' \subseteq Containers \cup Files
    <3>1. CASE todo # {f}
      <4> DEFINE rest == marker.left \ {f}
      <4>1. rest \in (SUBSET Files) \ {{}} /\ todo' = rest
        BY <2>1, <2>2, <3>1 DEF Markers
      <4>2. marker' = [marker EXCEPT !.left = rest]
        BY <2>1, <3>1
      <4> HIDE DEF rest
      <4> QED BY <2>2, <4>1, <4>2 DEF Markers
    <3>2. CASE todo = {f}
      BY <2>1, <3>2, ListedTypes
    <3> QED BY <3>1, <3>2
  <2>5. UNCHANGED <<slot, dest, exists, running, readable, stage, manifest, before, calls,
                    events, captured, stale, touched>>
    BY <1>2 DEF Install
  <2> QED BY <2>1, <2>3, <2>4, <2>5 DEF TypeOK, Users
<1>3. CASE InstallIsCutOff
  <2>1. events' \in 0 .. MaxEvents
    BY <1>3, EventTypes DEF InstallIsCutOff, TypeOK
  <2> QED BY <1>3, <2>1 DEF InstallIsCutOff, Ends, TypeOK, world, ghosts, Users
<1> QED BY <1>1, <1>2, <1>3

LEMMA BackupTypes ==
    ASSUME TypeOK, ManifestInv, Capture \/ BadWrite \/ CheckBackup
    PROVE  TypeOK'
<1>1. CASE Capture
  <2>1. stage' \in Slots /\ (reply' = reply \/ reply' = "failed")
    BY <1>1, TreeTypes DEF Capture, Goes, Ends, TypeOK
  <2>2. Quiet /\ UNCHANGED <<manifest, todo, before, calls>>
    BY <1>1 DEF Capture, Quiet
  <2> QED BY <2>1, <2>2, QuietTypes DEF TypeOK
<1>2. CASE BadWrite
  <2>1. PICK f \in Files : stage' = [stage EXCEPT !.files[f] = Rot]
    BY <1>2 DEF BadWrite
  <2>2. stage' \in Slots
    <3>1. stage' \in Rots(stage) \/ stage.files[f] = 0
      BY <2>1 DEF Rots
    <3> DEFINE new == [stage.files EXCEPT ![f] = Rot]
    <3>2. stage.files \in Trees
      BY DEF TypeOK, Slots
    <3>3. new \in Trees
      BY <3>2, TreeTypes
    <3>4. stage' = [stage EXCEPT !.files = new]
      BY <2>1
    <3> HIDE DEF new
    <3> QED BY <3>3, <3>4 DEF TypeOK, Slots
  <2>3. events' \in 0 .. MaxEvents
    BY <1>2, EventTypes DEF BadWrite, TypeOK
  <2> QED BY <1>2, <2>2, <2>3 DEF BadWrite, TypeOK, world, ghosts, Users
<1>3. CASE CheckBackup
  <2>1. /\ slot' \in Slots /\ captured' \in Trees
        /\ reply' = "ok" \/ reply' = "failed"
    BY <1>3 DEF CheckBackup, ManifestInv, Ends, TypeOK
  <2> QED BY <1>3, <2>1 DEF CheckBackup, TypeOK, Users
<1> QED BY <1>1, <1>2, <1>3

LEMMA ReadTypes ==
    ASSUME TypeOK, ManifestInv, ReadManifest \/ VerifyPayload \/ Stage \/ VerifyLive \/ VerifyCopy
    PROVE  TypeOK'
<1>1. Quiet /\ UNCHANGED <<stage, calls>>
  BY DEF ReadManifest, VerifyPayload, Stage, VerifyLive, VerifyCopy, Quiet
<1>2. reply' \in {"none", "ok", "failed", "nothing"}
  BY DEF ReadManifest, VerifyPayload, Stage, VerifyLive, VerifyCopy, Goes, Ends, TypeOK
<1>3. manifest' \in Trees
  BY DEF ReadManifest, VerifyPayload, Stage, VerifyLive, VerifyCopy, verified_manifest, TypeOK, Slots
<1>4. before' \in Trees
  BY DEF ReadManifest, VerifyPayload, Stage, VerifyLive, VerifyCopy, TypeOK
<1>5. todo' \subseteq Containers \cup Files
  BY ListedTypes DEF ReadManifest, VerifyPayload, Stage, VerifyLive, VerifyCopy, TypeOK
<1> QED BY <1>1, <1>2, <1>3, <1>4, <1>5, QuietTypes DEF TypeOK

LEMMA CopyTypes ==
    ASSUME TypeOK, CopyInv, MakeDest \/ Fill
    PROVE  TypeOK'
<1>1. dest' \in {None} \cup Dests
  <2>1. CASE MakeDest
    BY <2>1, TreeTypes DEF MakeDest, TypeOK, Dests
  <2>2. CASE Fill
    <3>1. dest \in Dests /\ manifest \in Trees
      BY <2>2 DEF Fill, CopyInv, TypeOK
    <3>2. dest' = dest \/ dest' = [dest EXCEPT !.files = manifest]
      BY <2>2 DEF Fill
    <3> QED BY <3>1, <3>2 DEF Dests
  <2> QED BY <2>1, <2>2
<1>2. /\ UNCHANGED <<live, slot, marker, exists, running, readable, stage, manifest, todo, before,
                     calls, events, ghosts>>
      /\ reply' = reply \/ reply' = "failed"
  BY DEF MakeDest, Fill, Goes, Ends
<1> QED BY <1>1, <1>2 DEF TypeOK, ghosts, Users

LEMMA TypeStep ==
    ASSUME KInv, [Next]_vars
    PROVE  TypeOK'
<1>1. CASE Events
  BY <1>1, EventsTypes DEF KInv
<1>2. CASE Verbs
  BY <1>2, VerbsAre, CallTypes, LooksTypes, SwapTypes, InstallTypes, BackupTypes, ReadTypes, CopyTypes
     DEF KInv
<1>3. CASE UNCHANGED vars
  BY <1>3 DEF vars, world, call, ghosts, KInv, TypeOK, Users
<1> QED BY <1>1, <1>2, <1>3 DEF Next

-----------------------------------------------------------------------------
(* The other parts of the invariant *)

LEMMA PlaceStep ==
    ASSUME KInv, [Next]_vars
    PROVE  PlaceInv'
<1>1. PlaceInv
  BY DEF KInv
<1>2. CASE UNCHANGED <<pc, verb, reply>>
  BY <1>1, <1>2 DEF PlaceInv
<1>3. CASE Call("backup", "capture") \/ Call("restore", "list")
           \/ Call("config_restore", "manifest") \/ Call("finish", "list finish")
  BY <1>3 DEF Call, PlaceInv
<1>4. CASE \/ Looks("list", "look", "manifest") \/ Looks("list again", "look again", "verify")
           \/ Looks("list finish", "look finish", "marker")
  <2>1. CASE Looks("list", "look", "manifest")
    <3>1. verb' = verb /\ pc \in {"list", "look"} /\ pc' \in {"idle", "look", "manifest"}
          /\ (pc' # "idle" => reply' = reply)
      BY <2>1, LooksAre
    <3> QED BY <1>1, <3>1 DEF PlaceInv
  <2>2. CASE Looks("list again", "look again", "verify")
    <3>1. verb' = verb /\ pc \in {"list again", "look again"}
          /\ pc' \in {"idle", "look again", "verify"} /\ (pc' # "idle" => reply' = reply)
      BY <2>2, LooksAre
    <3> QED BY <1>1, <3>1 DEF PlaceInv
  <2>3. CASE Looks("list finish", "look finish", "marker")
    <3>1. verb' = verb /\ pc \in {"list finish", "look finish"}
          /\ pc' \in {"idle", "look finish", "marker"} /\ (pc' # "idle" => reply' = reply)
      BY <2>3, LooksAre
    <3> QED BY <1>1, <3>1 DEF PlaceInv
  <2> QED BY <1>4, <2>1, <2>2, <2>3
<1>5. CASE Capture \/ BadWrite \/ CheckBackup \/ ReadManifest \/ VerifyPayload \/ Stage
  BY <1>1, <1>5 DEF Capture, BadWrite, CheckBackup, ReadManifest, VerifyPayload, Stage, Goes, Ends,
                    PlaceInv
<1>6. CASE Swap \/ SwapFails \/ SwapIsCutOff \/ StartFinish \/ Install \/ InstallIsCutOff
  BY <1>1, <1>6 DEF Swap, SwapFails, SwapIsCutOff, StartFinish, Install, InstallIsCutOff, Goes, Ends,
                    PlaceInv
<1>7. CASE VerifyLive \/ MakeDest \/ Fill \/ VerifyCopy
  BY <1>1, <1>7 DEF VerifyLive, MakeDest, Fill, VerifyCopy, Goes, Ends, PlaceInv
<1>8. CASE Events
  BY <1>2, <1>8, EventsAre DEF call
<1>9. CASE UNCHANGED vars
  BY <1>2, <1>9 DEF vars, call
<1> QED BY <1>3, <1>4, <1>5, <1>6, <1>7, <1>8, <1>9, VerbsAre DEF Next

\* What is verified is what was captured, and there is something of it.
LEMMA VerifiedIsCaptured ==
    ASSUME TypeOK, ManifestInv
    PROVE  /\ verified_manifest(slot) => slot.manifest = captured
           /\ Listed(captured) # {} /\ Listed(captured) \subseteq Files
           /\ Required \subseteq Listed(captured)
BY ListedTypes DEF ManifestInv, verified_manifest

LEMMA ManifestStep ==
    ASSUME KInv, [Next]_vars
    PROVE  ManifestInv'
<1>1. TypeOK /\ PlaceInv /\ ManifestInv
  BY DEF KInv
<1>2. CASE Events
  <2>1. UNCHANGED <<call, captured, marker>>
    BY <1>2, EventsAre
  <2>2. slot'.checksum \in {slot.checksum, None}
    <3>1. slot' = slot \/ slot' \in Rots(slot)
      BY <1>2, EventsAre DEF Start, Stop, StateFile, Edit, Corruption, Squat
    <3> QED BY <1>1, <3>1, RotsTypes DEF TypeOK
  <2> QED BY <1>1, <2>1, <2>2 DEF ManifestInv, call
<1>3. CASE Call("backup", "capture") \/ Call("restore", "list")
           \/ Call("config_restore", "manifest") \/ Call("finish", "list finish")
  <2>1. UNCHANGED <<slot, captured>> /\ pc' \in {"capture", "list", "manifest", "list finish"}
    BY <1>3 DEF Call, world
  <2> QED BY <1>1, <2>1 DEF ManifestInv, Verified
<1>4. CASE Looks("list", "look", "manifest") \/ Looks("list finish", "look finish", "marker")
  <2>1. UNCHANGED <<slot, captured>> /\ pc' \in {"idle", "look", "manifest", "look finish", "marker"}
    BY <1>4, LooksAre DEF world, ghosts
  <2> QED BY <1>1, <2>1 DEF ManifestInv, Verified
<1>5. CASE Looks("list again", "look again", "verify")
  <2>1. /\ UNCHANGED <<slot, captured, manifest>> /\ pc \in {"list again", "look again"}
        /\ \/ pc' \in {"idle", "look again"}
           \/ pc' = "verify" /\ todo' = After("verify")
    BY <1>5, LooksAre DEF world, ghosts
  <2>2. manifest = captured
    BY <1>1, <2>1 DEF ManifestInv, Verified
  <2>3. After("verify") \subseteq Files /\ After("verify") # {}
    BY <1>1, <2>2, VerifiedIsCaptured, ListedTypes
  <2> QED BY <1>1, <2>1, <2>2, <2>3 DEF ManifestInv, Verified
<1>6. CASE Capture
  <2>1. UNCHANGED <<slot, captured>> /\ pc' \in {"idle", "check"}
        /\ (pc' = "check" => stage' = BackupOf(live))
    BY <1>6 DEF Capture, Goes, Ends, world, ghosts
  <2>2. pc' = "check" => stage'.checksum \in Trees
    BY <1>1, <2>1 DEF BackupOf, TypeOK
  <2> QED BY <1>1, <2>1, <2>2 DEF ManifestInv, Verified, missing_required
<1>7. CASE BadWrite
  <2>1. UNCHANGED <<slot, captured>> /\ pc' = "check" /\ pc = "check"
        /\ \E f \in Files : stage' = [stage EXCEPT !.files[f] = Rot]
    BY <1>7 DEF BadWrite, world, ghosts
  <2>2. stage'.checksum = stage.checksum
    BY <1>1, <2>1 DEF TypeOK, Slots
  <2> QED BY <1>1, <2>1, <2>2 DEF ManifestInv, Verified
<1>8. CASE CheckBackup
  <2>1. pc' = "idle"
    BY <1>8 DEF CheckBackup, Ends
  <2>2. missing_required(captured)' = {} /\ slot'.checksum \in {captured', None}
    <3>1. \/ UNCHANGED <<slot, captured>>
          \/ /\ missing_required(stage.checksum) = {}
             /\ slot' = stage /\ captured' = stage.checksum
      BY <1>8 DEF CheckBackup, Verifies
    <3> QED BY <1>1, <3>1 DEF ManifestInv, missing_required
  <2> QED BY <2>1, <2>2 DEF ManifestInv, Verified
<1>9. CASE ReadManifest \/ VerifyPayload \/ Stage
  <2>1. UNCHANGED <<slot, captured>>
    BY <1>9 DEF ReadManifest, VerifyPayload, Stage, world, ghosts
  <2>2. pc' \in {"idle", "payload", "stage", "mkdir", "swap"}
    BY <1>9 DEF ReadManifest, VerifyPayload, Stage, Goes, Ends
  <2>3. pc' # "idle" => manifest' = captured
    BY <1>1, <1>9, VerifiedIsCaptured
       DEF ReadManifest, VerifyPayload, Stage, Goes, Ends, ManifestInv, Verified
  <2>4. pc' = "swap" => todo' = Listed(captured)
    BY <1>1, <1>9 DEF ReadManifest, VerifyPayload, Stage, Goes, Ends, ManifestInv, Verified
  <2> QED BY <1>1, <2>1, <2>2, <2>3, <2>4, VerifiedIsCaptured DEF ManifestInv, Verified, missing_required
<1>10. CASE Swap
  <2>1. UNCHANGED <<slot, captured, manifest>> /\ pc = "swap"
    BY <1>10 DEF Swap
  <2>2. todo' \subseteq todo /\ (pc' = "list again" \/ (pc' = "swap" /\ todo' # {}))
    BY <1>10 DEF Swap, Goes
  <2> QED BY <1>1, <2>1, <2>2 DEF ManifestInv, Verified, missing_required
<1>11. CASE SwapFails \/ SwapIsCutOff \/ InstallIsCutOff
  <2>1. UNCHANGED <<slot, captured>> /\ pc' = "idle"
    BY <1>11 DEF SwapFails, SwapIsCutOff, InstallIsCutOff, Ends, world, ghosts
  <2> QED BY <1>1, <2>1 DEF ManifestInv, Verified, missing_required
<1>12. CASE StartFinish
  <2>1. UNCHANGED <<slot, captured, marker>>
    BY <1>12 DEF StartFinish, world, ghosts
  <2>2. \/ pc' = "idle"
        \/ /\ pc' = "install" /\ marker # None /\ verified_manifest(slot)
           /\ manifest' = slot.manifest /\ todo' = marker.left
    BY <1>12 DEF StartFinish, Goes, Ends, Finishable
  <2>3. marker # None => marker.left \subseteq Files /\ marker.left # {}
    BY <1>1 DEF TypeOK, Markers
  <2> QED BY <1>1, <2>1, <2>2, <2>3, VerifiedIsCaptured DEF ManifestInv, Verified, missing_required
<1>13. CASE Install
  <2>1. UNCHANGED <<slot, captured, manifest>> /\ pc = "install"
    BY <1>13 DEF Install
  <2>2. PICK f \in todo :
           \/ pc' = "verify" /\ todo' = After("verify")
           \/ /\ todo # {f} /\ pc' = pc /\ todo' = todo \ {f}
              /\ marker' = [marker EXCEPT !.left = @ \ {f}]
    BY <1>13 DEF Install, Goes
  <2>3. manifest = captured /\ marker # None /\ marker.left = todo
    BY <1>1, <2>1 DEF ManifestInv, Verified
  <2>4. After("verify") \subseteq Files /\ After("verify") # {}
    BY <1>1, <2>3, VerifiedIsCaptured, ListedTypes
  <2>5. CASE pc' = pc
    <3>1. marker \in Markers
      BY <1>1, <2>3 DEF TypeOK
    <3> DEFINE rest == todo \ {f}
    <3>2. rest \in (SUBSET Files) \ {{}} /\ todo' = rest
      BY <1>1, <2>1, <2>2, <2>5 DEF ManifestInv
    <3>3. marker' = [marker EXCEPT !.left = rest]
      BY <2>1, <2>2, <2>3, <2>5
    <3>4. marker' \in Markers /\ marker'.left = rest
      <4> HIDE DEF rest
      <4> QED BY <3>1, <3>2, <3>3 DEF Markers
    <3>5. marker' # None
      BY <3>4, ConfigKindAssumption
    <3> QED BY <1>1, <2>1, <2>3, <2>5, <3>2, <3>4, <3>5 DEF ManifestInv, Verified, missing_required
  <2>6. CASE pc' = "verify"
    BY <1>1, <2>1, <2>2, <2>3, <2>4, <2>6 DEF ManifestInv, Verified, missing_required
  <2> QED BY <2>2, <2>5, <2>6
<1>14. CASE VerifyLive
  <2>1. UNCHANGED <<slot, captured, manifest>> /\ pc = "verify"
    BY <1>14 DEF VerifyLive, world, ghosts
  <2>2. todo' \subseteq todo /\ (pc' = "idle" \/ (pc' = "verify" /\ todo' # {}))
    BY <1>1, <1>14 DEF VerifyLive, Ends, ManifestInv
  <2> QED BY <1>1, <2>1, <2>2 DEF ManifestInv, Verified, missing_required
<1>15. CASE MakeDest \/ Fill \/ VerifyCopy
  <2>1. UNCHANGED <<slot, captured, manifest>> /\ pc \in Verified /\ pc' \in {"idle", "fill", "verify copy"}
    BY <1>15 DEF MakeDest, Fill, VerifyCopy, Goes, Ends, world, ghosts, Verified
  <2> QED BY <1>1, <2>1 DEF ManifestInv, missing_required
<1>16. CASE UNCHANGED vars
  BY <1>1, <1>16 DEF ManifestInv, vars, call, world, ghosts, missing_required
<1> QED BY <1>2, <1>3, <1>4, <1>5, <1>6, <1>7, <1>8, <1>9, <1>10, <1>11, <1>12, <1>13, <1>14, <1>15,
           <1>16, VerbsAre DEF Next

\* Once all files are replaced nothing becomes stale, whatever others do.
LEMMA EventsStale ==
    ASSUME Events, swapped
    PROVE  stale' \subseteq stale
BY EventsAre DEF Start, Stop, StateFile, Edit, Corruption, Squat

\* Who is found not to use the volume runs on no part of it.
LEMMA LookedAt ==
    ASSUME TypeOK, NEW c, ~InUse(c)
    PROVE  c \notin stale
BY ConfigKindAssumption DEF TypeOK, InUse, Uses, Users

LEMMA StaleStep ==
    ASSUME KInv, [Next]_vars
    PROVE  StaleInv'
<1>1. TypeOK /\ PlaceInv /\ StaleInv
  BY DEF KInv
<1>2. CASE Events
  <2>1. UNCHANGED <<call, swapped>>
    BY <1>2, EventsAre
  <2>2. swapped => stale' \subseteq stale
    BY <1>2, EventsStale
  <2> QED BY <1>1, <2>1, <2>2 DEF StaleInv, call
<1>3. CASE Call("backup", "capture") \/ Call("restore", "list")
           \/ Call("config_restore", "manifest") \/ Call("finish", "list finish")
  BY <1>3 DEF Call, StaleInv
<1>4. CASE Looks("list", "look", "manifest") \/ Looks("list finish", "look finish", "marker")
  <2>1. /\ UNCHANGED <<swapped, stale, verb>>
        /\ pc' \in {"idle", "look", "manifest", "look finish", "marker"}
        /\ reply' = reply \/ reply' = "failed"
    BY <1>4, LooksAre DEF ghosts
  <2> QED BY <1>1, <2>1 DEF StaleInv
<1>5. CASE Looks("list again", "look again", "verify")
  <2>1. UNCHANGED <<swapped, stale, verb>> /\ pc \in {"list again", "look again"}
    BY <1>5, LooksAre DEF ghosts
  <2>2. swapped /\ reply = "none" /\ stale \subseteq exists
    BY <1>1, <2>1 DEF StaleInv, PlaceInv, TypeOK, Users
  <2>3. CASE pc = "list again" /\ exists = {} /\ pc' = "verify" /\ reply' = reply
    BY <2>1, <2>2, <2>3 DEF StaleInv
  <2>4. CASE pc = "list again" /\ pc' = "look again" /\ reply' = reply /\ todo' = exists
    BY <2>1, <2>2, <2>4 DEF StaleInv
  <2>5. CASE pc' = "idle" /\ reply' = "failed"
    BY <2>5 DEF StaleInv
  <2>6. ASSUME pc = "look again", NEW c \in todo, ~InUse(c), reply' = reply,
               (todo = {c} /\ pc' = "verify") \/ (pc' = pc /\ todo' = todo \ {c})
        PROVE  StaleInv'
    <3>1. stale \subseteq todo \ {c}
      BY <1>1, <2>6, LookedAt DEF StaleInv
    <3> QED BY <2>1, <2>2, <2>6, <3>1 DEF StaleInv
  <2>7. \/ /\ pc = "list again" /\ exists = {} /\ pc' = "verify" /\ reply' = reply
           /\ todo' = After("verify")
        \/ pc = "list again" /\ pc' = "look again" /\ reply' = reply /\ todo' = exists
        \/ pc = "look again" /\ \E c \in todo : pc' = "idle" /\ reply' = "failed" /\ todo' = todo
        \/ /\ pc = "look again"
           /\ \E c \in todo :
                 /\ ~InUse(c) /\ reply' = reply
                 /\ \/ todo = {c} /\ pc' = "verify" /\ todo' = After("verify")
                    \/ pc' = pc /\ todo' = todo \ {c}
    BY <1>5, LooksAre
  <2> QED BY <2>3, <2>4, <2>5, <2>6, <2>7
<1>6. CASE \/ Capture \/ BadWrite \/ CheckBackup \/ ReadManifest \/ VerifyPayload \/ Stage
           \/ SwapFails \/ SwapIsCutOff \/ StartFinish \/ InstallIsCutOff \/ MakeDest \/ Fill
           \/ VerifyCopy
  <2>1. UNCHANGED <<swapped, stale, verb>>
    BY <1>6 DEF Capture, BadWrite, CheckBackup, ReadManifest, VerifyPayload, Stage, SwapFails,
                SwapIsCutOff, StartFinish, InstallIsCutOff, MakeDest, Fill, VerifyCopy, ghosts
  <2>2. pc' \notin {"list again", "look again", "verify"}
    BY <1>6 DEF Capture, BadWrite, CheckBackup, ReadManifest, VerifyPayload, Stage, SwapFails,
                SwapIsCutOff, StartFinish, InstallIsCutOff, MakeDest, Fill, VerifyCopy, Goes, Ends
  <2>3. verb = "restore" => reply' # "ok" \/ reply' = reply
    BY <1>1, <1>6 DEF Capture, BadWrite, CheckBackup, ReadManifest, VerifyPayload, Stage, SwapFails,
                SwapIsCutOff, StartFinish, InstallIsCutOff, MakeDest, Fill, VerifyCopy, Goes, Ends,
                PlaceInv
  <2> QED BY <1>1, <2>1, <2>2, <2>3 DEF StaleInv
<1>7. CASE Swap
  <2>1. /\ reply = "none" /\ reply' = reply
        /\ \/ pc' = "list again" /\ swapped' = TRUE
           \/ pc' = "swap"
    BY <1>1, <1>7 DEF Swap, Goes, PlaceInv
  <2> QED BY <2>1 DEF StaleInv
<1>8. CASE Install
  <2>1. verb' = "finish" /\ pc' \in {"install", "verify"}
    BY <1>1, <1>8 DEF Install, Goes, PlaceInv
  <2> QED BY <2>1 DEF StaleInv
<1>9. CASE VerifyLive
  <2>1. pc = "verify" /\ pc' \in {"idle", "verify"} /\ UNCHANGED <<swapped, stale, verb>>
    BY <1>9 DEF VerifyLive, Ends, ghosts
  <2> QED BY <1>1, <2>1 DEF StaleInv
<1>10. CASE UNCHANGED vars
  BY <1>1, <1>10 DEF StaleInv, vars, call, ghosts
<1> QED BY <1>2, <1>3, <1>4, <1>5, <1>6, <1>7, <1>8, <1>9, <1>10, VerbsAre DEF Next

LEMMA CopyStep ==
    ASSUME KInv, [Next]_vars
    PROVE  CopyInv'
<1>1. TypeOK /\ PlaceInv /\ CopyInv
  BY DEF KInv
<1>2. ASSUME pc' \in {"fill", "verify copy"}
      PROVE  dest' # None /\ dest'.by = "orca"
  <2>1. CASE UNCHANGED <<pc, dest>>
    BY <1>1, <1>2, <2>1 DEF CopyInv
  <2>2. CASE MakeDest
    <3>1. dest' = [by |-> "orca", files |-> NoTree]
      BY <1>2, <2>2 DEF MakeDest, Ends
    <3>2. dest' \in Dests
      BY <3>1, TreeTypes DEF Dests
    <3> QED BY <3>1, <3>2, ConfigKindAssumption
  <2>3. CASE Fill
    <3>1. pc = "fill" /\ (dest' = dest \/ dest' = [dest EXCEPT !.files = manifest])
      BY <2>3 DEF Fill
    <3>2. dest \in Dests /\ dest.by = "orca" /\ manifest \in Trees
      BY <1>1, <3>1 DEF CopyInv, TypeOK
    <3>3. dest' \in Dests /\ dest'.by = "orca"
      BY <3>1, <3>2 DEF Dests
    <3> QED BY <3>3, ConfigKindAssumption
  <2>4. CASE Events
    <3>1. pc' = pc /\ (dest' = dest \/ dest = None)
      BY <2>4, EventsAre DEF call, Start, Stop, StateFile, Edit, Corruption, Squat
    <3> QED BY <1>1, <1>2, <2>1, <3>1 DEF CopyInv
  <2>5. CASE \/ Looks("list", "look", "manifest") \/ Looks("list again", "look again", "verify")
             \/ Looks("list finish", "look finish", "marker")
    BY <1>2, <2>5, LooksGo
  <2>6. CASE UNCHANGED vars
    BY <2>1, <2>6 DEF vars, call, world
  <2> QED BY <1>2, <2>2, <2>3, <2>4, <2>5, <2>6, VerbsAre
     DEF Next, Call, Capture, BadWrite, CheckBackup, ReadManifest, VerifyPayload, Stage, Swap, SwapFails,
         SwapIsCutOff, StartFinish, Install, InstallIsCutOff, VerifyLive, VerifyCopy, Goes, Ends
<1>3. ASSUME pc' = "verify", NEW f \in Listed(manifest') \ (todo' \cup touched')
      PROVE  live'[f] = manifest'[f]
  <2>1. CASE todo' = Listed(manifest')
    BY <1>3, <2>1
  <2>2. CASE Looks("list again", "look again", "verify")
    <3>1. manifest' = manifest /\ todo' = Listed(manifest)
      BY <1>3, <2>2, LooksGo
    <3> QED BY <2>1, <3>1
  <2>3. CASE Install
    <3>1. manifest' = manifest /\ todo' = After("verify")
      BY <1>3, <2>3 DEF Install
    <3> QED BY <2>1, <3>1, ListedTypes
  <2>4. CASE VerifyLive
    <3>1. UNCHANGED <<live, manifest, touched>> /\ pc = "verify"
      BY <2>4 DEF VerifyLive, world, ghosts
    <3>2. PICK g \in todo : live[g] = manifest[g] /\ todo' = todo \ {g}
      BY <1>3, <2>4 DEF VerifyLive, Ends, AsListed
    <3>3. f = g \/ f \in Listed(manifest) \ (todo \cup touched)
      BY <1>3, <3>1, <3>2
    <3> QED BY <1>1, <3>1, <3>2, <3>3 DEF CopyInv
  <2>5. CASE Events
    <3>1. UNCHANGED <<pc, todo, manifest>>
      BY <2>5, EventsAre DEF call
    <3>2. UNCHANGED <<live, touched>> \/ \E g \in Files : Edit(g)
      BY <2>5, EventsAre DEF Start, Stop, StateFile, Corruption, Squat
    <3>3. CASE UNCHANGED <<live, touched>>
      BY <1>1, <1>3, <3>1, <3>3 DEF CopyInv
    <3>4. ASSUME NEW g \in Files, Edit(g)
          PROVE  live'[f] = manifest'[f]
      <4>1. touched' = touched \cup {g} /\ \E new : live' = [live EXCEPT ![g] = new]
        BY <1>3, <3>1, <3>4 DEF Edit
      <4>2. f # g /\ f \in Listed(manifest) \ (todo \cup touched) /\ f \in Files
        BY <1>3, <3>1, <4>1, ListedTypes
      <4>3. live'[f] = live[f]
        BY <1>1, <4>1, <4>2 DEF TypeOK, Trees
      <4> QED BY <1>1, <1>3, <3>1, <4>2, <4>3 DEF CopyInv
    <3> QED BY <3>2, <3>3, <3>4
  <2>6. CASE UNCHANGED vars
    BY <1>1, <1>3, <2>6 DEF CopyInv, vars, call, world, ghosts
  <2>7. CASE Looks("list", "look", "manifest") \/ Looks("list finish", "look finish", "marker")
    BY <1>3, <2>7, LooksGo
  <2> QED BY <1>3, <2>2, <2>3, <2>4, <2>5, <2>6, <2>7, VerbsAre
     DEF Next, Call, Capture, BadWrite, CheckBackup, ReadManifest, VerifyPayload, Stage, Swap, SwapFails,
         SwapIsCutOff, StartFinish, InstallIsCutOff, MakeDest, Fill, VerifyCopy, Goes, Ends
<1>4. CopyInv'
  BY <1>2, <1>3 DEF CopyInv
<1> QED BY <1>4

-----------------------------------------------------------------------------
(* The theorems *)

LEMMA KInvInit == Init => KInv
<1> SUFFICES ASSUME Init
             PROVE  KInv
  OBVIOUS
<1>1. /\ 1 \in Contents /\ 2 \in Contents
  BY ConfigKindAssumption DEF Contents
<1>2. live \in Trees /\ captured \in Trees /\ captured = [f \in Files |-> 1]
  BY <1>1 DEF Init, Trees
<1>3. missing_required(captured) = {}
  BY <1>2, ConfigKindAssumption DEF missing_required
<1>4. TypeOK
  <2>1. /\ slot \in Slots /\ stage \in Slots /\ manifest \in Trees /\ before \in Trees
    BY <1>2, TreeTypes DEF Init
  <2>2. /\ running \subseteq exists /\ exists \subseteq Containers /\ readable \subseteq Containers
        /\ stale = {} /\ touched = {} /\ todo = {}
    BY DEF Init
  <2>3. calls \in 0 .. MaxCalls /\ events \in 0 .. MaxEvents
    BY ConfigKindAssumption DEF Init
  <2>4. marker = None /\ dest = None /\ reply = "none" /\ swapped = FALSE
    BY DEF Init
  <2> QED BY <1>2, <2>1, <2>2, <2>3, <2>4 DEF TypeOK
<1>5. PlaceInv /\ StaleInv /\ CopyInv
  BY DEF Init, PlaceInv, StaleInv, CopyInv
<1>6. ManifestInv
  BY <1>3 DEF Init, ManifestInv, Verified, BackupOf
<1> QED BY <1>4, <1>5, <1>6 DEF KInv

\* The invariant behind them: who is where, that what has been verified is what was
\* captured, and who may still have loaded what was there before.
THEOREM ConfigKindInvariant == Spec => []KInv
<1>1. KInv /\ [Next]_vars => KInv'
  BY TypeStep, PlaceStep, ManifestStep, StaleStep, CopyStep DEF KInv
<1> QED BY KInvInit, <1>1, PTL DEF Spec

\* Every variable of ConfigKind has its type, whatever the calls and the events.
THEOREM ConfigKindTypeCorrect == Spec => []TypeOK
<1>1. KInv => TypeOK
  BY DEF KInv
<1> QED BY <1>1, ConfigKindInvariant, PTL

\* When a restore onto the live volume says ok, no container runs on the volume that
\* started before the files were all replaced (ensure_stopped, before and after).
THEOREM RestoreLeavesNobodyBehind == Spec => []NobodyRunsOnAMix
<1>1. KInv => NobodyRunsOnAMix
  BY DEF KInv, StaleInv, NobodyRunsOnAMix
<1> QED BY <1>1, ConfigKindInvariant, PTL

\* What a restore, or the finish of one, reports as restored is what the backup was
\* made of, file by file, but for what was written meanwhile (verified_manifest,
\* verify, finishing_manifest).
THEOREM RestoredIsCaptured == Spec => RestoredIsWhatWasCaptured
<1> DEFINE Theirs == IF verb # "config_restore" THEN touched ELSE {}
           There(f) == IF verb # "config_restore" THEN live[f] ELSE dest.files[f]
           Restored == /\ Required \subseteq Listed(captured)
                       /\ verb = "config_restore" => dest.by = "orca"
                       /\ \A f \in Listed(captured) \ Theirs : captured[f] = There(f)
<1>1. ASSUME KInv, Next, reply' = "ok", reply # "ok", verb # "backup"
      PROVE  Restored
  <2>1. TypeOK /\ PlaceInv /\ ManifestInv /\ CopyInv
    BY <1>1 DEF KInv
  <2>2. Required \subseteq Listed(captured)
    BY <2>1, VerifiedIsCaptured
  <2>3. VerifyLive \/ VerifyCopy
    <3>1. ~Events
      BY <1>1, EventsAre DEF call
    <3>2. ~CheckBackup
      BY <1>1, <2>1 DEF CheckBackup, PlaceInv
    <3>3. ~(\/ Looks("list", "look", "manifest") \/ Looks("list again", "look again", "verify")
            \/ Looks("list finish", "look finish", "marker"))
      BY <1>1, LooksAre
    <3> QED BY <1>1, <3>1, <3>2, <3>3, VerbsAre
       DEF Next, Call, Capture, BadWrite, ReadManifest, VerifyPayload, Stage, Swap, SwapFails,
           SwapIsCutOff, StartFinish, Install, InstallIsCutOff, MakeDest, Fill, Goes, Ends
  <2>4. CASE VerifyLive
    <3>1. verb # "config_restore" /\ manifest = captured
      BY <2>1, <2>4 DEF VerifyLive, PlaceInv, ManifestInv, Verified
    <3>2. PICK g \in todo : live[g] = manifest[g] /\ todo \ {g} = {}
      BY <1>1, <2>4 DEF VerifyLive, Ends, AsListed
    <3>3. \A f \in Listed(manifest) \ touched : live[f] = manifest[f]
      BY <2>1, <2>4, <3>2 DEF VerifyLive, CopyInv
    <3> QED BY <2>2, <3>1, <3>3
  <2>5. CASE VerifyCopy
    <3>1. verb = "config_restore" /\ manifest = captured /\ dest.by = "orca"
      BY <2>1, <2>5 DEF VerifyCopy, PlaceInv, ManifestInv, Verified, CopyInv
    <3>2. \A f \in Files : manifest[f] # 0 => dest.files[f] = manifest[f]
      BY <1>1, <2>5 DEF VerifyCopy, Verifies, Ends
    <3>3. \A f \in Listed(manifest) : dest.files[f] = manifest[f]
      BY <3>2 DEF Listed
    <3> QED BY <2>2, <3>1, <3>3
  <2> QED BY <2>3, <2>4, <2>5
<1>2. KInv /\ [Next]_vars =>
        [reply' = "ok" /\ reply # "ok" /\ verb # "backup" => Restored]_vars
  <2>1. CASE UNCHANGED vars
    BY <2>1
  <2> QED BY <1>1, <2>1
<1>3. Spec => [][reply' = "ok" /\ reply # "ok" /\ verb # "backup" => Restored]_vars
  <2> HIDE DEF Restored
  <2> QED BY <1>2, ConfigKindInvariant, PTL DEF Spec
<1> QED BY <1>3 DEF RestoredIsWhatWasCaptured
=============================================================================
