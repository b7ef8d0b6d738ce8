-------------------------- MODULE ConfirmedDelete --------------------------
(***************************************************************************)
(* Deleting backups after a dry run: pbs.group.delete (src/groups.rs) and  *)
(* pbs.namespace.delete with delete_groups (src/tools.rs, src/api.rs), as  *)
(* planned, confirmed and run by src/plan.rs.                              *)
(*                                                                         *)
(* A target is what one step deletes: a group in one datastore, or a       *)
(* namespace with every group in it.  A dry run shows a fingerprint of     *)
(* each target; execute reads everything again, refuses if a confirmed     *)
(* fingerprint is not there any more, and deletes.  Backups run meanwhile. *)
(*                                                                         *)
(* A snapshot is named by the second its backup began; no two begin in one.*)
(***************************************************************************)
EXTENDS Integers, FiniteSets

CONSTANTS
    NTargets,       \* targets, in the order of the plan
    Groups,
    TargetOf,       \* TargetOf[g]: the target that group g belongs to
    Namespaces,     \* targets that are namespaces
    MaxTime,        \* bound: backups begun
    MaxCalls        \* bound: calls of the verb

Targets == 1..NTargets
Times == 1..MaxTime
GroupsOf(t) == {g \in Groups : TargetOf[g] = t}

ASSUME DeleteAssumption ==
    /\ NTargets \in Nat /\ MaxTime \in Nat /\ MaxCalls \in Nat
    /\ IsFiniteSet(Groups)
    /\ TargetOf \in [Groups -> Targets]
    /\ Namespaces \subseteq Targets
    /\ \A g, h \in Groups : TargetOf[g] = TargetOf[h] /\ g # h => TargetOf[g] \in Namespaces

VARIABLES
    \* the server
    clock,
    snaps,      \* the snapshots of each group
    running,    \* the snapshot a running backup of the group will add, or 0
    spaces,     \* the namespaces that exist
    \* the call
    pc,
    execute,
    known,      \* the namespaces it listed
    unread,     \* the groups it has still to count
    view,       \* the snapshots of each group as it counted them
    steps,      \* the targets still to delete
    \* the operator
    items,      \* the items confirmed
    reply,
    calls,
    \* for stating properties
    shown,      \* what the dry run counted
    chosen,     \* the targets confirmed
    lost,       \* the snapshots this call deleted
    late        \* those that came after it had counted their group

server == <<clock, snaps, running, spaces>>
call == <<pc, execute, known, unread, view, steps>>
operator == <<items, reply, calls>>
ghosts == <<shown, chosen, lost, late>>
vars == <<server, call, operator, ghosts>>

Nothing == [g \in Groups |-> {}]
None == 0

Init ==
    /\ clock = 0 /\ snaps = Nothing /\ running = [g \in Groups |-> None]
    /\ spaces = Namespaces
    /\ pc = "idle" /\ execute = FALSE /\ known = {} /\ unread = {} /\ steps = {}
    /\ view = Nothing
    /\ items = {} /\ reply = "none" /\ calls = 0
    /\ shown = Nothing /\ chosen = {} /\ lost = {} /\ late = {}

-----------------------------------------------------------------------------
(* The server *)

InPlace(g) == TargetOf[g] \in Namespaces => TargetOf[g] \in spaces

BackupStarts(g) ==
    /\ running[g] = None /\ InPlace(g) /\ clock < MaxTime
    /\ clock' = clock + 1
    /\ running' = [running EXCEPT ![g] = clock + 1]
    /\ UNCHANGED <<snaps, spaces, call, operator, ghosts>>

\* A snapshot is there, and counted, once its backup, or the sync job that copies
\* it, has finished; its time is that of its beginning.  (A sync job that copies an
\* older snapshot than the group has is not modelled.)
BackupFinishes(g) ==
    /\ running[g] # None
    /\ snaps' = [snaps EXCEPT ![g] = @ \cup {running[g]}]
    /\ running' = [running EXCEPT ![g] = None]
    /\ late' = IF pc # "idle" /\ execute /\ g \notin unread
               THEN late \cup {running[g]} ELSE late
    /\ UNCHANGED <<clock, spaces, call, operator, shown, chosen, lost>>

\* A prune job or another admin removes a snapshot.
SnapshotRemoved(g) ==
    /\ \E s \in snaps[g] : snaps' = [snaps EXCEPT ![g] = @ \ {s}]
    /\ UNCHANGED <<clock, running, spaces, call, operator, ghosts>>

Server == \E g \in Groups : BackupStarts(g) \/ BackupFinishes(g) \/ SnapshotRemoved(g)

-----------------------------------------------------------------------------
(* The plan *)

Contents(t, v) == UNION {v[g] : g \in GroupsOf(t)}

\* Mutant: no backup is -1.
LatestOrMinusOne(S) == IF S = {} THEN -1 ELSE CHOOSE s \in S : \A r \in S : r <= s

\* The latest backup, 0 if there is none.
Latest(S) == IF S = {} THEN 0 ELSE CHOOSE s \in S : \A r \in S : r <= s

\* Mutant: the fingerprint is the latest backup only.
LatestOnly(t, v) ==
    [target |-> t, groups |-> 0, snapshots |-> 0, last |-> Latest(Contents(t, v))]

\* <action> <target>#g<groups>.s<snapshots>@<last backup>; a group has no g.
Item(t, v) ==
    [target |-> t,
     groups |-> Cardinality({g \in GroupsOf(t) : v[g] # {}}),
     snapshots |-> Cardinality(Contents(t, v)),
     last |-> Latest(Contents(t, v))]

\* A group that is not there is only noted, and so is a namespace.
Planned(t) == IF t \in Namespaces THEN t \in known ELSE Contents(t, view) # {}

Items == {Item(t, view) : t \in {u \in Targets : Planned(u)}}

Return(r) ==
    /\ pc' = "idle" /\ steps' = {} /\ unread' = {} /\ reply' = r
    /\ UNCHANGED <<execute, known, view>>

\* The namespaces are listed first, then each group is counted.
Call(ex) ==
    /\ pc = "idle" /\ calls < MaxCalls
    /\ calls' = calls + 1 /\ execute' = ex
    /\ known' = spaces /\ unread' = Groups /\ view' = Nothing
    /\ reply' = "none" /\ pc' = "read"
    /\ late' = {} /\ lost' = {}
    /\ UNCHANGED <<server, steps, items, shown, chosen>>

DryRun == Call(FALSE)
Execute == Call(TRUE)

CountGroup ==
    /\ pc = "read"
    /\ \E g \in unread :
        /\ unread' = unread \ {g}
        /\ view' = [view EXCEPT ![g] = IF TargetOf[g] \in Namespaces \ known THEN {} ELSE snaps[g]]
    /\ UNCHANGED <<server, pc, execute, known, steps, operator, ghosts>>

\* The dry run returns its items; the operator confirms some of them.
ShowPlan ==
    /\ pc = "read" /\ unread = {} /\ ~execute
    /\ \E T \in SUBSET {u \in Targets : Planned(u)} :
        items' = {Item(t, view) : t \in T} /\ chosen' = T
    /\ shown' = view
    /\ Return("planned")
    /\ UNCHANGED <<server, calls, lost, late>>

\* refuse_drifted: some confirmed item changed or vanished.
Drifted == ~(items \subseteq Items)

Refuse ==
    /\ pc = "read" /\ unread = {} /\ execute
    /\ Drifted \/ (items = {} /\ Items # {})
    /\ Return("refused")
    /\ UNCHANGED <<server, items, calls, ghosts>>

\* Mutant: everything planned is deleted, confirmed or not.
KeepAll == {t \in Targets : Planned(t)}

\* confirm: the planned steps whose item was confirmed.
Kept == {t \in Targets : Planned(t) /\ Item(t, view) \in items}

StartDeleting ==
    /\ pc = "read" /\ unread = {} /\ execute
    /\ ~Drifted /\ (items # {} \/ Items = {})
    /\ steps' = Kept /\ pc' = "delete"
    /\ UNCHANGED <<server, execute, known, unread, view, operator, ghosts>>

-----------------------------------------------------------------------------
(* run: the kept steps in order, up to the first that fails *)

NextStep(t) == t \in steps /\ \A u \in steps : t <= u

\* The server removes the groups in R.
Removes(R) ==
    /\ snaps' = [g \in Groups |-> IF g \in R THEN {} ELSE snaps[g]]
    /\ lost' = lost \cup UNION {snaps[g] : g \in R}

\* Mutant: a failed step does not end the run.
AfterFailureGoOn(t) ==
    /\ steps' = steps \ {t} /\ UNCHANGED <<pc, execute, known, unread, view, reply>>

\* A failed step ends the run.
AfterFailure(t) == Return("failed")

Delete ==
    /\ pc = "delete"
    /\ \E t \in Targets : NextStep(t) /\
        \/ /\ \A g \in GroupsOf(t) : running[g] = None
           /\ Removes(GroupsOf(t)) /\ spaces' = spaces \ {t}
           /\ steps' = steps \ {t}
           /\ UNCHANGED <<pc, execute, known, unread, view, reply>>
        \/ \* refused, broken off half way, or its answer was lost
           /\ \E R \in SUBSET {g \in GroupsOf(t) : running[g] = None} : Removes(R)
           /\ AfterFailure(t)
           /\ UNCHANGED spaces
    /\ UNCHANGED <<clock, running, items, calls, shown, chosen, late>>

Finish ==
    /\ pc = "delete" /\ steps = {} /\ Return("applied")
    /\ UNCHANGED <<server, items, calls, ghosts>>

Next ==
    \/ Server
    \/ DryRun \/ CountGroup \/ ShowPlan
    \/ Execute \/ Refuse \/ StartDeleting \/ Delete \/ Finish

Spec == Init /\ [][Next]_vars

-----------------------------------------------------------------------------
(* Properties *)

\* Every variable keeps its type.
TypeOK ==
    /\ clock \in 0..MaxTime
    /\ snaps \in [Groups -> SUBSET Times] /\ running \in [Groups -> Times \cup {None}]
    /\ spaces \subseteq Namespaces /\ known \subseteq Namespaces
    /\ pc \in {"idle", "read", "delete"} /\ execute \in BOOLEAN
    /\ unread \subseteq Groups /\ view \in [Groups -> SUBSET Times]
    /\ steps \subseteq Targets /\ chosen \subseteq Targets
    /\ items \subseteq [target : Targets, groups : Nat, snapshots : Nat, last : Nat]
    /\ reply \in {"none", "planned", "refused", "failed", "applied"}
    /\ calls \in 0..MaxCalls
    /\ shown \in [Groups -> SUBSET Times]
    /\ lost \subseteq Times /\ late \subseteq Times

\* A target is only deleted if its contents are those the dry run showed: "a
\* confirmed delete whose contents changed or vanished is refused outright".
ActsOnWhatWasShown ==
    pc = "delete" => \A t \in chosen : \A g \in GroupsOf(t) : view[g] = shown[g]

\* Whatever the order of backups, prunes, counting and deleting, a snapshot that
\* is deleted was shown and confirmed, or came after the count of its group.
OnlyConfirmedIsLost ==
    lost \subseteq late \cup UNION {Contents(t, shown) : t \in chosen}

\* A refusal leaves everything, also when only one of several confirmed targets
\* drifted; a report of success means every confirmed snapshot is gone.
ReplyIsTrue ==
    /\ reply = "refused" => lost = {}
    /\ reply = "applied" =>
          \A t \in chosen : Contents(t, shown) \cap Contents(t, snaps) = {}

-----------------------------------------------------------------------------
(* The inductive invariant, and what the fingerprint is worth for any target *)

\* Whatever S has and R lacks is later than all of R.
Later(S, R) == \A s \in S \ R : \A r \in R : s > r

\* A group only ever gains snapshots later than all it had.
GrowsAtTheEnd ==
    \A g \in Groups :
        /\ Later(snaps[g], view[g]) /\ Later(snaps[g], shown[g]) /\ Later(view[g], shown[g])
        /\ running[g] # None =>
              \A s \in snaps[g] \cup view[g] \cup shown[g] : s < running[g]
        /\ running[g] <= clock
        /\ \A s \in snaps[g] \cup view[g] \cup shown[g] : s <= clock

\* No two groups have, or had when they were counted, a snapshot of the same second.
Known(g) == snaps[g] \cup view[g] \cup shown[g] \cup ({running[g]} \ {None})
Distinct == \A g, h \in Groups : g # h => Known(g) \cap Known(h) = {}

\* The confirmed items are those of the targets chosen, as they were shown.
ItemsOfChosen == items = {Item(t, shown) : t \in chosen}

\* What is deleted, or has been, looks as it did when it was shown.
LooksAsShown ==
    /\ pc = "read" => lost = {}
    /\ pc = "delete" \/ lost # {} => \A t \in chosen : Item(t, view) = Item(t, shown)

Inv == TypeOK /\ GrowsAtTheEnd /\ Distinct /\ ItemsOfChosen /\ LooksAsShown

\* A target of one group, for which the fingerprint is exact.
Alone(t) == \A g, h \in GroupsOf(t) : g = h
OneGroupEach == \A t \in Targets : Alone(t)

\* A target that holds something else than was shown is deleted only if, since it was
\* shown, a snapshot of it went and another came whose backup had begun before that of
\* the latest, which is of another group.
DeceivedByTwoGroups ==
    pc = "delete" =>
        \A t \in chosen :
            \/ \A g \in GroupsOf(t) : view[g] = shown[g]
            \/ \E g, h \in GroupsOf(t) :
                  /\ g # h
                  /\ \E s \in view[g] \ shown[g], l \in view[h] \cap shown[h] : s < l
                  /\ Contents(t, shown) \ Contents(t, view) # {}

\* A snapshot that is deleted was shown and confirmed, came after the count of its group,
\* or is older than the latest that was shown of a target of several groups.
NothingNewerIsLost ==
    \A s \in lost \ late :
        \E t \in chosen :
            \/ s \in Contents(t, shown)
            \/ ~Alone(t) /\ s < Latest(Contents(t, shown))

\* A namespace that has been removed holds nothing, and nothing is backed up into it.
GoneIsEmpty ==
    /\ pc # "idle" => spaces \subseteq known
    /\ \A g \in Groups : TargetOf[g] \in Namespaces \ spaces => snaps[g] = {} /\ running[g] = None

\* What an execute has counted, or what has come since, is all there is; it deletes what
\* was chosen and nothing else.
Counted ==
    /\ pc # "idle" /\ execute =>
          \A g \in Groups \ unread : snaps[g] \subseteq view[g] \cup late
    /\ pc = "delete" => execute /\ unread = {} /\ steps \subseteq chosen

\* What is deleted was counted by the call that deletes it, or came after.
OnlyCountedIsLost == lost \subseteq late \cup UNION {Contents(t, view) : t \in chosen}

\* What has been deleted so far, and what a reply says of it.
Deleted(done) == \A t \in done : \A g \in GroupsOf(t) : shown[g] \cap snaps[g] = {}
Progress ==
    /\ pc # "idle" => reply = "none"
    /\ pc = "delete" => Deleted(chosen \ steps)
    /\ reply = "refused" => lost = {}
    /\ reply = "applied" => Deleted(chosen)

LossInv == Inv /\ GoneIsEmpty /\ Counted /\ OnlyCountedIsLost /\ Progress
=============================================================================
