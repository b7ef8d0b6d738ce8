---------------------------- MODULE DeleteProofs ----------------------------
(***************************************************************************)
(* What the fingerprint of ConfirmedDelete is worth.  For a target of one  *)
(* group it is exact: no order of backups, prunes and calls makes it look  *)
(* as it was shown when it holds something else; for one of several groups *)
(* it misses one thing, which is stated.  So what is lost was confirmed,   *)
(* or is older than what was, and what a call replies is so.               *)
(***************************************************************************)
EXTENDS ConfirmedDelete, FiniteSetTheorems, WellFoundedInduction, TLAPS

(* Sets of snapshots *)

LEMMA TimesFinite ==
    ASSUME NEW S \in SUBSET Times
    PROVE  IsFiniteSet(S) /\ Cardinality(S) \in Nat
<1>1. IsFiniteSet(Times)
  BY FS_Interval, DeleteAssumption DEF Times
<1> QED BY <1>1, FS_Subset, FS_CardinalityType

\* The least of what is left to MaxTime gives the latest.
LEMMA HasLatest ==
    ASSUME NEW S \in SUBSET Times, S # {}
    PROVE  \E s \in S : \A r \in S : r <= s
<1> DEFINE T == {MaxTime - s : s \in S}
<1> DEFINE R == OpToRel(<, Nat)
<1>1. T \subseteq Nat /\ T # {}
  BY DeleteAssumption DEF Times
<1>2. \A x, y \in Nat : y < x => <<y, x>> \in R
  BY DEF OpToRel
<1>3. IsWellFoundedOn(R, Nat)
  BY NatLessThanWellFounded
<1> HIDE DEF R
<1>4. PICK x \in T : \A y \in T : ~(<<y, x>> \in R)
  <2> HIDE DEF T
  <2> QED BY <1>1, <1>3, WFMin
<1>5. \A y \in T : x <= y
  <2> HIDE DEF T
  <2>1. \A y \in T : x \in Nat /\ y \in Nat /\ ~(y < x)
    BY <1>1, <1>2, <1>4
  <2> QED BY <2>1
<1>6. PICK s \in S : x = MaxTime - s
  BY <1>4
<1>7. ASSUME NEW r \in S PROVE r <= s
  <2>1. MaxTime - r \in T
    OBVIOUS
  <2>2. MaxTime - s <= MaxTime - r
    BY <1>5, <1>6, <2>1
  <2> QED BY <2>2, DeleteAssumption DEF Times
<1> QED BY <1>7

LEMMA LatestIsMax ==
    ASSUME NEW S \in SUBSET Times, S # {}
    PROVE  Latest(S) \in S /\ \A r \in S : r <= Latest(S)
BY HasLatest DEF Latest

LEMMA LatestType ==
    ASSUME NEW S \in SUBSET Times
    PROVE  Latest(S) \in Nat
<1>1. CASE S = {}
  BY <1>1 DEF Latest
<1>2. CASE S # {}
  <2>1. S \subseteq Nat
    BY DEF Times
  <2>2. Latest(S) \in S
    BY <1>2, LatestIsMax
  <2> QED BY <2>1, <2>2
<1> QED BY <1>1, <1>2

LEMMA ItemType ==
    ASSUME NEW t \in Targets, NEW v \in [Groups -> SUBSET Times]
    PROVE  Item(t, v) \in [target : Targets, groups : Nat, snapshots : Nat, last : Nat]
<1>1. Contents(t, v) \in SUBSET Times
  BY DEF Contents, GroupsOf
<1>2. Cardinality({g \in GroupsOf(t) : v[g] # {}}) \in Nat
  <2>1. {g \in GroupsOf(t) : v[g] # {}} \in SUBSET Groups
    BY DEF GroupsOf
  <2> QED BY <2>1, FS_Subset, FS_CardinalityType, DeleteAssumption
<1> QED BY <1>1, <1>2, TimesFinite, LatestType DEF Item

-----------------------------------------------------------------------------
(* The invariant *)

LEMMA InitInv == Init => Inv
<1> SUFFICES ASSUME Init PROVE Inv
  OBVIOUS
<1>1. TypeOK
  <2>1. Nothing \in [Groups -> SUBSET Times]
    BY DEF Nothing
  <2>2. running \in [Groups -> Times \cup {None}]
    BY DEF Init
  <2>3. clock \in 0..MaxTime /\ calls \in 0..MaxCalls
    BY DeleteAssumption DEF Init
  <2>4. /\ spaces \subseteq Namespaces /\ known \subseteq Namespaces /\ unread \subseteq Groups
        /\ steps \subseteq Targets /\ chosen \subseteq Targets
        /\ lost \subseteq Times /\ late \subseteq Times
        /\ items \subseteq [target : Targets, groups : Nat, snapshots : Nat, last : Nat]
    BY DEF Init
  <2>5. pc = "idle" /\ execute \in BOOLEAN /\ reply = "none"
    BY DEF Init
  <2>6. snaps = Nothing /\ view = Nothing /\ shown = Nothing
    BY DEF Init
  <2> QED BY <2>1, <2>2, <2>3, <2>4, <2>5, <2>6 DEF TypeOK
<1>2. GrowsAtTheEnd
  BY DeleteAssumption DEF Init, Nothing, None, GrowsAtTheEnd, Later
<1>3. ItemsOfChosen /\ LooksAsShown
  BY DEF Init, ItemsOfChosen, LooksAsShown
<1>4. Distinct
  BY DEF Init, Nothing, Distinct, Known
<1> QED BY <1>1, <1>2, <1>3, <1>4 DEF Inv

LEMMA ServerStep ==
    ASSUME Inv, NEW g \in Groups, BackupStarts(g) \/ BackupFinishes(g) \/ SnapshotRemoved(g)
    PROVE  Inv'
<1> USE DeleteAssumption DEF Inv, Times
<1>1. ItemsOfChosen' /\ LooksAsShown'
  <2>1. UNCHANGED <<pc, view, items, shown, chosen, lost>>
    BY DEF BackupStarts, BackupFinishes, SnapshotRemoved, call, operator, ghosts
  <2> QED BY <2>1 DEF ItemsOfChosen, LooksAsShown
<1>2. CASE BackupStarts(g)
  <2>1. TypeOK'
    BY <1>2 DEF BackupStarts, call, operator, ghosts, TypeOK
  <2>2. GrowsAtTheEnd'
    BY <1>2 DEF BackupStarts, call, operator, ghosts, TypeOK, GrowsAtTheEnd, Later, None
  <2>3. Distinct'
    BY <1>2 DEF BackupStarts, call, operator, ghosts, TypeOK, GrowsAtTheEnd, Distinct, Known, None
  <2> QED BY <1>1, <2>1, <2>2, <2>3
<1>3. CASE BackupFinishes(g)
  <2>1. TypeOK'
    BY <1>3 DEF BackupFinishes, call, operator, ghosts, TypeOK, None
  <2>2. GrowsAtTheEnd'
    BY <1>3 DEF BackupFinishes, call, operator, ghosts, TypeOK, GrowsAtTheEnd, Later, None
  <2>3. Distinct'
    BY <1>3 DEF BackupFinishes, call, operator, ghosts, TypeOK, GrowsAtTheEnd, Distinct, Known, None
  <2> QED BY <1>1, <2>1, <2>2, <2>3
<1>4. CASE SnapshotRemoved(g)
  <2>1. TypeOK'
    BY <1>4 DEF SnapshotRemoved, call, operator, ghosts, TypeOK
  <2>2. GrowsAtTheEnd'
    BY <1>4 DEF SnapshotRemoved, call, operator, ghosts, TypeOK, GrowsAtTheEnd, Later, None
  <2>3. Distinct'
    BY <1>4 DEF SnapshotRemoved, call, operator, ghosts, TypeOK, GrowsAtTheEnd, Distinct, Known, None
  <2> QED BY <1>1, <2>1, <2>2, <2>3
<1> QED BY <1>2, <1>3, <1>4

\* Counting, showing and refusing.
LEMMA PlanStep ==
    ASSUME Inv, (\E ex \in BOOLEAN : Call(ex)) \/ CountGroup \/ ShowPlan \/ Refuse
    PROVE  Inv'
<1> USE DeleteAssumption DEF Inv
<1>1. CASE \E ex \in BOOLEAN : Call(ex)
  <2>1. TypeOK'
    BY <1>1 DEF Call, server, Nothing, TypeOK
  <2>2. GrowsAtTheEnd'
    BY <1>1 DEF Call, server, Nothing, TypeOK, GrowsAtTheEnd, Later
  <2>3. ItemsOfChosen' /\ LooksAsShown'
    BY <1>1 DEF Call, server, ItemsOfChosen, LooksAsShown, Item, Contents
  <2>4. Distinct'
    BY <1>1 DEF Call, server, Nothing, TypeOK, Distinct, Known
  <2> QED BY <2>1, <2>2, <2>3, <2>4
<1>2. CASE CountGroup
  <2>1. TypeOK'
    BY <1>2 DEF CountGroup, server, operator, ghosts, TypeOK
  <2>2. GrowsAtTheEnd'
    BY <1>2 DEF CountGroup, server, operator, ghosts, TypeOK, GrowsAtTheEnd, Later
  <2>3. ItemsOfChosen' /\ LooksAsShown'
    BY <1>2 DEF CountGroup, server, operator, ghosts, ItemsOfChosen, LooksAsShown, Item, Contents
  <2>4. Distinct'
    BY <1>2 DEF CountGroup, server, operator, ghosts, TypeOK, Distinct, Known
  <2> QED BY <2>1, <2>2, <2>3, <2>4
<1>3. CASE ShowPlan
  <2>1. PICK T \in SUBSET {u \in Targets : Planned(u)} :
            items' = {Item(t, view) : t \in T} /\ chosen' = T
    BY <1>3 DEF ShowPlan
  <2>2. T \subseteq Targets
    OBVIOUS
  <2>3. items' \subseteq [target : Targets, groups : Nat, snapshots : Nat, last : Nat]
    BY <2>1, <2>2, ItemType DEF TypeOK
  <2>4. TypeOK'
    BY <1>3, <2>1, <2>2, <2>3 DEF ShowPlan, Return, server, TypeOK
  <2>5. GrowsAtTheEnd'
    BY <1>3 DEF ShowPlan, Return, server, TypeOK, GrowsAtTheEnd, Later
  <2>6. ItemsOfChosen' /\ LooksAsShown'
    BY <1>3, <2>1 DEF ShowPlan, Return, ItemsOfChosen, LooksAsShown, Item, Contents
  <2>7. Distinct'
    BY <1>3 DEF ShowPlan, Return, server, TypeOK, Distinct, Known
  <2> QED BY <2>4, <2>5, <2>6, <2>7
<1>4. CASE Refuse
  <2>1. TypeOK'
    BY <1>4 DEF Refuse, Return, server, ghosts, TypeOK
  <2>2. GrowsAtTheEnd' /\ Distinct'
    BY <1>4 DEF Refuse, Return, server, ghosts, GrowsAtTheEnd, Later, Distinct, Known
  <2>3. ItemsOfChosen' /\ LooksAsShown'
    BY <1>4 DEF Refuse, Return, ghosts, ItemsOfChosen, LooksAsShown
  <2> QED BY <2>1, <2>2, <2>3
<1> QED BY <1>1, <1>2, <1>3, <1>4

\* The step the fingerprints are for: nothing has drifted.
LEMMA StartDeletingStep ==
    ASSUME Inv, StartDeleting
    PROVE  Inv'
<1> USE DeleteAssumption DEF Inv
<1>1. TypeOK'
  BY DEF StartDeleting, server, operator, ghosts, Kept, TypeOK
<1>2. GrowsAtTheEnd' /\ Distinct' /\ ItemsOfChosen'
  BY DEF StartDeleting, server, operator, ghosts, GrowsAtTheEnd, Later, Distinct, Known,
         ItemsOfChosen, Item, Contents
<1>3. ASSUME NEW t \in chosen
      PROVE  Item(t, view) = Item(t, shown)
  <2>1. Item(t, shown) \in Items
    BY DEF StartDeleting, Drifted, ItemsOfChosen
  <2> QED BY <2>1 DEF Items, Item
<1>4. LooksAsShown'
  <2>1. pc' = "delete" /\ UNCHANGED <<view, shown, chosen>>
    BY DEF StartDeleting, operator, ghosts
  <2> QED BY <1>3, <2>1 DEF LooksAsShown, Item, Contents
<1> QED BY <1>1, <1>2, <1>4

\* Deleting only makes the groups smaller.
LEMMA DeleteStep ==
    ASSUME Inv, Delete \/ Finish
    PROVE  Inv'
<1> USE DeleteAssumption DEF Inv
<1>1. CASE Delete
  <2>1. PICK R \in SUBSET Groups : Removes(R)
    BY <1>1 DEF Delete, GroupsOf
  <2>2. pc' \in {"idle", "delete"} /\ steps' \subseteq Targets /\ spaces' \subseteq Namespaces
        /\ unread' \subseteq Groups /\ reply' \in {reply, "failed"}
        /\ UNCHANGED <<clock, running, execute, known, view, items, calls, shown, chosen, late>>
        /\ pc = "delete"
    BY <1>1 DEF Delete, AfterFailure, Return, TypeOK
  <2>3. snaps' \in [Groups -> SUBSET Times] /\ lost' \subseteq Times
        /\ \A g \in Groups : snaps'[g] \subseteq snaps[g]
    BY <2>1 DEF Removes, TypeOK
  <2>4. TypeOK'
    BY <2>2, <2>3 DEF TypeOK
  <2>5. GrowsAtTheEnd'
    BY <2>2, <2>3 DEF GrowsAtTheEnd, Later
  <2>6. ItemsOfChosen' /\ LooksAsShown'
    BY <2>2 DEF ItemsOfChosen, LooksAsShown
  <2>7. Distinct'
    BY <2>2, <2>3 DEF Distinct, Known
  <2> QED BY <2>4, <2>5, <2>6, <2>7
<1>2. CASE Finish
  <2>1. TypeOK'
    BY <1>2 DEF Finish, Return, server, ghosts, TypeOK
  <2>2. GrowsAtTheEnd' /\ Distinct'
    BY <1>2 DEF Finish, Return, server, ghosts, GrowsAtTheEnd, Later, Distinct, Known
  <2>3. ItemsOfChosen' /\ LooksAsShown'
    BY <1>2 DEF Finish, Return, ghosts, ItemsOfChosen, LooksAsShown
  <2> QED BY <2>1, <2>2, <2>3
<1> QED BY <1>1, <1>2

LEMMA StutterStep ==
    ASSUME Inv, UNCHANGED vars
    PROVE  Inv'
<1> USE DEF vars, server, call, operator, ghosts, Inv
<1>1. TypeOK'
  BY DEF TypeOK
<1>2. GrowsAtTheEnd' /\ Distinct'
  BY DEF GrowsAtTheEnd, Later, Distinct, Known
<1>3. ItemsOfChosen' /\ LooksAsShown'
  BY DEF ItemsOfChosen, LooksAsShown
<1> QED BY <1>1, <1>2, <1>3

-----------------------------------------------------------------------------
(* What is lost, and what is said of it *)

LEMMA TypeStep == TypeOK /\ [Next]_vars => TypeOK'
<1> SUFFICES ASSUME TypeOK, [Next]_vars PROVE TypeOK'
  OBVIOUS
<1> USE DeleteAssumption
<1>1. ASSUME NEW g \in Groups, BackupStarts(g) PROVE TypeOK'
  BY <1>1 DEF BackupStarts, call, operator, ghosts, TypeOK, Times
<1>2. ASSUME NEW g \in Groups, BackupFinishes(g) PROVE TypeOK'
  BY <1>2 DEF BackupFinishes, call, operator, ghosts, TypeOK, None, Times
<1>3. ASSUME NEW g \in Groups, SnapshotRemoved(g) PROVE TypeOK'
  BY <1>3 DEF SnapshotRemoved, call, operator, ghosts, TypeOK
<1>4. ASSUME NEW ex \in BOOLEAN, Call(ex) PROVE TypeOK'
  BY <1>4 DEF Call, server, Nothing, TypeOK
<1>5. CASE CountGroup
  BY <1>5 DEF CountGroup, server, operator, ghosts, TypeOK
<1>6. CASE ShowPlan
  <2>1. PICK T \in SUBSET {u \in Targets : Planned(u)} :
            items' = {Item(t, view) : t \in T} /\ chosen' = T
    BY <1>6 DEF ShowPlan
  <2>2. items' \subseteq [target : Targets, groups : Nat, snapshots : Nat, last : Nat]
    BY <2>1, ItemType DEF TypeOK
  <2> QED BY <1>6, <2>1, <2>2 DEF ShowPlan, Return, server, TypeOK
<1>7. CASE Refuse
  BY <1>7 DEF Refuse, Return, server, ghosts, TypeOK
<1>8. CASE StartDeleting
  BY <1>8 DEF StartDeleting, server, operator, ghosts, Kept, TypeOK
<1>9. CASE Delete
  <2>1. PICK R \in SUBSET Groups : Removes(R)
    BY <1>9 DEF Delete, GroupsOf
  <2>2. pc' \in {"idle", "delete"} /\ steps' \subseteq Targets /\ spaces' \subseteq Namespaces
        /\ unread' \subseteq Groups /\ reply' \in {reply, "failed"}
        /\ UNCHANGED <<clock, running, execute, known, view, items, calls, shown, chosen, late>>
    BY <1>9 DEF Delete, AfterFailure, Return, TypeOK
  <2>3. snaps' \in [Groups -> SUBSET Times] /\ lost' \subseteq Times
    BY <2>1 DEF Removes, TypeOK
  <2> QED BY <2>2, <2>3 DEF TypeOK
<1>10. CASE Finish
  BY <1>10 DEF Finish, Return, server, ghosts, TypeOK
<1>11. CASE UNCHANGED vars
  BY <1>11 DEF vars, server, call, operator, ghosts, TypeOK
<1> QED BY <1>1, <1>2, <1>3, <1>4, <1>5, <1>6, <1>7, <1>8, <1>9, <1>10, <1>11
        DEF Next, Server, DryRun, Execute

\* Every variable keeps its type, whatever the targets hold.
THEOREM DeleteTypeCorrect == Spec => []TypeOK
<1>1. Init => TypeOK
  BY InitInv DEF Inv
<1> QED BY <1>1, TypeStep, PTL DEF Spec

LEMMA InvStep == Inv /\ [Next]_vars => Inv'
<1> SUFFICES ASSUME Inv, [Next]_vars PROVE Inv'
  OBVIOUS
<1>1. CASE Server
  BY <1>1, ServerStep DEF Server
<1>2. CASE DryRun \/ Execute \/ CountGroup \/ ShowPlan \/ Refuse
  BY <1>2, PlanStep DEF DryRun, Execute
<1>3. CASE StartDeleting
  BY <1>3, StartDeletingStep
<1>4. CASE Delete \/ Finish
  BY <1>4, DeleteStep
<1>5. CASE UNCHANGED vars
  BY <1>5, StutterStep
<1> QED BY <1>1, <1>2, <1>3, <1>4, <1>5 DEF Next

(* What a target can hold that looks as it was shown.  If it holds something else a  *)
(* snapshot that was shown went, and one came that is older than the latest, so of   *)
(* another group than that one.                                                      *)
LEMMA Deception ==
    ASSUME Inv, NEW t \in Targets, Item(t, view) = Item(t, shown),
           NEW g \in GroupsOf(t), view[g] # shown[g]
    PROVE  /\ Contents(t, shown) \ Contents(t, view) # {}
           /\ \E k, h \in GroupsOf(t) :
                /\ k # h
                /\ \E s \in view[k] \ shown[k], l \in view[h] \cap shown[h] : s < l
<1> DEFINE S == Contents(t, view)  R == Contents(t, shown)
<1>1. S \in SUBSET Times /\ R \in SUBSET Times /\ \A h \in GroupsOf(t) : h \in Groups
  BY DEF Contents, GroupsOf, Inv, TypeOK
<1>2. Cardinality(S) = Cardinality(R) /\ Latest(S) = Latest(R)
  BY DEF Item
<1>3. \A k, h \in GroupsOf(t) : \A x \in view[k] \cup shown[k] : x \in view[h] \cup shown[h] => k = h
  BY <1>1 DEF Inv, Distinct, Known
<1>4. S # R
  <2>1. PICK x \in view[g] \cup shown[g] : ~(x \in view[g] <=> x \in shown[g])
    <3>1. view[g] \in SUBSET Times /\ shown[g] \in SUBSET Times
      BY <1>1 DEF Inv, TypeOK
    <3> QED BY <3>1
  <2>2. x \in S <=> x \in view[g]
    BY <1>3, <2>1 DEF Contents
  <2>3. x \in R <=> x \in shown[g]
    BY <1>3, <2>1 DEF Contents
  <2> QED BY <2>1, <2>2, <2>3
<1>5. R \ S # {} /\ S \ R # {}
  <2>1. IsFiniteSet(S) /\ IsFiniteSet(R)
    BY <1>1, TimesFinite
  <2>2. ~(S \subseteq R) /\ ~(R \subseteq S)
    <3> HIDE DEF S, R
    <3> QED BY <1>2, <1>4, <2>1, FS_Subset
  <2> QED BY <2>2
<1>6. PICK s \in S \ R : TRUE
  BY <1>5
<1>7. PICK k \in GroupsOf(t) : s \in view[k] \ shown[k]
  BY <1>6 DEF Contents
<1>8. S # {} /\ R # {}
  BY <1>5
<1>9. Latest(S) \in S \cap R /\ \A x \in S : x <= Latest(S)
  <2> HIDE DEF S, R
  <2> QED BY <1>1, <1>2, <1>8, LatestIsMax
<1> DEFINE l == Latest(S)
<1>10. PICK h \in GroupsOf(t) : l \in shown[h]
  BY <1>9 DEF Contents
<1>11. l \in view[h]
  <2>1. PICK m \in GroupsOf(t) : l \in view[m]
    BY <1>9 DEF Contents
  <2> HIDE DEF l
  <2> QED BY <1>3, <1>10, <2>1
<1>12. s < l
  <2>1. s \in S /\ s \notin R /\ l \in S /\ l \in R /\ s <= l
    <3> HIDE DEF S, R
    <3> QED BY <1>6, <1>9
  <2>2. s \in Nat /\ l \in Nat
    <3> HIDE DEF S, R, l
    <3> QED BY <1>1, <2>1 DEF Times
  <2>3. s # l
    <3> HIDE DEF S, R, l
    <3> QED BY <2>1
  <2> HIDE DEF l
  <2> QED BY <2>1, <2>2, <2>3
<1>13. k # h
  <2> HIDE DEF l
  <2>1. \A x \in shown[k] : s > x
    BY <1>1, <1>7 DEF Inv, GrowsAtTheEnd, Later
  <2>2. \A x \in shown[k] : x \in Nat
    BY <1>1 DEF Inv, TypeOK, Times
  <2>3. s \in Nat
    BY <1>1, <1>6 DEF Times
  <2> QED BY <1>10, <1>12, <2>1, <2>2, <2>3
<1> HIDE DEF l, S, R
<1>14. \E k0, h0 \in GroupsOf(t) :
          k0 # h0 /\ \E s0 \in view[k0] \ shown[k0], l0 \in view[h0] \cap shown[h0] : s0 < l0
  BY <1>7, <1>10, <1>11, <1>12, <1>13
<1> QED BY <1>5, <1>14 DEF S, R

LEMMA AloneIsExact ==
    ASSUME Inv, NEW t \in Targets, Item(t, view) = Item(t, shown), Alone(t)
    PROVE  \A g \in GroupsOf(t) : view[g] = shown[g]
BY Deception DEF Alone

LEMMA InvHolds == Spec => []Inv
BY InitInv, InvStep, PTL DEF Spec

\* If every target is one group, a target is deleted only when it holds what the
\* dry run showed: the count and the latest backup tell its contents apart.
THEOREM FingerprintIsExact ==
    ASSUME OneGroupEach
    PROVE  Spec => []ActsOnWhatWasShown
<1>1. Inv => ActsOnWhatWasShown
  <2> SUFFICES ASSUME Inv, pc = "delete", NEW t \in chosen, NEW g \in GroupsOf(t)
               PROVE  view[g] = shown[g]
    BY DEF ActsOnWhatWasShown
  <2>1. t \in Targets /\ Item(t, view) = Item(t, shown)
    BY DEF Inv, LooksAsShown, TypeOK
  <2> QED BY <2>1, AloneIsExact DEF OneGroupEach
<1> QED BY <1>1, InvHolds, PTL

\* Whatever the targets hold, what the fingerprint lets pass is this and nothing else: a
\* namespace from which a snapshot went and to which one came whose backup had begun
\* before that of the latest, which another group has (Item of plan.rs).
THEOREM FingerprintMissesOnly == Spec => []DeceivedByTwoGroups
<1>1. Inv => DeceivedByTwoGroups
  <2> SUFFICES ASSUME Inv, pc = "delete", NEW t \in chosen,
                      NEW g \in GroupsOf(t), view[g] # shown[g]
               PROVE  \E k, h \in GroupsOf(t) :
                        /\ k # h
                        /\ \E s \in view[k] \ shown[k], l \in view[h] \cap shown[h] : s < l
                        /\ Contents(t, shown) \ Contents(t, view) # {}
    BY DEF DeceivedByTwoGroups
  <2>1. t \in Targets /\ Item(t, view) = Item(t, shown)
    BY DEF Inv, LooksAsShown, TypeOK
  <2> QED BY <2>1, Deception
<1> QED BY <1>1, InvHolds, PTL

LEMMA LossInit == Init => LossInv
<1> SUFFICES ASSUME Init PROVE LossInv
  OBVIOUS
<1>1. GoneIsEmpty
  BY DEF Init, GoneIsEmpty, Nothing
<1>2. Counted /\ OnlyCountedIsLost /\ Progress
  BY DEF Init, Counted, OnlyCountedIsLost, Progress
<1> QED BY <1>1, <1>2, InitInv DEF LossInv

\* The server never brings back a snapshot that was shown.
LEMMA LossServerStep ==
    ASSUME LossInv, NEW g \in Groups, BackupStarts(g) \/ BackupFinishes(g) \/ SnapshotRemoved(g)
    PROVE  GoneIsEmpty' /\ Counted' /\ OnlyCountedIsLost' /\ Progress'
<1> USE DEF LossInv
<1>1. TypeOK
  BY DEF Inv
<1>2. UNCHANGED <<pc, execute, known, unread, view, steps, spaces, items, reply, shown, chosen, lost>>
      /\ late \subseteq late'
  BY DEF BackupStarts, BackupFinishes, SnapshotRemoved, call, operator, ghosts
<1>3. \A h \in Groups : snaps'[h] \subseteq snaps[h] \cup {running[h]}
      /\ (TargetOf[h] \in Namespaces \ spaces => snaps'[h] \subseteq snaps[h])
      /\ \A x \in snaps'[h] \ snaps[h] : running[h] # None /\ x = running[h]
  <2>1. CASE BackupStarts(g)
    BY <2>1 DEF BackupStarts
  <2>2. CASE BackupFinishes(g)
    BY <2>2, <1>1 DEF BackupFinishes, TypeOK, GoneIsEmpty
  <2>3. CASE SnapshotRemoved(g)
    BY <2>3, <1>1 DEF SnapshotRemoved, TypeOK
  <2> QED BY <2>1, <2>2, <2>3
<1>4. GoneIsEmpty'
  <2>1. \A h \in Groups : TargetOf[h] \in Namespaces \ spaces => running'[h] = None
    <3>1. CASE BackupStarts(g)
      BY <3>1, <1>1 DEF BackupStarts, InPlace, TypeOK, GoneIsEmpty
    <3>2. CASE BackupFinishes(g)
      BY <3>2, <1>1 DEF BackupFinishes, TypeOK, GoneIsEmpty
    <3>3. CASE SnapshotRemoved(g)
      BY <3>3 DEF SnapshotRemoved, GoneIsEmpty
    <3> QED BY <3>1, <3>2, <3>3
  <2> QED BY <1>2, <1>3, <2>1 DEF GoneIsEmpty
<1>5. Counted'
  <2>1. ASSUME pc # "idle", execute, NEW h \in Groups \ unread
        PROVE  snaps'[h] \subseteq view[h] \cup late'
    <3>1. snaps[h] \subseteq view[h] \cup late
      BY <2>1 DEF Counted
    <3>2. \A x \in snaps'[h] \ snaps[h] : x \in late'
      <4>1. CASE BackupStarts(g)
        BY <4>1 DEF BackupStarts
      <4>2. CASE BackupFinishes(g)
        BY <4>2, <2>1, <1>1 DEF BackupFinishes, TypeOK
      <4>3. CASE SnapshotRemoved(g)
        BY <4>3, <1>1 DEF SnapshotRemoved, TypeOK
      <4> QED BY <4>1, <4>2, <4>3
    <3> QED BY <3>1, <3>2, <1>2
  <2> QED BY <1>2, <2>1 DEF Counted
<1>6. OnlyCountedIsLost'
  BY <1>2 DEF OnlyCountedIsLost, Contents
<1>7. ASSUME NEW T \in SUBSET Targets, Deleted(T) PROVE Deleted(T)'
  <2>1. ASSUME NEW h \in Groups, shown[h] \cap snaps[h] = {}
        PROVE  shown[h] \cap snaps'[h] = {}
    <3>1. running[h] # None => running[h] \notin shown[h]
      BY <1>1, DeleteAssumption DEF Inv, GrowsAtTheEnd, TypeOK, Times, None
    <3> QED BY <2>1, <3>1, <1>3
  <2> QED BY <1>2, <1>7, <2>1 DEF Deleted, GroupsOf
<1>8. Progress'
  <2>1. chosen \subseteq Targets /\ chosen \ steps \subseteq Targets
    BY <1>1 DEF TypeOK
  <2> QED BY <1>2, <1>7, <2>1 DEF Progress, Deleted
<1> QED BY <1>4, <1>5, <1>6, <1>8

\* Counting, showing and refusing lose nothing.
LEMMA LossPlanStep ==
    ASSUME LossInv, (\E ex \in BOOLEAN : Call(ex)) \/ CountGroup \/ ShowPlan \/ Refuse
    PROVE  GoneIsEmpty' /\ Counted' /\ OnlyCountedIsLost' /\ Progress'
<1> USE DEF LossInv
<1>1. TypeOK
  BY DEF Inv
<1>2. CASE \E ex \in BOOLEAN : Call(ex)
  BY <1>2 DEF Call, server, GoneIsEmpty, Counted, OnlyCountedIsLost, Progress, Deleted
<1>3. CASE CountGroup
  <2>1. GoneIsEmpty' /\ OnlyCountedIsLost' /\ Progress'
    BY <1>3 DEF CountGroup, server, operator, ghosts, GoneIsEmpty, OnlyCountedIsLost, Progress,
                Deleted, Inv, LooksAsShown
  <2>2. PICK g \in unread : /\ unread' = unread \ {g}
                            /\ view' = [view EXCEPT ![g] = IF TargetOf[g] \in Namespaces \ known
                                                           THEN {} ELSE snaps[g]]
    BY <1>3 DEF CountGroup
  <2>3. g \in Groups /\ snaps[g] \subseteq view'[g] /\ \A h \in Groups \ {g} : view'[h] = view[h]
    BY <2>2, <1>1, <1>3 DEF TypeOK, GoneIsEmpty, CountGroup
  <2>4. pc' = "read" /\ UNCHANGED <<snaps, execute, late>> /\ pc = "read"
    BY <1>3 DEF CountGroup, server, ghosts
  <2>5. Counted'
    BY <2>2, <2>3, <2>4 DEF Counted
  <2> QED BY <2>1, <2>5
<1>4. CASE ShowPlan
  BY <1>4 DEF ShowPlan, Return, server, GoneIsEmpty, Counted, OnlyCountedIsLost, Progress,
              Inv, LooksAsShown
<1>5. CASE Refuse
  BY <1>5 DEF Refuse, Return, server, ghosts, GoneIsEmpty, Counted, OnlyCountedIsLost, Progress,
              Inv, LooksAsShown
<1> QED BY <1>2, <1>3, <1>4, <1>5

\* No confirmed target is skipped, and none is deleted unconfirmed.
LEMMA LossStartStep ==
    ASSUME LossInv, StartDeleting
    PROVE  GoneIsEmpty' /\ Counted' /\ OnlyCountedIsLost' /\ Progress'
<1> USE DEF LossInv
<1>1. GoneIsEmpty' /\ OnlyCountedIsLost'
  BY DEF StartDeleting, server, operator, ghosts, GoneIsEmpty, OnlyCountedIsLost, Contents
<1>2. ASSUME NEW t \in Targets, Planned(t), Item(t, view) \in items
      PROVE  t \in chosen
  BY <1>2 DEF Inv, ItemsOfChosen, Item
<1>3. ASSUME NEW t \in chosen
      PROVE  t \in Kept
  <2>1. Item(t, shown) \in items /\ Item(t, shown) \in Items
    BY DEF StartDeleting, Drifted, Inv, ItemsOfChosen
  <2>2. PICK u \in Targets : Planned(u) /\ Item(u, view) = Item(t, shown)
    BY <2>1 DEF Items
  <2>3. u = t
    BY <2>2 DEF Item
  <2> QED BY <2>1, <2>2, <2>3 DEF Kept
<1>4. Counted' /\ Progress'
  BY <1>2, <1>3 DEF StartDeleting, server, operator, ghosts, Kept, Counted, Progress, Deleted
<1> QED BY <1>1, <1>4

\* What a delete takes was counted, so shown, or has come since.
LEMMA LossDeleteStep ==
    ASSUME LossInv, Delete \/ Finish
    PROVE  GoneIsEmpty' /\ Counted' /\ OnlyCountedIsLost' /\ Progress'
<1> USE DEF LossInv
<1>1. TypeOK
  BY DEF Inv
<1>2. CASE Finish
  BY <1>2 DEF Finish, Return, server, ghosts, GoneIsEmpty, Counted, OnlyCountedIsLost, Progress,
              Contents, Deleted
<1>3. CASE Delete
  <2>1. PICK t \in Targets :
          /\ NextStep(t)
          /\ \/ /\ \A g \in GroupsOf(t) : running[g] = None
                /\ Removes(GroupsOf(t)) /\ spaces' = spaces \ {t}
                /\ steps' = steps \ {t}
                /\ UNCHANGED <<pc, execute, known, unread, view, reply>>
             \/ /\ \E R \in SUBSET {g \in GroupsOf(t) : running[g] = None} : Removes(R)
                /\ AfterFailure(t)
                /\ UNCHANGED spaces
    BY <1>3 DEF Delete
  <2>2. pc = "delete" /\ UNCHANGED <<clock, running, view, items, calls, shown, chosen, late>>
        /\ t \in chosen /\ execute /\ unread = {} /\ reply = "none"
    BY <1>3, <2>1 DEF Delete, AfterFailure, Return, NextStep, Counted, Progress
  <2>3. PICK R \in SUBSET GroupsOf(t) : Removes(R)
    BY <2>1
  <2>4. \A g \in Groups : snaps'[g] \subseteq snaps[g] /\ (g \in R => snaps'[g] = {})
    BY <2>3 DEF Removes
  <2>5. \A g \in GroupsOf(t) : snaps[g] \subseteq late \cup Contents(t, view)
    BY <2>2 DEF Counted, Contents, GroupsOf
  <2>6. OnlyCountedIsLost'
    <3>1. lost' \subseteq lost \cup late \cup Contents(t, view)
      BY <2>3, <2>5 DEF Removes
    <3>2. UNION {Contents(u, view) : u \in chosen}' = UNION {Contents(u, view) : u \in chosen}
      BY <2>2 DEF Contents
    <3> QED BY <2>2, <3>1, <3>2 DEF OnlyCountedIsLost
  <2>7. CASE spaces' = spaces \ {t} /\ steps' = steps \ {t} /\ Removes(GroupsOf(t))
             /\ UNCHANGED <<pc, execute, known, unread, view, reply>>
             /\ \A g \in GroupsOf(t) : running[g] = None
    <3>1. \A g \in GroupsOf(t) : snaps'[g] = {}
      BY <2>7 DEF Removes, GroupsOf
    <3>2. GoneIsEmpty'
      BY <2>2, <2>4, <2>7, <3>1 DEF GoneIsEmpty, GroupsOf
    <3>3. Counted'
      BY <2>2, <2>4, <2>7 DEF Counted
    <3>4. Deleted(chosen \ steps)
      BY <2>2 DEF Progress
    <3>5. \A u \in (chosen \ steps) \cup {t} : \A g \in GroupsOf(u) : shown[g] \cap snaps'[g] = {}
      BY <2>4, <3>1, <3>4 DEF Deleted, GroupsOf
    <3>6. Deleted(chosen \ steps)'
      BY <2>2, <2>7, <3>5 DEF Deleted
    <3>7. Progress'
      BY <2>2, <2>7, <3>6 DEF Progress
    <3> QED BY <2>6, <3>2, <3>3, <3>7
  <2>8. CASE AfterFailure(t) /\ UNCHANGED spaces
    <3>1. GoneIsEmpty'
      BY <2>2, <2>4, <2>8 DEF AfterFailure, Return, GoneIsEmpty
    <3>2. Counted' /\ Progress'
      BY <2>2, <2>8 DEF AfterFailure, Return, Counted, Progress
    <3> QED BY <2>6, <3>1, <3>2
  <2> QED BY <2>1, <2>7, <2>8
<1> QED BY <1>2, <1>3

LEMMA LossStep == LossInv /\ [Next]_vars => LossInv'
<1> SUFFICES ASSUME LossInv, [Next]_vars PROVE LossInv'
  OBVIOUS
<1>1. Inv'
  BY InvStep DEF LossInv
<1>2. CASE Server
  BY <1>1, <1>2, LossServerStep DEF Server, LossInv
<1>3. CASE DryRun \/ Execute \/ CountGroup \/ ShowPlan \/ Refuse
  BY <1>1, <1>3, LossPlanStep DEF DryRun, Execute, LossInv
<1>4. CASE StartDeleting
  BY <1>1, <1>4, LossStartStep DEF LossInv
<1>5. CASE Delete \/ Finish
  BY <1>1, <1>5, LossDeleteStep DEF LossInv
<1>6. CASE UNCHANGED vars
  <2>1. GoneIsEmpty' /\ Counted' /\ OnlyCountedIsLost' /\ Progress'
    BY <1>6 DEF vars, server, call, operator, ghosts, LossInv, GoneIsEmpty, Counted,
                OnlyCountedIsLost, Contents, Progress, Deleted
  <2> QED BY <1>1, <2>1 DEF LossInv
<1> QED BY <1>2, <1>3, <1>4, <1>5, <1>6 DEF Next

LEMMA LossHolds == Spec => []LossInv
BY LossInit, LossStep, PTL DEF Spec

\* Whatever the targets hold, whichever step fails and whatever is repeated, what is
\* deleted was shown and confirmed, or came after its group was counted, or was of a
\* namespace and older than the latest that was shown of it: a backup that is newer than
\* what was confirmed is never taken for it.
THEOREM NothingNewerGoes == Spec => []NothingNewerIsLost
<1>1. LossInv => NothingNewerIsLost
  <2> SUFFICES ASSUME LossInv, NEW s \in lost \ late
               PROVE  \E t \in chosen : \/ s \in Contents(t, shown)
                                        \/ ~Alone(t) /\ s < Latest(Contents(t, shown))
    BY DEF NothingNewerIsLost
  <2>1. PICK t \in chosen : s \in Contents(t, view)
    BY DEF LossInv, OnlyCountedIsLost
  <2>2. t \in Targets /\ Item(t, view) = Item(t, shown)
    BY DEF LossInv, Inv, LooksAsShown, TypeOK
  <2>3. CASE Alone(t)
    <3>1. Contents(t, view) = Contents(t, shown)
      BY <2>2, <2>3, AloneIsExact DEF LossInv, Contents
    <3> QED BY <2>1, <3>1
  <2>4. CASE s \notin Contents(t, shown)
    <3> DEFINE S == Contents(t, view)  R == Contents(t, shown)
    <3>1. S \in SUBSET Times /\ R \in SUBSET Times
      BY DEF Contents, GroupsOf, LossInv, Inv, TypeOK
    <3>2. Latest(S) = Latest(R) /\ Cardinality(S) = Cardinality(R)
      BY <2>2 DEF Item
    <3>3. s \in S /\ s \notin R
      BY <2>1, <2>4
    <3> HIDE DEF S, R
    <3>4. S # {} /\ R # {}
      <4>1. R = {} => Cardinality(S) = 0 /\ IsFiniteSet(S)
        BY <3>1, <3>2, TimesFinite, FS_EmptySet
      <4> QED BY <3>3, <4>1, FS_EmptySet
    <3>5. Latest(R) \in R /\ s <= Latest(R)
      BY <3>1, <3>2, <3>3, <3>4, LatestIsMax
    <3>6. s # Latest(R) /\ s \in Nat /\ Latest(R) \in Nat
      <4>1. \A x \in S \cup R : x \in Nat
        BY <3>1 DEF Times
      <4> QED BY <3>3, <3>5, <4>1
    <3>7. s < Latest(R)
      BY <3>5, <3>6
    <3> QED BY <2>3, <3>7 DEF R
  <2> QED BY <2>1, <2>3, <2>4
<1> QED BY <1>1, LossHolds, PTL

\* If every target is one group, what is deleted was shown and confirmed, or came after
\* its group was counted.
THEOREM OnlyConfirmedGoes ==
    ASSUME OneGroupEach
    PROVE  Spec => []OnlyConfirmedIsLost
<1>1. TypeOK /\ NothingNewerIsLost => OnlyConfirmedIsLost
  BY DEF TypeOK, NothingNewerIsLost, OneGroupEach, OnlyConfirmedIsLost
<1> QED BY <1>1, NothingNewerGoes, DeleteTypeCorrect, PTL

\* Whatever the targets hold, a refusal has deleted nothing, and a report of success means
\* that every snapshot that was confirmed is gone.
THEOREM DeleteReportsTheTruth == Spec => []ReplyIsTrue
<1>1. LossInv => ReplyIsTrue
  <2> SUFFICES ASSUME LossInv PROVE ReplyIsTrue
    OBVIOUS
  <2>1. ASSUME reply = "applied", NEW t \in chosen
        PROVE  Contents(t, shown) \cap Contents(t, snaps) = {}
    <3>1. \A g \in GroupsOf(t) : shown[g] \cap snaps[g] = {}
      BY <2>1 DEF LossInv, Progress, Deleted
    <3>2. \A g, h \in GroupsOf(t) : g # h => shown[g] \cap snaps[h] = {}
      BY DEF LossInv, Inv, Distinct, Known, GroupsOf
    <3> QED BY <3>1, <3>2 DEF Contents
  <2> QED BY <2>1 DEF ReplyIsTrue, LossInv, Progress
<1> QED BY <1>1, LossHolds, PTL
=============================================================================
