--------------------------- MODULE RestoreProofs ---------------------------
(***************************************************************************)
(* Proofs about Restore, for any number of files, any directory tree and   *)
(* any number of restores, failed calls and crashes.                       *)
(***************************************************************************)
EXTENDS RestoreInv, FiniteSetTheorems, TLAPS

(* The least of a set of files is one file. *)
LEMMA FirstIsUnique ==
    \A S \in SUBSET Files : \A x, y \in S : First(x, S) /\ First(y, S) => x = y
BY SizesAssumption DEF First, Files

(* Types are preserved by every step. *)
LEMMA TypeStep == TypeOK /\ [Next]_vars => TypeOK'
<1> SUFFICES ASSUME TypeOK, [Next]_vars PROVE TypeOK'
  OBVIOUS
<1> USE SizesAssumption DEF TypeOK, DiskTypeOK, WorkTypeOK, PlanTypeOK, PastTypeOK, Absent,
   Torn, Phases, NoMarker, Goto, GotoUndo, Return, Applied, past, NoFault, Fault, NoPlan,
   Versions
<1>1. CASE Begin
  <2>1. DiskTypeOK'
    BY <1>1 DEF Begin, disk, Leftovers, NextMarker, Files
  <2>2. WorkTypeOK'
    BY <1>1 DEF Begin, disk, Leftovers
  <2>3. PlanTypeOK'
    BY <1>1 DEF Begin, disk, Leftovers
  <2>4. PastTypeOK'
    BY <1>1 DEF Begin, disk, Leftovers
  <2>5. (faults \in 0..MaxFaults)'
    BY <1>1 DEF Begin, disk, Leftovers
  <2> QED BY <2>1, <2>2, <2>3, <2>4, <2>5
<1>2. CASE CreateNext
  <2>1. DiskTypeOK'
    <3>0. junk' \in {junk, junk \cup {NextMarker}} /\ NextMarker \in 0..NFiles
      BY <1>2 DEF CreateNext, MarkFailed, NextMarker
    <3>1. (junk \subseteq 0..NFiles)'
      BY <3>0
    <3>2. name' = name /\ tmp' = tmp /\ prev' = prev /\ dirs' = dirs /\ marker' = marker
      BY <1>2 DEF CreateNext, MarkFailed
    <3> QED BY <3>1, <3>2
  <2>2. WorkTypeOK'
    BY <1>2 DEF CreateNext, MarkFailed
  <2>3. PlanTypeOK'
    BY <1>2 DEF CreateNext, MarkFailed
  <2>4. PastTypeOK'
    BY <1>2 DEF CreateNext, MarkFailed
  <2>5. (faults \in 0..MaxFaults)'
    BY <1>2 DEF CreateNext, MarkFailed
  <2> QED BY <2>1, <2>2, <2>3, <2>4, <2>5
<1>3. CASE RenameNext
  <2>1. DiskTypeOK'
    BY <1>3 DEF RenameNext, NewMarker, AfterMark, MarkFailed, NextMarker, Files
  <2>2. WorkTypeOK'
    BY <1>3 DEF RenameNext, NewMarker, AfterMark, MarkFailed
  <2>3. PlanTypeOK'
    BY <1>3 DEF RenameNext, NewMarker, AfterMark, MarkFailed
  <2>4. PastTypeOK'
    BY <1>3 DEF RenameNext, NewMarker, AfterMark, MarkFailed
  <2>5. (faults \in 0..MaxFaults)'
    BY <1>3 DEF RenameNext, NewMarker, AfterMark, MarkFailed
  <2> QED BY <2>1, <2>2, <2>3, <2>4, <2>5
<1>4. CASE MakeDirs
  <2>1. DiskTypeOK'
    BY <1>4 DEF MakeDirs, NextMarker, Files
  <2>2. WorkTypeOK'
    BY <1>4 DEF MakeDirs
  <2>3. PlanTypeOK'
    BY <1>4 DEF MakeDirs
  <2>4. PastTypeOK'
    BY <1>4 DEF MakeDirs
  <2>5. (faults \in 0..MaxFaults)'
    BY <1>4 DEF MakeDirs
  <2> QED BY <2>1, <2>2, <2>3, <2>4, <2>5
<1>5. CASE Stage
  <2>1. DiskTypeOK'
    BY <1>5 DEF Stage, NextMarker, Files
  <2>2. WorkTypeOK'
    BY <1>5 DEF Stage
  <2>3. PlanTypeOK'
    BY <1>5 DEF Stage
  <2>4. PastTypeOK'
    BY <1>5 DEF Stage
  <2>5. (faults \in 0..MaxFaults)'
    BY <1>5 DEF Stage
  <2> QED BY <2>1, <2>2, <2>3, <2>4, <2>5
<1>6. CASE SetAside
  <2>1. DiskTypeOK'
    BY <1>6 DEF SetAside, NextMarker, Files
  <2>2. WorkTypeOK'
    BY <1>6 DEF SetAside
  <2>3. PlanTypeOK'
    BY <1>6 DEF SetAside
  <2>4. PastTypeOK'
    BY <1>6 DEF SetAside
  <2>5. (faults \in 0..MaxFaults)'
    BY <1>6 DEF SetAside
  <2> QED BY <2>1, <2>2, <2>3, <2>4, <2>5
<1>7. CASE Swap
  <2>1. DiskTypeOK'
    BY <1>7 DEF Swap, Staged, AfterFailedSwap, NextMarker, Files
  <2>2. WorkTypeOK'
    BY <1>7 DEF Swap, Staged, AfterFailedSwap
  <2>3. PlanTypeOK'
    BY <1>7 DEF Swap, Staged, AfterFailedSwap
  <2>4. PastTypeOK'
    BY <1>7 DEF Swap, Staged, AfterFailedSwap
  <2>5. (faults \in 0..MaxFaults)'
    BY <1>7 DEF Swap, Staged, AfterFailedSwap
  <2> QED BY <2>1, <2>2, <2>3, <2>4, <2>5
<1>8. CASE PutBack
  <2>1. DiskTypeOK'
    BY <1>8, SMTT(30) DEF PutBack, PutBackAs, NextMarker, Files
  <2>2. WorkTypeOK'
    BY <1>8 DEF PutBack, PutBackAs
  <2>3. PlanTypeOK'
    BY <1>8 DEF PutBack, PutBackAs
  <2>4. PastTypeOK'
    BY <1>8 DEF PutBack, PutBackAs
  <2>5. (faults \in 0..MaxFaults)'
    BY <1>8 DEF PutBack, PutBackAs
  <2> QED BY <2>1, <2>2, <2>3, <2>4, <2>5
<1>9. CASE UndoTmp
  <2>1. DiskTypeOK'
    BY <1>9 DEF UndoTmp, NextMarker, Files
  <2>2. WorkTypeOK'
    BY <1>9 DEF UndoTmp
  <2>3. PlanTypeOK'
    BY <1>9 DEF UndoTmp
  <2>4. PastTypeOK'
    BY <1>9 DEF UndoTmp
  <2>5. (faults \in 0..MaxFaults)'
    BY <1>9 DEF UndoTmp
  <2> QED BY <2>1, <2>2, <2>3, <2>4, <2>5
<1>10. CASE UndoPrev
  <2>1. DiskTypeOK'
    BY <1>10 DEF UndoPrev, OutOfPlace, NextMarker, Files
  <2>2. WorkTypeOK'
    BY <1>10 DEF UndoPrev, OutOfPlace
  <2>3. PlanTypeOK'
    BY <1>10 DEF UndoPrev, OutOfPlace
  <2>4. PastTypeOK'
    BY <1>10 DEF UndoPrev, OutOfPlace
  <2>5. (faults \in 0..MaxFaults)'
    BY <1>10 DEF UndoPrev, OutOfPlace
  <2> QED BY <2>1, <2>2, <2>3, <2>4, <2>5
<1>11. CASE UndoDirs
  <2>1. DiskTypeOK'
    BY <1>11 DEF UndoDirs, NextMarker, Files
  <2>2. WorkTypeOK'
    BY <1>11 DEF UndoDirs
  <2>3. PlanTypeOK'
    BY <1>11 DEF UndoDirs
  <2>4. PastTypeOK'
    BY <1>11 DEF UndoDirs
  <2>5. (faults \in 0..MaxFaults)'
    BY <1>11 DEF UndoDirs
  <2> QED BY <2>1, <2>2, <2>3, <2>4, <2>5
<1>12. CASE UndoMark
  <2>1. DiskTypeOK'
    BY <1>12 DEF UndoMark, Incomplete, NextMarker, Files
  <2>2. WorkTypeOK'
    BY <1>12 DEF UndoMark, Incomplete
  <2>3. PlanTypeOK'
    BY <1>12 DEF UndoMark, Incomplete
  <2>4. PastTypeOK'
    BY <1>12 DEF UndoMark, Incomplete
  <2>5. (faults \in 0..MaxFaults)'
    BY <1>12 DEF UndoMark, Incomplete
  <2> QED BY <2>1, <2>2, <2>3, <2>4, <2>5
<1>13. CASE DropMarker
  <2>1. DiskTypeOK'
    BY <1>13 DEF DropMarker, NextMarker, Files
  <2>2. WorkTypeOK'
    BY <1>13 DEF DropMarker
  <2>3. PlanTypeOK'
    BY <1>13 DEF DropMarker
  <2>4. PastTypeOK'
    BY <1>13 DEF DropMarker
  <2>5. (faults \in 0..MaxFaults)'
    BY <1>13 DEF DropMarker
  <2> QED BY <2>1, <2>2, <2>3, <2>4, <2>5
<1>14. CASE DropPrev
  <2>1. DiskTypeOK'
    BY <1>14 DEF DropPrev, NextMarker, Files
  <2>2. WorkTypeOK'
    BY <1>14 DEF DropPrev
  <2>3. PlanTypeOK'
    BY <1>14 DEF DropPrev
  <2>4. PastTypeOK'
    BY <1>14 DEF DropPrev
  <2>5. (faults \in 0..MaxFaults)'
    BY <1>14 DEF DropPrev
  <2> QED BY <2>1, <2>2, <2>3, <2>4, <2>5
<1>15. CASE StartRollback
  <2>1. DiskTypeOK'
    BY <1>15 DEF StartRollback, StartRecover, RollbackPlan, MayTry, HasTmp, HasPrev, Listed,
       disk, NextMarker, Files
  <2>2. WorkTypeOK'
    BY <1>15 DEF StartRollback, StartRecover, RollbackPlan, MayTry, HasTmp, HasPrev, Listed,
       disk
  <2>3. PlanTypeOK'
    BY <1>15 DEF StartRollback, StartRecover, RollbackPlan, MayTry, HasTmp, HasPrev, Listed,
       disk
  <2>4. PastTypeOK'
    BY <1>15 DEF StartRollback, StartRecover, RollbackPlan, MayTry, HasTmp, HasPrev, Listed,
       disk
  <2>5. (faults \in 0..MaxFaults)'
    BY <1>15 DEF StartRollback, StartRecover, RollbackPlan, MayTry, HasTmp, HasPrev, Listed,
       disk
  <2> QED BY <2>1, <2>2, <2>3, <2>4, <2>5
<1>16. CASE StartFinish
  <2>1. DiskTypeOK'
    BY <1>16 DEF StartFinish, Finishable, StartRecover, FinishPlan, ChmodSteps, MayTry,
       HasTmp, HasPrev, Listed, disk, NextMarker, Files
  <2>2. WorkTypeOK'
    BY <1>16 DEF StartFinish, Finishable, StartRecover, FinishPlan, ChmodSteps, MayTry,
       HasTmp, HasPrev, Listed, disk
  <2>3. PlanTypeOK'
    BY <1>16 DEF StartFinish, Finishable, StartRecover, FinishPlan, ChmodSteps, MayTry,
       HasTmp, HasPrev, Listed, disk
  <2>4. PastTypeOK'
    BY <1>16 DEF StartFinish, Finishable, StartRecover, FinishPlan, ChmodSteps, MayTry,
       HasTmp, HasPrev, Listed, disk
  <2>5. (faults \in 0..MaxFaults)'
    BY <1>16 DEF StartFinish, Finishable, StartRecover, FinishPlan, ChmodSteps, MayTry,
       HasTmp, HasPrev, Listed, disk
  <2> QED BY <2>1, <2>2, <2>3, <2>4, <2>5
<1>17. CASE InstallCopy
  <2>1. DiskTypeOK'
    BY <1>17 DEF InstallCopy, At, NextMarker, Files
  <2>2. WorkTypeOK'
    BY <1>17 DEF InstallCopy, At
  <2>3. PlanTypeOK'
    BY <1>17 DEF InstallCopy, At
  <2>4. PastTypeOK'
    BY <1>17 DEF InstallCopy, At
  <2>5. (faults \in 0..MaxFaults)'
    BY <1>17 DEF InstallCopy, At
  <2> QED BY <2>1, <2>2, <2>3, <2>4, <2>5
<1>18. CASE InstallRename
  <2>1. DiskTypeOK'
    <3>1. (junk \subseteq 0..NFiles)'
      BY <1>18 DEF InstallRename, Staged, NextMarker, Files
    <3>2. tmp' = tmp /\ prev' = prev /\ dirs' = dirs /\ marker' = marker
      BY <1>18 DEF InstallRename, Staged
    <3>3. (name \in [Files -> Versions \cup {Absent, Torn}])'
      BY <1>18 DEF InstallRename, Staged
    <3> QED BY <3>1, <3>2, <3>3
  <2>2. WorkTypeOK'
    BY <1>18 DEF InstallRename, Staged
  <2>3. PlanTypeOK'
    BY <1>18 DEF InstallRename, Staged
  <2>4. PastTypeOK'
    BY <1>18 DEF InstallRename, Staged
  <2>5. (faults \in 0..MaxFaults)'
    BY <1>18 DEF InstallRename, Staged
  <2> QED BY <2>1, <2>2, <2>3, <2>4, <2>5
<1>19. CASE InstallDropTmp
  <2>1. DiskTypeOK'
    BY <1>19 DEF InstallDropTmp, NextMarker, Files
  <2>2. WorkTypeOK'
    BY <1>19 DEF InstallDropTmp
  <2>3. PlanTypeOK'
    BY <1>19 DEF InstallDropTmp
  <2>4. PastTypeOK'
    BY <1>19 DEF InstallDropTmp
  <2>5. (faults \in 0..MaxFaults)'
    BY <1>19 DEF InstallDropTmp
  <2> QED BY <2>1, <2>2, <2>3, <2>4, <2>5
<1>20. CASE RecoverDropTmp
  <2>1. DiskTypeOK'
    BY <1>20 DEF RecoverDropTmp, At, NextMarker, Files
  <2>2. WorkTypeOK'
    BY <1>20 DEF RecoverDropTmp, At
  <2>3. PlanTypeOK'
    BY <1>20 DEF RecoverDropTmp, At
  <2>4. PastTypeOK'
    BY <1>20 DEF RecoverDropTmp, At
  <2>5. (faults \in 0..MaxFaults)'
    BY <1>20 DEF RecoverDropTmp, At
  <2> QED BY <2>1, <2>2, <2>3, <2>4, <2>5
<1>21. CASE RecoverPutBack
  <2>1. DiskTypeOK'
    BY <1>21 DEF RecoverPutBack, At, NextMarker, Files
  <2>2. WorkTypeOK'
    BY <1>21 DEF RecoverPutBack, At
  <2>3. PlanTypeOK'
    BY <1>21 DEF RecoverPutBack, At
  <2>4. PastTypeOK'
    BY <1>21 DEF RecoverPutBack, At
  <2>5. (faults \in 0..MaxFaults)'
    BY <1>21 DEF RecoverPutBack, At
  <2> QED BY <2>1, <2>2, <2>3, <2>4, <2>5
<1>22. CASE RecoverDropPrev
  <2>1. DiskTypeOK'
    BY <1>22 DEF RecoverDropPrev, At, NextMarker, Files
  <2>2. WorkTypeOK'
    BY <1>22 DEF RecoverDropPrev, At
  <2>3. PlanTypeOK'
    BY <1>22 DEF RecoverDropPrev, At
  <2>4. PastTypeOK'
    BY <1>22 DEF RecoverDropPrev, At
  <2>5. (faults \in 0..MaxFaults)'
    BY <1>22 DEF RecoverDropPrev, At
  <2> QED BY <2>1, <2>2, <2>3, <2>4, <2>5
<1>23. CASE RecoverRmdir
  <2>1. DiskTypeOK'
    BY <1>23 DEF RecoverRmdir, NextMarker, Files
  <2>2. WorkTypeOK'
    BY <1>23 DEF RecoverRmdir
  <2>3. PlanTypeOK'
    BY <1>23 DEF RecoverRmdir
  <2>4. PastTypeOK'
    BY <1>23 DEF RecoverRmdir
  <2>5. (faults \in 0..MaxFaults)'
    BY <1>23 DEF RecoverRmdir
  <2> QED BY <2>1, <2>2, <2>3, <2>4, <2>5
<1>24. CASE RecoverUnmark
  <2>1. DiskTypeOK'
    BY <1>24 DEF RecoverUnmark, FilesAndDirsDone, work, NextMarker, Files
  <2>2. WorkTypeOK'
    BY <1>24 DEF RecoverUnmark, FilesAndDirsDone, work
  <2>3. PlanTypeOK'
    BY <1>24 DEF RecoverUnmark, FilesAndDirsDone, work
  <2>4. PastTypeOK'
    BY <1>24 DEF RecoverUnmark, FilesAndDirsDone, work
  <2>5. (faults \in 0..MaxFaults)'
    BY <1>24 DEF RecoverUnmark, FilesAndDirsDone, work
  <2> QED BY <2>1, <2>2, <2>3, <2>4, <2>5
<1>25. CASE RecoverDropJunk
  <2>1. DiskTypeOK'
    BY <1>25 DEF RecoverDropJunk, FilesAndDirsDone, NextMarker, Files
  <2>2. WorkTypeOK'
    BY <1>25 DEF RecoverDropJunk, FilesAndDirsDone
  <2>3. PlanTypeOK'
    BY <1>25 DEF RecoverDropJunk, FilesAndDirsDone
  <2>4. PastTypeOK'
    BY <1>25 DEF RecoverDropJunk, FilesAndDirsDone
  <2>5. (faults \in 0..MaxFaults)'
    BY <1>25 DEF RecoverDropJunk, FilesAndDirsDone
  <2> QED BY <2>1, <2>2, <2>3, <2>4, <2>5
<1>26. CASE RecoverReturn
  <2>1. DiskTypeOK'
    BY <1>26 DEF RecoverReturn, FilesAndDirsDone, disk, NextMarker, Files
  <2>2. WorkTypeOK'
    BY <1>26 DEF RecoverReturn, FilesAndDirsDone, disk
  <2>3. PlanTypeOK'
    BY <1>26 DEF RecoverReturn, FilesAndDirsDone, disk
  <2>4. PastTypeOK'
    BY <1>26 DEF RecoverReturn, FilesAndDirsDone, disk
  <2>5. (faults \in 0..MaxFaults)'
    BY <1>26 DEF RecoverReturn, FilesAndDirsDone, disk
  <2> QED BY <2>1, <2>2, <2>3, <2>4, <2>5
<1>27. CASE RecoverFails
  <2>1. DiskTypeOK'
    BY <1>27 DEF RecoverFails, FilesAndDirsDone, disk, NextMarker, Files
  <2>2. WorkTypeOK'
    BY <1>27 DEF RecoverFails, FilesAndDirsDone, disk
  <2>3. PlanTypeOK'
    BY <1>27 DEF RecoverFails, FilesAndDirsDone, disk
  <2>4. PastTypeOK'
    BY <1>27 DEF RecoverFails, FilesAndDirsDone, disk
  <2>5. (faults \in 0..MaxFaults)'
    BY <1>27 DEF RecoverFails, FilesAndDirsDone, disk
  <2> QED BY <2>1, <2>2, <2>3, <2>4, <2>5
<1>28. CASE Crash
  <2>1. DiskTypeOK'
    BY <1>28 DEF Crash, disk, NextMarker, Files
  <2>2. WorkTypeOK'
    BY <1>28 DEF Crash, disk
  <2>3. PlanTypeOK'
    BY <1>28 DEF Crash, disk
  <2>4. PastTypeOK'
    BY <1>28 DEF Crash, disk
  <2>5. (faults \in 0..MaxFaults)'
    BY <1>28 DEF Crash, disk
  <2> QED BY <2>1, <2>2, <2>3, <2>4, <2>5
<1>29. CASE UNCHANGED vars
  <2>1. DiskTypeOK'
    BY <1>29 DEF vars, disk, work, NextMarker, Files
  <2>2. WorkTypeOK'
    BY <1>29 DEF vars, disk, work
  <2>3. PlanTypeOK'
    BY <1>29 DEF vars, disk, work
  <2>4. PastTypeOK'
    BY <1>29 DEF vars, disk, work
  <2>5. (faults \in 0..MaxFaults)'
    BY <1>29 DEF vars, disk, work
  <2> QED BY <2>1, <2>2, <2>3, <2>4, <2>5
<1>30. CASE RecoverChmod
  <2>1. DiskTypeOK'
    BY <1>30 DEF RecoverChmod, disk, NextMarker, Files
  <2>2. WorkTypeOK'
    BY <1>30 DEF RecoverChmod, disk
  <2>3. PlanTypeOK'
    BY <1>30 DEF RecoverChmod, disk
  <2>4. PastTypeOK'
    BY <1>30 DEF RecoverChmod, disk
  <2>5. (faults \in 0..MaxFaults)'
    BY <1>30 DEF RecoverChmod
  <2> QED BY <2>1, <2>2, <2>3, <2>4, <2>5
<1> QED
  BY <1>1, <1>2, <1>3, <1>4, <1>5, <1>6, <1>7, <1>8, <1>9, <1>10, <1>11, <1>12, <1>13,
     <1>14, <1>15, <1>16, <1>17, <1>18, <1>19, <1>20, <1>21, <1>22, <1>23, <1>24, <1>25,
     <1>26, <1>27, <1>28, <1>29, <1>30
  DEF Next, Materialize, Undo, Finish, ApplyPlan

LEMMA TypeInit == Init => TypeOK
<1> SUFFICES ASSUME Init PROVE TypeOK
  OBVIOUS
<1>1. 1 \in Versions
  BY SizesAssumption DEF Versions
<1>2. DiskTypeOK
  BY <1>1 DEF Init, DiskTypeOK, Absent, NoMarker
<1>3. WorkTypeOK /\ PlanTypeOK
  BY DEF Init, WorkTypeOK, PlanTypeOK, Phases, NoPlan
<1>4. PastTypeOK
  BY <1>1, <1>2 DEF Init, PastTypeOK, DiskTypeOK
<1>5. faults \in 0..MaxFaults
  BY SizesAssumption DEF Init
<1> QED
  BY <1>2, <1>3, <1>4, <1>5 DEF TypeOK

(* Every variable keeps its type. *)
THEOREM TypeCorrect == Spec => []TypeOK
BY TypeInit, TypeStep, PTL DEF Spec

(* The invariant holds at first. *)
LEMMA InvInit == Init => IInv
<1> SUFFICES ASSUME Init PROVE IInv
  OBVIOUS
<1>1. TypeOK
  BY TypeInit
<1>2. OldOrNew /\ PrevOld /\ MarkerShape /\ Memory
  BY DEF Init, OldOrNew, PrevOld, MarkerShape, Memory, RestorePcs, UndoPcs, RecoverPcs,
         NoMarker, Absent
<1>3. PreparingInv /\ SwappingInv /\ PuttingBackInv
  BY DEF Init, PreparingInv, SwappingInv, PuttingBackInv, Preparing, Marking, UndoPcs
<1>4. Kept /\ RollbackInv /\ FinishInv
  BY DEF Init, Kept, RollbackInv, FinishInv, RecoverPcs, NoMarker
<1>5. SettledInv /\ DurableInv /\ SteadyInv
  BY DEF Init, SettledInv, DurableInv, SteadyInv, AllOld, UndoPcs, RecoverPcs, NoMarker
<1> QED
  BY <1>1, <1>2, <1>3, <1>4, <1>5 DEF IInv

(* Every step preserves the invariant. *)
LEMMA InvStep == IInv /\ [Next]_vars => IInv'
<1> SUFFICES ASSUME IInv, [Next]_vars PROVE IInv'
  OBVIOUS
<1> DEFINE Parts ==
      /\ OldOrNew /\ PrevOld /\ MarkerShape /\ Memory
      /\ PreparingInv /\ SwappingInv /\ PuttingBackInv
      /\ Kept /\ RollbackInv /\ FinishInv
      /\ SettledInv /\ DurableInv /\ SteadyInv
<1>0. SUFFICES Parts'
  BY TypeStep DEF IInv
<1> USE SizesAssumption DEF IInv, TypeOK, DiskTypeOK, WorkTypeOK, PlanTypeOK, PastTypeOK,
   OldOrNew, PrevOld, MarkerShape, Memory, PreparingInv, SwappingInv, PuttingBackInv, Kept,
   RollbackInv, FinishInv, SettledInv, DurableInv, SteadyInv, Preparing, Marking, Durable,
   Steady, RestorePcs, UndoPcs, RecoverPcs, OriginalAt, AllNew, AllOld,
   WholeConfig, FileSteps, First, Last, Absent, Torn,
   Phases, NoMarker, Goto, GotoUndo, Return, Applied, past, NoFault, Fault, NoPlan
<1>1. CASE Begin
  <2>1. OldOrNew' /\ PrevOld'
    BY <1>1 DEF Begin, disk, Leftovers
  <2>2. MarkerShape' /\ Memory'
    BY <1>1 DEF Begin, disk, Leftovers
  <2>3. PreparingInv' /\ SwappingInv' /\ PuttingBackInv'
    BY <1>1 DEF Begin, disk, Leftovers
  <2>4. Kept' /\ RollbackInv' /\ FinishInv'
    BY <1>1 DEF Begin, disk, Leftovers
  <2>5. SettledInv' /\ DurableInv' /\ SteadyInv'
    BY <1>1 DEF Begin, disk, Leftovers
  <2> QED BY <2>1, <2>2, <2>3, <2>4, <2>5
<1>2. CASE CreateNext
  <2>1. OldOrNew' /\ PrevOld'
    BY <1>2 DEF CreateNext, MarkFailed
  <2>2. MarkerShape' /\ Memory'
    BY <1>2 DEF CreateNext, MarkFailed
  <2>3. PreparingInv' /\ SwappingInv' /\ PuttingBackInv'
    BY <1>2 DEF CreateNext, MarkFailed
  <2>4. Kept' /\ RollbackInv' /\ FinishInv'
    BY <1>2 DEF CreateNext, MarkFailed
  <2>5. SettledInv' /\ DurableInv' /\ SteadyInv'
    BY <1>2 DEF CreateNext, MarkFailed
  <2> QED BY <2>1, <2>2, <2>3, <2>4, <2>5
<1>3. CASE RenameNext
  <2>1. OldOrNew' /\ PrevOld'
    BY <1>3 DEF RenameNext, NewMarker, AfterMark, MarkFailed
  <2>2. MarkerShape' /\ Memory'
    BY <1>3 DEF RenameNext, NewMarker, AfterMark, MarkFailed
  <2>3. PreparingInv' /\ SwappingInv' /\ PuttingBackInv'
    BY <1>3 DEF RenameNext, NewMarker, AfterMark, MarkFailed
  <2>4. Kept' /\ RollbackInv' /\ FinishInv'
    BY <1>3 DEF RenameNext, NewMarker, AfterMark, MarkFailed
  <2>5. SettledInv' /\ DurableInv' /\ SteadyInv'
    BY <1>3 DEF RenameNext, NewMarker, AfterMark, MarkFailed
  <2> QED BY <2>1, <2>2, <2>3, <2>4, <2>5
<1>4. CASE MakeDirs
  <2>1. OldOrNew' /\ PrevOld'
    BY <1>4 DEF MakeDirs
  <2>2. MarkerShape' /\ Memory'
    BY <1>4 DEF MakeDirs
  <2>3. PreparingInv' /\ SwappingInv' /\ PuttingBackInv'
    BY <1>4 DEF MakeDirs
  <2>4. Kept' /\ RollbackInv' /\ FinishInv'
    BY <1>4 DEF MakeDirs
  <2>5. SettledInv' /\ DurableInv' /\ SteadyInv'
    BY <1>4 DEF MakeDirs
  <2> QED BY <2>1, <2>2, <2>3, <2>4, <2>5
<1>5. CASE Stage
  <2>1. OldOrNew' /\ PrevOld'
    BY <1>5 DEF Stage
  <2>2. MarkerShape' /\ Memory'
    BY <1>5 DEF Stage
  <2>3. PreparingInv' /\ SwappingInv' /\ PuttingBackInv'
    BY <1>5 DEF Stage
  <2>4. Kept' /\ RollbackInv' /\ FinishInv'
    BY <1>5 DEF Stage
  <2>5. SettledInv' /\ DurableInv' /\ SteadyInv'
    BY <1>5 DEF Stage
  <2> QED BY <2>1, <2>2, <2>3, <2>4, <2>5
<1>6. CASE SetAside
  <2>1. OldOrNew' /\ PrevOld'
    BY <1>6 DEF SetAside
  <2>2. MarkerShape' /\ Memory'
    BY <1>6 DEF SetAside
  <2>3. PreparingInv' /\ SwappingInv' /\ PuttingBackInv'
    BY <1>6 DEF SetAside
  <2>4. Kept' /\ RollbackInv' /\ FinishInv'
    BY <1>6 DEF SetAside
  <2>5. SettledInv' /\ DurableInv' /\ SteadyInv'
    BY <1>6 DEF SetAside
  <2> QED BY <2>1, <2>2, <2>3, <2>4, <2>5
<1>7. CASE Swap
  <2>1. OldOrNew' /\ PrevOld'
    BY <1>7 DEF Swap, Staged, AfterFailedSwap
  <2>2. MarkerShape' /\ Memory'
    BY <1>7 DEF Swap, Staged, AfterFailedSwap
  <2>3. PreparingInv' /\ SwappingInv' /\ PuttingBackInv'
    BY <1>7 DEF Swap, Staged, AfterFailedSwap
  <2>4. Kept' /\ RollbackInv' /\ FinishInv'
    BY <1>7 DEF Swap, Staged, AfterFailedSwap
  <2>5. SettledInv' /\ DurableInv' /\ SteadyInv'
    BY <1>7 DEF Swap, Staged, AfterFailedSwap
  <2> QED BY <2>1, <2>2, <2>3, <2>4, <2>5
<1>8. CASE PutBack
  <2>1. OldOrNew' /\ PrevOld'
    BY <1>8 DEF PutBack, PutBackAs
  <2>2. MarkerShape' /\ Memory'
    BY <1>8 DEF PutBack, PutBackAs
  <2>3. PreparingInv' /\ SwappingInv' /\ PuttingBackInv'
    BY <1>8 DEF PutBack, PutBackAs
  <2>4. Kept' /\ RollbackInv' /\ FinishInv'
    BY <1>8 DEF PutBack, PutBackAs
  <2>5. SettledInv' /\ DurableInv' /\ SteadyInv'
    BY <1>8 DEF PutBack, PutBackAs
  <2> QED BY <2>1, <2>2, <2>3, <2>4, <2>5
<1>9. CASE UndoTmp
  <2>1. OldOrNew' /\ PrevOld'
    BY <1>9 DEF UndoTmp
  <2>2. MarkerShape' /\ Memory'
    BY <1>9 DEF UndoTmp
  <2>3. PreparingInv' /\ SwappingInv' /\ PuttingBackInv'
    BY <1>9 DEF UndoTmp
  <2>4. Kept' /\ RollbackInv' /\ FinishInv'
    BY <1>9 DEF UndoTmp
  <2>5. SettledInv' /\ DurableInv' /\ SteadyInv'
    BY <1>9 DEF UndoTmp
  <2> QED BY <2>1, <2>2, <2>3, <2>4, <2>5
<1>10. CASE UndoPrev
  <2>1. OldOrNew' /\ PrevOld'
    BY <1>10 DEF UndoPrev, OutOfPlace
  <2>2. MarkerShape' /\ Memory'
    BY <1>10 DEF UndoPrev, OutOfPlace
  <2>3. PreparingInv' /\ SwappingInv' /\ PuttingBackInv'
    BY <1>10 DEF UndoPrev, OutOfPlace
  <2>4. Kept' /\ RollbackInv' /\ FinishInv'
    BY <1>10 DEF UndoPrev, OutOfPlace
  <2>5. SettledInv' /\ DurableInv' /\ SteadyInv'
    BY <1>10 DEF UndoPrev, OutOfPlace
  <2> QED BY <2>1, <2>2, <2>3, <2>4, <2>5
<1>11. CASE UndoDirs
  <2>1. OldOrNew' /\ PrevOld'
    BY <1>11 DEF UndoDirs
  <2>2. MarkerShape' /\ Memory'
    BY <1>11 DEF UndoDirs
  <2>3. PreparingInv' /\ SwappingInv' /\ PuttingBackInv'
    BY <1>11 DEF UndoDirs
  <2>4. Kept' /\ RollbackInv' /\ FinishInv'
    BY <1>11 DEF UndoDirs
  <2>5. SettledInv' /\ DurableInv' /\ SteadyInv'
    BY <1>11 DEF UndoDirs
  <2> QED BY <2>1, <2>2, <2>3, <2>4, <2>5
<1>12. CASE UndoMark
  <2>1. OldOrNew' /\ PrevOld'
    BY <1>12 DEF UndoMark, Incomplete
  <2>2. MarkerShape' /\ Memory'
    BY <1>12 DEF UndoMark, Incomplete
  <2>3. PreparingInv' /\ SwappingInv' /\ PuttingBackInv'
    BY <1>12 DEF UndoMark, Incomplete
  <2>4. Kept' /\ RollbackInv' /\ FinishInv'
    BY <1>12 DEF UndoMark, Incomplete
  <2>5. SettledInv' /\ DurableInv' /\ SteadyInv'
    BY <1>12 DEF UndoMark, Incomplete
  <2> QED BY <2>1, <2>2, <2>3, <2>4, <2>5
<1>13. CASE DropMarker
  <2>1. OldOrNew' /\ PrevOld'
    BY <1>13 DEF DropMarker
  <2>2. MarkerShape'
    BY <1>13 DEF DropMarker
  <2>3. Memory'
    BY <1>13 DEF DropMarker
  <2>4. PreparingInv' /\ SwappingInv' /\ PuttingBackInv'
    BY <1>13 DEF DropMarker
  <2>5. Kept' /\ RollbackInv' /\ FinishInv'
    BY <1>13 DEF DropMarker
  <2>6. SettledInv' /\ DurableInv' /\ SteadyInv'
    BY <1>13 DEF DropMarker
  <2> QED BY <2>1, <2>2, <2>3, <2>4, <2>5, <2>6
<1>14. CASE DropPrev
  <2>1. OldOrNew' /\ PrevOld'
    BY <1>14 DEF DropPrev
  <2>2. MarkerShape' /\ Memory'
    BY <1>14 DEF DropPrev
  <2>3. PreparingInv' /\ SwappingInv' /\ PuttingBackInv'
    BY <1>14 DEF DropPrev
  <2>4. Kept' /\ RollbackInv' /\ FinishInv'
    BY <1>14 DEF DropPrev
  <2>5. SettledInv' /\ DurableInv' /\ SteadyInv'
    BY <1>14 DEF DropPrev
  <2> QED BY <2>1, <2>2, <2>3, <2>4, <2>5
<1>15. CASE StartRollback
  <2>1. OldOrNew' /\ PrevOld'
    BY <1>15 DEF StartRollback, StartRecover, RollbackPlan, MayTry, HasTmp, HasPrev, Listed,
       disk
  <2>2. MarkerShape' /\ Memory'
    BY <1>15 DEF StartRollback, StartRecover, RollbackPlan, MayTry, HasTmp, HasPrev, Listed,
       disk
  <2>3. PreparingInv' /\ SwappingInv' /\ PuttingBackInv'
    BY <1>15 DEF StartRollback, StartRecover, RollbackPlan, MayTry, HasTmp, HasPrev, Listed,
       disk
  <2>4. Kept' /\ RollbackInv' /\ FinishInv'
    BY <1>15 DEF StartRollback, StartRecover, RollbackPlan, MayTry, HasTmp, HasPrev, Listed,
       disk
  <2>5. SettledInv' /\ DurableInv' /\ SteadyInv'
    BY <1>15 DEF StartRollback, StartRecover, RollbackPlan, MayTry, HasTmp, HasPrev, Listed,
       disk
  <2> QED BY <2>1, <2>2, <2>3, <2>4, <2>5
<1>16. CASE StartFinish
  <2>1. OldOrNew' /\ PrevOld'
    BY <1>16 DEF StartFinish, Finishable, StartRecover, FinishPlan, ChmodSteps, MayTry,
       HasTmp, HasPrev, Listed, disk
  <2>2. MarkerShape' /\ Memory'
    BY <1>16 DEF StartFinish, Finishable, StartRecover, FinishPlan, ChmodSteps, MayTry,
       HasTmp, HasPrev, Listed, disk
  <2>3. PreparingInv' /\ SwappingInv' /\ PuttingBackInv'
    BY <1>16 DEF StartFinish, Finishable, StartRecover, FinishPlan, ChmodSteps, MayTry,
       HasTmp, HasPrev, Listed, disk
  <2>4. Kept' /\ RollbackInv' /\ FinishInv'
    BY <1>16 DEF StartFinish, Finishable, StartRecover, FinishPlan, ChmodSteps, MayTry,
       HasTmp, HasPrev, Listed, disk
  <2>5. SettledInv' /\ DurableInv' /\ SteadyInv'
    BY <1>16 DEF StartFinish, Finishable, StartRecover, FinishPlan, ChmodSteps, MayTry,
       HasTmp, HasPrev, Listed, disk
  <2> QED BY <2>1, <2>2, <2>3, <2>4, <2>5
<1>17. CASE InstallCopy
  <2>1. OldOrNew' /\ PrevOld'
    BY <1>17 DEF InstallCopy, At
  <2>2. MarkerShape' /\ Memory'
    BY <1>17 DEF InstallCopy, At
  <2>3. PreparingInv' /\ SwappingInv' /\ PuttingBackInv'
    BY <1>17 DEF InstallCopy, At
  <2>4. Kept' /\ RollbackInv' /\ FinishInv'
    BY <1>17 DEF InstallCopy, At
  <2>5. SettledInv' /\ DurableInv' /\ SteadyInv'
    BY <1>17 DEF InstallCopy, At
  <2> QED BY <2>1, <2>2, <2>3, <2>4, <2>5
<1>18. CASE InstallRename
  <2>0. ASSUME NEW f \in Files, First(f, FileSteps)
        PROVE  f \in plan.install /\ \A g \in plan.install : First(g, FileSteps) => g = f
    <3>1. FileSteps \in SUBSET Files
      OBVIOUS
    <3>2. PICK g \in plan.install : First(g, FileSteps)
      BY <1>18 DEF InstallRename, Staged
    <3>3. \A h \in plan.install : First(h, FileSteps) => h = f
      BY <2>0, <3>1, FirstIsUnique
    <3> QED
      BY <3>2, <3>3
  <2>1. OldOrNew' /\ PrevOld'
    BY <2>0, <1>18 DEF InstallRename, Staged
  <2>2. MarkerShape' /\ Memory'
    BY <2>0, <1>18 DEF InstallRename, Staged
  <2>3. PreparingInv' /\ SwappingInv' /\ PuttingBackInv'
    BY <2>0, <1>18 DEF InstallRename, Staged
  <2>4. Kept' /\ RollbackInv' /\ FinishInv'
    BY <2>0, <1>18 DEF InstallRename, Staged
  <2>5. SettledInv' /\ DurableInv' /\ SteadyInv'
    BY <2>0, <1>18 DEF InstallRename, Staged
  <2> QED BY <2>1, <2>2, <2>3, <2>4, <2>5
<1>19. CASE InstallDropTmp
  <2>0. ASSUME NEW f \in Files, First(f, FileSteps)
        PROVE  f \in plan.install /\ \A g \in plan.install : First(g, FileSteps) => g = f
    <3>1. FileSteps \in SUBSET Files
      OBVIOUS
    <3>2. PICK g \in plan.install : First(g, FileSteps)
      BY <1>19 DEF InstallDropTmp
    <3>3. \A h \in plan.install : First(h, FileSteps) => h = f
      BY <2>0, <3>1, FirstIsUnique
    <3> QED
      BY <3>2, <3>3
  <2>1. OldOrNew' /\ PrevOld'
    BY <2>0, <1>19 DEF InstallDropTmp
  <2>2. MarkerShape' /\ Memory'
    BY <2>0, <1>19 DEF InstallDropTmp
  <2>3. PreparingInv' /\ SwappingInv' /\ PuttingBackInv'
    BY <2>0, <1>19 DEF InstallDropTmp
  <2>4. Kept' /\ RollbackInv' /\ FinishInv'
    BY <2>0, <1>19 DEF InstallDropTmp
  <2>5. SettledInv' /\ DurableInv' /\ SteadyInv'
    BY <2>0, <1>19 DEF InstallDropTmp
  <2> QED BY <2>1, <2>2, <2>3, <2>4, <2>5
<1>20. CASE RecoverDropTmp
  <2>1. OldOrNew' /\ PrevOld'
    BY <1>20 DEF RecoverDropTmp, At
  <2>2. MarkerShape' /\ Memory'
    BY <1>20 DEF RecoverDropTmp, At
  <2>3. PreparingInv' /\ SwappingInv' /\ PuttingBackInv'
    BY <1>20 DEF RecoverDropTmp, At
  <2>4. Kept' /\ RollbackInv' /\ FinishInv'
    BY <1>20 DEF RecoverDropTmp, At
  <2>5. SettledInv' /\ DurableInv' /\ SteadyInv'
    BY <1>20 DEF RecoverDropTmp, At
  <2> QED BY <2>1, <2>2, <2>3, <2>4, <2>5
<1>21. CASE RecoverPutBack
  <2>1. OldOrNew' /\ PrevOld'
    BY <1>21 DEF RecoverPutBack, At
  <2>2. MarkerShape' /\ Memory'
    BY <1>21 DEF RecoverPutBack, At
  <2>3. PreparingInv' /\ SwappingInv' /\ PuttingBackInv'
    BY <1>21 DEF RecoverPutBack, At
  <2>4. Kept' /\ RollbackInv' /\ FinishInv'
    BY <1>21 DEF RecoverPutBack, At
  <2>5. SettledInv' /\ DurableInv' /\ SteadyInv'
    BY <1>21 DEF RecoverPutBack, At
  <2> QED BY <2>1, <2>2, <2>3, <2>4, <2>5
<1>22. CASE RecoverDropPrev
  <2>1. OldOrNew' /\ PrevOld'
    BY <1>22 DEF RecoverDropPrev, At
  <2>2. MarkerShape' /\ Memory'
    BY <1>22 DEF RecoverDropPrev, At
  <2>3. PreparingInv' /\ SwappingInv' /\ PuttingBackInv'
    BY <1>22 DEF RecoverDropPrev, At
  <2>4. Kept' /\ RollbackInv' /\ FinishInv'
    BY <1>22 DEF RecoverDropPrev, At
  <2>5. SettledInv' /\ DurableInv' /\ SteadyInv'
    BY <1>22 DEF RecoverDropPrev, At
  <2> QED BY <2>1, <2>2, <2>3, <2>4, <2>5
<1>23. CASE RecoverRmdir
  <2>1. OldOrNew' /\ PrevOld'
    BY <1>23 DEF RecoverRmdir
  <2>2. MarkerShape' /\ Memory'
    BY <1>23 DEF RecoverRmdir
  <2>3. PreparingInv' /\ SwappingInv' /\ PuttingBackInv'
    BY <1>23 DEF RecoverRmdir
  <2>4. Kept' /\ RollbackInv' /\ FinishInv'
    BY <1>23 DEF RecoverRmdir
  <2>5. SettledInv' /\ DurableInv' /\ SteadyInv'
    BY <1>23 DEF RecoverRmdir
  <2> QED BY <2>1, <2>2, <2>3, <2>4, <2>5
<1>24. CASE RecoverUnmark
  <2>1. OldOrNew' /\ PrevOld'
    BY <1>24 DEF RecoverUnmark, FilesAndDirsDone, work
  <2>2. MarkerShape' /\ Memory'
    BY <1>24 DEF RecoverUnmark, FilesAndDirsDone, work
  <2>3. PreparingInv' /\ SwappingInv' /\ PuttingBackInv'
    BY <1>24 DEF RecoverUnmark, FilesAndDirsDone, work
  <2>4. Kept' /\ RollbackInv' /\ FinishInv'
    BY <1>24 DEF RecoverUnmark, FilesAndDirsDone, work
  <2>5. SettledInv' /\ DurableInv' /\ SteadyInv'
    BY <1>24 DEF RecoverUnmark, FilesAndDirsDone, work
  <2> QED BY <2>1, <2>2, <2>3, <2>4, <2>5
<1>25. CASE RecoverDropJunk
  <2>1. OldOrNew' /\ PrevOld'
    BY <1>25 DEF RecoverDropJunk, FilesAndDirsDone
  <2>2. MarkerShape' /\ Memory'
    BY <1>25 DEF RecoverDropJunk, FilesAndDirsDone
  <2>3. PreparingInv' /\ SwappingInv' /\ PuttingBackInv'
    BY <1>25 DEF RecoverDropJunk, FilesAndDirsDone
  <2>4. Kept' /\ RollbackInv' /\ FinishInv'
    BY <1>25 DEF RecoverDropJunk, FilesAndDirsDone
  <2>5. SettledInv' /\ DurableInv' /\ SteadyInv'
    BY <1>25 DEF RecoverDropJunk, FilesAndDirsDone
  <2> QED BY <2>1, <2>2, <2>3, <2>4, <2>5
<1>26. CASE RecoverReturn
  <2>1. OldOrNew' /\ PrevOld'
    BY <1>26 DEF RecoverReturn, FilesAndDirsDone, disk
  <2>2. MarkerShape' /\ Memory'
    BY <1>26 DEF RecoverReturn, FilesAndDirsDone, disk
  <2>3. PreparingInv' /\ SwappingInv' /\ PuttingBackInv'
    BY <1>26 DEF RecoverReturn, FilesAndDirsDone, disk
  <2>4. Kept' /\ RollbackInv' /\ FinishInv'
    BY <1>26 DEF RecoverReturn, FilesAndDirsDone, disk
  <2>5. SettledInv' /\ DurableInv' /\ SteadyInv'
    BY <1>26 DEF RecoverReturn, FilesAndDirsDone, disk
  <2> QED BY <2>1, <2>2, <2>3, <2>4, <2>5
<1>27. CASE RecoverFails
  <2>1. OldOrNew' /\ PrevOld'
    BY <1>27 DEF RecoverFails, FilesAndDirsDone, disk
  <2>2. MarkerShape' /\ Memory'
    BY <1>27 DEF RecoverFails, FilesAndDirsDone, disk
  <2>3. PreparingInv' /\ SwappingInv' /\ PuttingBackInv'
    BY <1>27 DEF RecoverFails, FilesAndDirsDone, disk
  <2>4. Kept' /\ RollbackInv' /\ FinishInv'
    BY <1>27 DEF RecoverFails, FilesAndDirsDone, disk
  <2>5. SettledInv' /\ DurableInv' /\ SteadyInv'
    BY <1>27 DEF RecoverFails, FilesAndDirsDone, disk
  <2> QED BY <2>1, <2>2, <2>3, <2>4, <2>5
<1>28. CASE Crash
  <2>1. OldOrNew' /\ PrevOld'
    BY <1>28 DEF Crash, disk
  <2>2. MarkerShape' /\ Memory'
    BY <1>28 DEF Crash, disk
  <2>3. PreparingInv' /\ SwappingInv' /\ PuttingBackInv'
    BY <1>28 DEF Crash, disk
  <2>4. Kept' /\ RollbackInv' /\ FinishInv'
    BY <1>28 DEF Crash, disk
  <2>5. SettledInv' /\ DurableInv' /\ SteadyInv'
    BY <1>28 DEF Crash, disk
  <2> QED BY <2>1, <2>2, <2>3, <2>4, <2>5
<1>29. CASE UNCHANGED vars
  <2>1. OldOrNew' /\ PrevOld'
    BY <1>29 DEF vars, disk, work
  <2>2. MarkerShape' /\ Memory'
    BY <1>29 DEF vars, disk, work
  <2>3. PreparingInv' /\ SwappingInv' /\ PuttingBackInv'
    BY <1>29 DEF vars, disk, work
  <2>4. Kept' /\ RollbackInv' /\ FinishInv'
    BY <1>29 DEF vars, disk, work
  <2>5. SettledInv' /\ DurableInv' /\ SteadyInv'
    BY <1>29 DEF vars, disk, work
  <2> QED BY <2>1, <2>2, <2>3, <2>4, <2>5
<1>30. CASE RecoverChmod
  <2>1. OldOrNew' /\ PrevOld'
    BY <1>30 DEF RecoverChmod, disk
  <2>2. MarkerShape' /\ Memory'
    BY <1>30 DEF RecoverChmod, disk
  <2>3. PreparingInv' /\ SwappingInv' /\ PuttingBackInv'
    BY <1>30 DEF RecoverChmod, disk
  <2>4. Kept' /\ RollbackInv' /\ FinishInv'
    BY <1>30 DEF RecoverChmod, disk
  <2>5. SettledInv' /\ DurableInv' /\ SteadyInv'
    BY <1>30 DEF RecoverChmod, disk
  <2> QED BY <2>1, <2>2, <2>3, <2>4, <2>5
<1> QED
  BY <1>1, <1>2, <1>3, <1>4, <1>5, <1>6, <1>7, <1>8, <1>9, <1>10, <1>11, <1>12, <1>13,
     <1>14, <1>15, <1>16, <1>17, <1>18, <1>19, <1>20, <1>21, <1>22, <1>23, <1>24, <1>25,
     <1>26, <1>27, <1>28, <1>29, <1>30
  DEF Next, Materialize, Undo, Finish, ApplyPlan

(* The inductive invariant the other safety theorems follow from: what is on disk *)
(* at every point of a restore, an undo and a recovery, and after a crash at it.  *)
THEOREM RestoreInvariant == Spec => []IInv
BY InvInit, InvStep, PTL DEF Spec

(* A live file is its original or the restored one, whole and never missing, at *)
(* every point of a restore or a recovery and after any crash (swap, PutBack,   *)
(* Op::Install, Op::Rename).                                                    *)
THEOREM FilesAreOldOrNew == Spec => []OldOrNew
<1>1. IInv => OldOrNew
  BY DEF IInv
<1> QED
  BY <1>1, RestoreInvariant, PTL

(* As long as the marker is there and no finish was begun, a rollback still finds *)
(* every original.                                                                *)
THEOREM OriginalsAreKept == Spec => []OriginalsKept
<1>1. IInv => OriginalsKept
  BY DEF IInv, Kept, OriginalsKept
<1> QED
  BY <1>1, RestoreInvariant, PTL

(* An operator who only ever rolls back never sees a mixture without a marker, *)
(* even if a marker is renamed and then not made durable: a rollback, and the   *)
(* undo of a failed restore, need nothing of the marker but that it is there.   *)
THEOREM RollbackAloneIsWhole ==
    Spec => [](marker.phase = "none" /\ "finish" \notin tried => AllOld \/ AllNew)
<1>1. IInv => (marker.phase = "none" /\ "finish" \notin tried => AllOld \/ AllNew)
  BY DEF IInv, SettledInv
<1> QED
  BY <1>1, RestoreInvariant, PTL

(* With the swapping marker durable once it is renamed, a finish that no rollback *)
(* came before leaves every file the restored one, whatever crashes it met, also  *)
(* where the operator may change his mind.                                        *)
THEOREM FinishAloneInstallsAll ==
    ASSUME Durable
    PROVE  Spec => [](marker.phase = "none" /\ "finish" \in tried /\ "rollback" \notin tried
                          => AllNew)
<1>1. IInv => (marker.phase = "none" /\ "finish" \in tried /\ "rollback" \notin tried
                  => AllNew)
  BY DEF IInv, DurableInv
<1> QED
  BY <1>1, RestoreInvariant, PTL

LEMMA SteadyIsWhole == ASSUME Steady PROVE IInv => WholeConfig
BY DEF IInv, SettledInv, SteadyInv, WholeConfig

(* With an operator who keeps to one action, and with the swapping marker durable *)
(* once it is renamed, the config without a marker is never a mixture.            *)
THEOREM ConfigIsWhole == ASSUME Steady PROVE Spec => []WholeConfig
BY SteadyIsWhole, RestoreInvariant, PTL

(* With the swapping marker durable, a restore that says swapping can be finished *)
(* until a rollback of it is begun.                                               *)
THEOREM FinishRemainsPossible == ASSUME Durable PROVE Spec => []FinishStillPossible
<1>1. IInv => FinishStillPossible
  BY DEF IInv, DurableInv, FinishStillPossible
<1> QED
  BY <1>1, RestoreInvariant, PTL

(* Only a new restore changes what the running one started from.  *)
LEMMA PastIsFixed == [Next]_vars => Begin \/ UNCHANGED <<base, run>>
BY DEF Next, Materialize, Undo, Finish, ApplyPlan, vars, past, disk, work, Goto, GotoUndo,
       Return, Applied, CreateNext, MarkFailed, RenameNext, MakeDirs, Stage, SetAside, Swap,
       PutBack, UndoTmp, UndoPrev, UndoDirs, UndoMark, DropMarker, DropPrev, StartRollback,
       StartFinish, StartRecover, InstallCopy, InstallRename, InstallDropTmp,
       RecoverDropTmp, RecoverPutBack, RecoverDropPrev, RecoverChmod, RecoverRmdir,
       RecoverUnmark, RecoverDropJunk, RecoverReturn, RecoverFails, Crash

(* No live file changes while there is no marker. *)
LEMMA NoMarkerNoChange == IInv /\ [Next]_vars /\ marker.phase = "none" => name' = name
<1> SUFFICES ASSUME IInv, [Next]_vars, marker.phase = "none" PROVE name' = name
  OBVIOUS
<1>1. ~Swap
  BY DEF IInv, SwappingInv, Swap
<1>2. ~PutBack
  BY DEF IInv, PuttingBackInv, PutBack
<1>3. ~InstallRename /\ ~RecoverPutBack
  BY DEF IInv, FinishInv, RecoverPcs, InstallRename, RecoverPutBack, At
<1> QED
  BY <1>1, <1>2, <1>3
  DEF Next, Materialize, Undo, Finish, ApplyPlan, vars, disk, Begin, CreateNext, RenameNext,
      MakeDirs, Stage, SetAside, UndoTmp, UndoPrev, UndoDirs, UndoMark, DropMarker, DropPrev,
      StartRollback, StartFinish, StartRecover, InstallCopy, InstallDropTmp, RecoverDropTmp,
      RecoverDropPrev, RecoverChmod, RecoverRmdir, RecoverUnmark, RecoverDropJunk,
      RecoverReturn, RecoverFails, Crash

(* A marker appears only while every file is what it was. *)
LEMMA MarkerAppears ==
    IInv /\ [Next]_vars /\ marker.phase = "none" /\ marker'.phase # "none" => name = base
<1> SUFFICES ASSUME IInv, [Next]_vars, marker.phase = "none", marker'.phase # "none"
             PROVE  name = base
  OBVIOUS
<1>1. CASE RenameNext
  BY <1>1 DEF IInv, TypeOK, WorkTypeOK, Phases, PreparingInv, PuttingBackInv, Preparing,
              Marking, RenameNext
<1>2. CASE ~RenameNext
  BY <1>2
  DEF IInv, MarkerShape, NoMarker, Next, Materialize, Undo, Finish, ApplyPlan, vars, disk,
      Begin, CreateNext, MakeDirs, Stage, SetAside, Swap, PutBack, UndoTmp, UndoPrev, UndoDirs,
      UndoMark, DropMarker, DropPrev, StartRollback, StartFinish, StartRecover, InstallCopy,
      InstallRename, InstallDropTmp, RecoverDropTmp, RecoverPutBack, RecoverDropPrev,
      RecoverChmod, RecoverRmdir, RecoverUnmark, RecoverDropJunk, RecoverReturn,
      RecoverFails, Crash
<1> QED
  BY <1>1, <1>2

(* A restore with its failures, crashes and recoveries implements the promise that *)
(* the configuration is replaced as a whole or keeps its originals.                 *)
THEOREM RestoreIsAtomic == ASSUME Steady PROVE Spec => RefinesAtomic
<1> DEFINE config == IF marker.phase = "none" THEN name ELSE base
<1>1. Init => Atomic!Init
  BY DEF Init, Atomic!Init, Atomic!Absent, Absent, NoMarker
<1>2. ASSUME IInv, IInv', [Next]_vars
      PROVE  Atomic!Next \/ UNCHANGED <<config, run>>
  <2>1. CASE Begin
    <3>1. marker' = marker /\ name' = name /\ base' = name /\ run' = run + 1
      BY <2>1 DEF Begin, disk
    <3>2. marker.phase = "none" /\ run <= MaxRestores
      BY <2>1 DEF Begin, Leftovers
    <3> QED
      BY <3>1, <3>2 DEF Atomic!Next, Atomic!Begin
  <2>2. CASE UNCHANGED <<base, run>>
    <3>1. CASE marker.phase = "none" /\ marker'.phase = "none"
      BY <1>2, <2>2, <3>1, NoMarkerNoChange
    <3>2. CASE marker.phase = "none" /\ marker'.phase # "none"
      BY <1>2, <2>2, <3>2, NoMarkerNoChange, MarkerAppears
    <3>3. CASE marker.phase # "none" /\ marker'.phase # "none"
      BY <2>2, <3>3
    <3>4. CASE marker.phase # "none" /\ marker'.phase = "none"
      <4>1. config = base /\ config' = name' /\ run' = run
        BY <2>2, <3>4
      <4>2. /\ base \in [Files -> Versions \cup {Absent, Torn}]
            /\ name' \in [Files -> Versions \cup {Absent, Torn}]
        BY <1>2 DEF IInv, TypeOK, DiskTypeOK, PastTypeOK
      <4>3. AllOld' \/ AllNew'
        BY <1>2, <3>4 DEF IInv, SettledInv, SteadyInv
      <4>4. CASE AllNew'
        <5>1. name' = [f \in Files |-> run]
          BY <4>1, <4>2, <4>4 DEF AllNew
        <5> QED
          BY <4>1, <5>1 DEF Atomic!Next, Atomic!Commit
      <4>5. CASE AllOld'
        <5>1. \A f \in Files : name'[f] = base[f] \/ (base[f] = Absent /\ name'[f] = run)
          BY <1>2, <2>2, <4>5 DEF AllOld, IInv, OldOrNew
        <5>2. name' \in [Files -> {base[f] : f \in Files} \cup {run}]
          BY <4>2, <5>1
        <5> QED
          BY <4>1, <5>1, <5>2 DEF Atomic!Next, Atomic!Abort, Atomic!Absent, Absent
      <4> QED
        BY <4>3, <4>4, <4>5
    <3> QED
      BY <3>1, <3>2, <3>3, <3>4
  <2> QED
    BY <1>2, <2>1, <2>2, PastIsFixed
<1> HIDE DEF config
<1>3. QED
  BY <1>1, <1>2, RestoreInvariant, PTL DEF Spec, RefinesAtomic, Atomic!Spec, config

(* What a restore installs was in no file before it: its content is its own. *)
LEMMA FreshStep == IInv /\ FreshInv /\ [Next]_vars => FreshInv'
<1> SUFFICES ASSUME IInv, FreshInv, [Next]_vars PROVE FreshInv'
  OBVIOUS
<1>1. CASE Begin
  BY <1>1 DEF Begin, FreshInv, IInv, TypeOK, DiskTypeOK, PastTypeOK, OldOrNew, Versions, Absent,
              Torn
<1>2. CASE UNCHANGED <<base, run>> /\ \A f \in Files : base[f] < run
  BY <1>2 DEF FreshInv
<1>3. CASE pc = "idle" /\ ~Leftovers /\ ~Begin
  <2>1. UNCHANGED vars
    BY <1>3 DEF Next, Materialize, Undo, Finish, ApplyPlan, CreateNext, RenameNext, MakeDirs,
                Stage, SetAside, Swap, PutBack, UndoTmp, UndoPrev, UndoDirs, UndoMark,
                DropMarker, DropPrev, StartRollback, StartFinish, StartRecover, InstallCopy,
                InstallRename, InstallDropTmp, RecoverDropTmp, RecoverPutBack,
                RecoverDropPrev, RecoverChmod, RecoverRmdir, RecoverUnmark,
                RecoverDropJunk, RecoverReturn, RecoverFails, Crash, At, FilesAndDirsDone
  <2> QED
    BY <2>1 DEF vars, disk, work, past, FreshInv, Leftovers
<1> QED
  BY <1>1, <1>2, <1>3, PastIsFixed DEF FreshInv

(* Once the marker says rolling back, neither swap nor Op::Install replaces another *)
(* file, in the restore that failed or in any recovery after a crash.               *)
THEOREM RollbackReplacesNothing == Spec => RollingBackOnlyPutsBack
<1>1. Init => FreshInv
  BY DEF Init, FreshInv, Leftovers, Absent, NoMarker
<1>2. ASSUME IInv, FreshInv, [Next]_vars
      PROVE  marker.phase = "rolling_back" =>
                \A f \in Files : name'[f] = run => name[f] = run
  <2> SUFFICES ASSUME marker.phase = "rolling_back", NEW f \in Files, name'[f] = run
               PROVE  name[f] = run
    OBVIOUS
  <2>1. base[f] # run
    BY <1>2 DEF FreshInv, Leftovers, IInv, TypeOK, PastTypeOK, Versions
  <2>2. ~Swap
    BY <1>2 DEF IInv, SwappingInv, Swap
  <2>3. ~InstallRename
    BY <1>2 DEF IInv, Memory, RecoverPcs, Kept, RollbackInv, FinishInv, InstallRename
  <2>4. CASE PutBack
    BY <1>2, <2>1, <2>4 DEF IInv, TypeOK, DiskTypeOK, PuttingBackInv, PutBack, PutBackAs, Last
  <2>5. CASE RecoverPutBack
    BY <1>2, <2>1, <2>5 DEF IInv, TypeOK, DiskTypeOK, RollbackInv, FinishInv, RecoverPcs,
                            RecoverPutBack, At
  <2>6. CASE ~PutBack /\ ~RecoverPutBack
    <3>1. name' = name
      BY <1>2, <2>2, <2>3, <2>6
      DEF Next, Materialize, Undo, Finish, ApplyPlan, vars, disk, Begin, CreateNext, RenameNext,
          MakeDirs, Stage, SetAside, UndoTmp, UndoPrev, UndoDirs, UndoMark, DropMarker,
          DropPrev, StartRollback, StartFinish, StartRecover, InstallCopy, InstallDropTmp,
          RecoverDropTmp, RecoverDropPrev, RecoverChmod, RecoverRmdir, RecoverUnmark,
          RecoverDropJunk, RecoverReturn, RecoverFails, Crash
    <3> QED
      BY <3>1
  <2> QED
    BY <2>4, <2>5, <2>6
<1>3. QED
  BY <1>1, <1>2, FreshStep, RestoreInvariant, PTL DEF Spec, RollingBackOnlyPutsBack

(* Every step keeps what the replies rest on. *)
LEMMA ReplyStep == IInv /\ IInv' /\ ReplyInv /\ [Next]_vars => ReplyInv'
<1> SUFFICES ASSUME IInv, IInv', ReplyInv, [Next]_vars PROVE ReplyInv'
  OBVIOUS
<1> USE SizesAssumption DEF ReplyInv, UndoneInv, CreatedInv, PlannedInv, RestorePcs, UndoPcs,
   RecoverPcs, FileSteps, First, Last, Absent, NoMarker, Goto, GotoUndo, Return, Applied,
   past, NoFault, Fault, NoPlan
<1>1. CASE Begin
  <2>1. UndoneInv'
    BY <1>1 DEF Begin, disk, Leftovers
  <2>2. CreatedInv'
    <3>1. marker = NoMarker /\ marker' = marker /\ dirs' = dirs /\ baseDirs' = dirs
      BY <1>1 DEF Begin, disk, Leftovers, IInv, MarkerShape
    <3>2. pc = "idle" /\ pc' = "mark" /\ created' = created
      BY <1>1 DEF Begin
    <3> QED
      BY <3>1, <3>2
  <2>3. PlannedInv'
    BY <1>1 DEF Begin, disk, Leftovers
  <2>4. (reply # "none" => pc = "idle")' /\ ReportIsTrue'
    BY <1>1 DEF Begin, disk, Leftovers, ReportIsTrue
  <2> QED BY <2>1, <2>2, <2>3, <2>4
<1>2. CASE CreateNext
  <2>1. UndoneInv'
    BY <1>2 DEF CreateNext, MarkFailed, NextMarker
  <2>2. CreatedInv'
    BY <1>2 DEF CreateNext, MarkFailed, NextMarker, AllNew
  <2>3. PlannedInv'
    BY <1>2 DEF CreateNext, MarkFailed, NextMarker
  <2>4. (reply # "none" => pc = "idle")' /\ ReportIsTrue'
    BY <1>2 DEF CreateNext, MarkFailed, NextMarker, ReportIsTrue
  <2> QED BY <2>1, <2>2, <2>3, <2>4
<1>3. CASE RenameNext
  <2>1. UndoneInv'
    BY <1>3 DEF RenameNext, NewMarker, AfterMark, MarkFailed
  <2>2. CreatedInv'
    BY <1>3 DEF RenameNext, NewMarker, AfterMark, MarkFailed, AllNew
  <2>3. PlannedInv'
    BY <1>3 DEF RenameNext, NewMarker, AfterMark, MarkFailed
  <2>4. (reply # "none" => pc = "idle")' /\ ReportIsTrue'
    BY <1>3 DEF RenameNext, NewMarker, AfterMark, MarkFailed, ReportIsTrue
  <2> QED BY <2>1, <2>2, <2>3, <2>4
<1>4. CASE MakeDirs
  <2>1. UndoneInv'
    BY <1>4 DEF MakeDirs
  <2>2. CreatedInv'
    BY <1>4 DEF MakeDirs
  <2>3. PlannedInv'
    BY <1>4 DEF MakeDirs
  <2>4. (reply # "none" => pc = "idle")' /\ ReportIsTrue'
    BY <1>4 DEF MakeDirs, ReportIsTrue
  <2> QED BY <2>1, <2>2, <2>3, <2>4
<1>5. CASE Stage
  <2>1. UndoneInv'
    BY <1>5 DEF Stage
  <2>2. CreatedInv'
    BY <1>5 DEF Stage, AllNew
  <2>3. PlannedInv'
    BY <1>5 DEF Stage
  <2>4. (reply # "none" => pc = "idle")' /\ ReportIsTrue'
    BY <1>5 DEF Stage, ReportIsTrue
  <2> QED BY <2>1, <2>2, <2>3, <2>4
<1>6. CASE SetAside
  <2>1. UndoneInv'
    BY <1>6 DEF SetAside
  <2>2. CreatedInv'
    BY <1>6 DEF SetAside, AllNew
  <2>3. PlannedInv'
    BY <1>6 DEF SetAside
  <2>4. (reply # "none" => pc = "idle")' /\ ReportIsTrue'
    BY <1>6 DEF SetAside, ReportIsTrue
  <2> QED BY <2>1, <2>2, <2>3, <2>4
<1>7. CASE Swap
  <2>1. UndoneInv'
    BY <1>7 DEF Swap, AfterFailedSwap
  <2>2. CreatedInv'
    BY <1>7 DEF Swap, AfterFailedSwap, IInv, SwappingInv, AllNew
  <2>3. PlannedInv'
    BY <1>7 DEF Swap, AfterFailedSwap
  <2>4. (reply # "none" => pc = "idle")' /\ ReportIsTrue'
    BY <1>7 DEF Swap, AfterFailedSwap, ReportIsTrue
  <2> QED BY <2>1, <2>2, <2>3, <2>4
<1>8. CASE PutBack
  <2>1. UndoneInv'
    BY <1>8 DEF PutBack
  <2>2. CreatedInv'
    BY <1>8 DEF PutBack, IInv, PuttingBackInv, AllNew
  <2>3. PlannedInv'
    BY <1>8 DEF PutBack
  <2>4. (reply # "none" => pc = "idle")' /\ ReportIsTrue'
    BY <1>8 DEF PutBack, ReportIsTrue
  <2> QED BY <2>1, <2>2, <2>3, <2>4
<1>9. CASE UndoTmp
  <2>1. UndoneInv'
    <3>1. PICK f \in Files \cup {0} :
             \/ /\ f \in Files /\ First(f, todo) /\ pc' = "undo_prev"
                /\ todo' = todo /\ prev' = prev /\ junk' = junk
                /\ \/ tmp' = [tmp EXCEPT ![f] = "none"] /\ left' = left
                   \/ left'
             \/ /\ todo = {} /\ pc' = "undo_dirs"
                /\ tmp' = tmp /\ prev' = prev /\ left' = left /\ junk' = junk
      BY <1>9 DEF UndoTmp
    <3>2. \A g \in Files : First(f, todo) /\ First(g, todo) => f = g
      BY <3>1 DEF Files
    <3>3. pc = "undo_tmp" /\ tmp \in [Files -> {"none", "partial", "full"}]
      BY <1>9 DEF UndoTmp, IInv, TypeOK, DiskTypeOK
    <3> QED
      BY <3>1, <3>2, <3>3
  <2>2. CreatedInv'
    BY <1>9 DEF UndoTmp, AllNew
  <2>3. PlannedInv'
    BY <1>9 DEF UndoTmp
  <2>4. (reply # "none" => pc = "idle")' /\ ReportIsTrue'
    BY <1>9 DEF UndoTmp, ReportIsTrue
  <2> QED BY <2>1, <2>2, <2>3, <2>4
<1>10. CASE UndoPrev
  <2>1. UndoneInv'
    <3>1. PICK f \in Files :
             /\ First(f, todo) /\ pc' = "undo_tmp" /\ todo' = todo \ {f}
             /\ tmp' = tmp /\ junk' = junk
             /\ \/ /\ prev' = IF OutOfPlace(f) THEN prev ELSE [prev EXCEPT ![f] = Absent]
                   /\ left' = (left \/ OutOfPlace(f))
                \/ left'
      BY <1>10 DEF UndoPrev
    <3>2. pc = "undo_prev" /\ prev \in [Files -> Versions \cup {Absent, Torn}]
      BY <1>10 DEF UndoPrev, IInv, TypeOK, DiskTypeOK
    <3> QED
      BY <3>1, <3>2
  <2>2. CreatedInv'
    BY <1>10 DEF UndoPrev, OutOfPlace, AllNew
  <2>3. PlannedInv'
    BY <1>10 DEF UndoPrev, OutOfPlace
  <2>4. (reply # "none" => pc = "idle")' /\ ReportIsTrue'
    BY <1>10 DEF UndoPrev, OutOfPlace, ReportIsTrue
  <2> QED BY <2>1, <2>2, <2>3, <2>4
<1>11. CASE UndoDirs
  <2>1. UndoneInv'
    BY <1>11 DEF UndoDirs
  <2>2. CreatedInv'
    BY <1>11 DEF UndoDirs, AllNew
  <2>3. PlannedInv'
    BY <1>11 DEF UndoDirs
  <2>4. (reply # "none" => pc = "idle")' /\ ReportIsTrue'
    BY <1>11 DEF UndoDirs, ReportIsTrue
  <2> QED BY <2>1, <2>2, <2>3, <2>4
<1>12. CASE UndoMark
  <2>1. UndoneInv'
    BY <1>12 DEF UndoMark, Incomplete
  <2>2. CreatedInv'
    BY <1>12 DEF UndoMark, Incomplete, AllNew
  <2>3. PlannedInv'
    BY <1>12 DEF UndoMark, Incomplete
  <2>4. (reply # "none" => pc = "idle")' /\ ReportIsTrue'
    <3>1. /\ pc' = "idle"
          /\ reply' \in {"failed", "incomplete"}
          /\ UNCHANGED <<name, base, dirs, baseDirs, tmp, prev>>
      BY <1>12 DEF UndoMark
    <3>2. reply' = "failed" => ~left /\ marker' = NoMarker
      BY <1>12 DEF UndoMark, Incomplete
    <3>3. ~left => name = base /\ dirs = baseDirs
      <4>1. ~left => displaced = {} /\ \A f \in Files \ displaced : name[f] = base[f]
        BY <1>12 DEF UndoMark, IInv, PuttingBackInv
      <4>2. ~left => dirs = baseDirs
        BY <1>12 DEF UndoMark
      <4>3. /\ name \in [Files -> Versions \cup {Absent, Torn}]
            /\ base \in [Files -> Versions \cup {Absent, Torn}]
        BY DEF IInv, TypeOK, DiskTypeOK, PastTypeOK
      <4> QED
        BY <4>1, <4>2, <4>3
    <3>4. ~left => \A f \in Files : tmp[f] = "none" /\ prev[f] = Absent
      BY <1>12 DEF UndoMark
    <3>5. junk' \subseteq {NextMarker}
      BY <1>12 DEF UndoMark
    <3> QED
      BY <3>1, <3>2, <3>3, <3>4, <3>5 DEF ReportIsTrue, HasTmp, HasPrev
  <2> QED BY <2>1, <2>2, <2>3, <2>4
<1>13. CASE DropMarker
  <2>1. UndoneInv'
    BY <1>13 DEF DropMarker
  <2>2. CreatedInv'
    BY <1>13 DEF DropMarker, IInv, SwappingInv, AllNew
  <2>3. PlannedInv'
    BY <1>13 DEF DropMarker
  <2>4. (reply # "none" => pc = "idle")' /\ ReportIsTrue'
    BY <1>13 DEF DropMarker, ReportIsTrue
  <2> QED BY <2>1, <2>2, <2>3, <2>4
<1>14. CASE DropPrev
  <2>1. UndoneInv'
    BY <1>14 DEF DropPrev
  <2>2. CreatedInv'
    BY <1>14 DEF DropPrev, AllNew
  <2>3. PlannedInv'
    BY <1>14 DEF DropPrev
  <2>4. (reply # "none" => pc = "idle")' /\ ReportIsTrue'
    BY <1>14 DEF DropPrev, IInv, MarkerShape, SwappingInv, PuttingBackInv, ReportIsTrue,
                 AllNew, AllOld, HasTmp, HasPrev, Leftovers
  <2> QED BY <2>1, <2>2, <2>3, <2>4
<1>15. CASE StartRollback
  <2>1. UndoneInv'
    BY <1>15 DEF StartRollback, StartRecover, RollbackPlan, Listed, HasTmp, HasPrev, disk
  <2>2. CreatedInv'
    BY <1>15 DEF StartRollback, StartRecover, RollbackPlan, Listed, HasTmp, HasPrev, disk,
                 AllNew
  <2>3. PlannedInv'
    BY <1>15 DEF StartRollback, StartRecover, RollbackPlan, Listed, HasTmp, HasPrev, disk
  <2>4. (reply # "none" => pc = "idle")' /\ ReportIsTrue'
    BY <1>15 DEF StartRollback, StartRecover, RollbackPlan, Listed, HasTmp, HasPrev, disk,
                 ReportIsTrue
  <2> QED BY <2>1, <2>2, <2>3, <2>4
<1>16. CASE StartFinish
  <2>1. UndoneInv'
    BY <1>16 DEF StartFinish, StartRecover, FinishPlan, ChmodSteps, Listed, HasTmp,
                 HasPrev, disk, Finishable
  <2>2. CreatedInv'
    BY <1>16 DEF StartFinish, StartRecover, FinishPlan, ChmodSteps, Listed, HasTmp,
                 HasPrev, disk, Finishable
  <2>3. PlannedInv'
    BY <1>16 DEF StartFinish, StartRecover, FinishPlan, ChmodSteps, Listed, HasTmp,
                 HasPrev, disk, Finishable
  <2>4. (reply # "none" => pc = "idle")' /\ ReportIsTrue'
    BY <1>16 DEF StartFinish, StartRecover, FinishPlan, ChmodSteps, Listed, HasTmp,
                 HasPrev, disk, Finishable, ReportIsTrue
  <2> QED BY <2>1, <2>2, <2>3, <2>4
<1>17. CASE InstallCopy
  <2>1. UndoneInv'
    BY <1>17 DEF InstallCopy
  <2>2. CreatedInv'
    <3>1. UNCHANGED <<name, run, tried, marker, dirs, baseDirs, created>>
      BY <1>17 DEF InstallCopy
    <3>2. pc = "recover" /\ pc' = "install"
      BY <1>17 DEF InstallCopy, At
    <3> QED
      BY <3>1, <3>2 DEF AllNew
  <2>3. PlannedInv'
    <3>1. plan' = plan /\ marker' = marker /\ dirs' = dirs /\ tmp' = tmp /\ prev' = prev
      BY <1>17 DEF InstallCopy
    <3>2. pc' = "install" /\ pc = "recover"
      BY <1>17 DEF InstallCopy, At
    <3>3. plan'.action # "rollback"
      BY <3>2 DEF IInv, RollbackInv
    <3> QED
      BY <3>1, <3>2, <3>3
  <2>4. (reply # "none" => pc = "idle")' /\ ReportIsTrue'
    BY <1>17 DEF InstallCopy, At, ReportIsTrue
  <2> QED BY <2>1, <2>2, <2>3, <2>4
<1>18. CASE InstallRename
  <2>1. UndoneInv'
    BY <1>18 DEF InstallRename
  <2>2. CreatedInv'
    <3>1. marker' = marker /\ dirs' = dirs /\ baseDirs' = baseDirs /\ created' = {}
      BY <1>18 DEF InstallRename
    <3>2. pc = "install" /\ pc' \in {"installed", "idle"}
      BY <1>18 DEF InstallRename
    <3>3. marker.phase # "none"
      BY <1>18 DEF InstallRename, IInv, FinishInv
    <3> QED
      BY <3>1, <3>2, <3>3
  <2>3. PlannedInv'
    BY <1>18 DEF InstallRename
  <2>4. (reply # "none" => pc = "idle")' /\ ReportIsTrue'
    BY <1>18 DEF InstallRename, ReportIsTrue
  <2> QED BY <2>1, <2>2, <2>3, <2>4
<1>19. CASE InstallDropTmp
  <2>1. UndoneInv'
    BY <1>19 DEF InstallDropTmp
  <2>2. CreatedInv'
    BY <1>19 DEF InstallDropTmp, AllNew
  <2>3. PlannedInv'
    BY <1>19 DEF InstallDropTmp
  <2>4. (reply # "none" => pc = "idle")' /\ ReportIsTrue'
    BY <1>19 DEF InstallDropTmp, ReportIsTrue
  <2> QED BY <2>1, <2>2, <2>3, <2>4
<1>20. CASE RecoverDropTmp
  <2>1. UndoneInv'
    BY <1>20 DEF RecoverDropTmp, At
  <2>2. CreatedInv'
    BY <1>20 DEF RecoverDropTmp, At, AllNew
  <2>3. PlannedInv'
    BY <1>20 DEF RecoverDropTmp, At, IInv, TypeOK, DiskTypeOK, PlanTypeOK
  <2>4. (reply # "none" => pc = "idle")' /\ ReportIsTrue'
    BY <1>20 DEF RecoverDropTmp, At, ReportIsTrue
  <2> QED BY <2>1, <2>2, <2>3, <2>4
<1>21. CASE RecoverPutBack
  <2>1. UndoneInv'
    BY <1>21 DEF RecoverPutBack, At
  <2>2. CreatedInv'
    <3>1. marker' = marker /\ dirs' = dirs /\ baseDirs' = baseDirs /\ created' = created
      BY <1>21 DEF RecoverPutBack, At
    <3>2. pc = "recover" /\ pc' = "recover"
      BY <1>21 DEF RecoverPutBack, At
    <3>3. marker.phase # "none"
      BY <1>21 DEF RecoverPutBack, At, IInv, FinishInv
    <3> QED
      BY <3>1, <3>2, <3>3
  <2>3. PlannedInv'
    BY <1>21 DEF RecoverPutBack, At, IInv, TypeOK, DiskTypeOK, PlanTypeOK
  <2>4. (reply # "none" => pc = "idle")' /\ ReportIsTrue'
    BY <1>21 DEF RecoverPutBack, At, ReportIsTrue
  <2> QED BY <2>1, <2>2, <2>3, <2>4
<1>22. CASE RecoverDropPrev
  <2>1. UndoneInv'
    BY <1>22 DEF RecoverDropPrev, At
  <2>2. CreatedInv'
    BY <1>22 DEF RecoverDropPrev, At, AllNew
  <2>3. PlannedInv'
    BY <1>22 DEF RecoverDropPrev, At, IInv, TypeOK, DiskTypeOK, PlanTypeOK
  <2>4. (reply # "none" => pc = "idle")' /\ ReportIsTrue'
    BY <1>22 DEF RecoverDropPrev, At, ReportIsTrue
  <2> QED BY <2>1, <2>2, <2>3, <2>4
<1>23. CASE RecoverRmdir
  <2>1. UndoneInv'
    BY <1>23 DEF RecoverRmdir
  <2>2. CreatedInv'
    <3>1. /\ marker' = marker /\ name' = name /\ UNCHANGED <<run, tried, baseDirs>>
          /\ pc = "recover" /\ pc' \in {"recover", "idle"} /\ created' = {}
      BY <1>23 DEF RecoverRmdir
    <3>2. \/ dirs' = dirs
          \/ \E d \in plan.rmdirs : dirs' = dirs \ {d}
      BY <1>23 DEF RecoverRmdir
    <3>3. plan.rmdirs \subseteq marker.created
      BY <3>1 DEF IInv, FinishInv
    <3> QED
      BY <3>1, <3>2, <3>3 DEF AllNew
  <2>3. PlannedInv'
    BY <1>23 DEF RecoverRmdir, IInv, TypeOK, PlanTypeOK
  <2>4. (reply # "none" => pc = "idle")' /\ ReportIsTrue'
    BY <1>23 DEF RecoverRmdir, ReportIsTrue
  <2> QED BY <2>1, <2>2, <2>3, <2>4
<1>24. CASE RecoverUnmark
  <2>1. UndoneInv'
    BY <1>24 DEF RecoverUnmark, FilesAndDirsDone, work
  <2>2. CreatedInv'
    <3>1. /\ marker' = NoMarker /\ UNCHANGED <<name, run, dirs, baseDirs, created, plan>>
          /\ pc = "recover" /\ pc' = "recover"
      BY <1>24 DEF RecoverUnmark, FilesAndDirsDone, work
    <3>2. plan.rmdirs = {} /\ FileSteps = {} /\ marker.phase # "none"
      BY <1>24 DEF RecoverUnmark, FilesAndDirsDone, IInv, MarkerShape
    <3>3. CASE plan.action = "rollback"
      BY <3>1, <3>2, <3>3
    <3>4. CASE plan.action = "finish"
      <4>1. "finish" \in tried'
        BY <3>1, <3>4 DEF RecoverUnmark, IInv, Memory
      <4> QED
        BY <3>1, <4>1
    <3> QED
      BY <3>1, <3>3, <3>4 DEF IInv, FinishInv
  <2>3. PlannedInv'
    BY <1>24 DEF RecoverUnmark, FilesAndDirsDone, work
  <2>4. (reply # "none" => pc = "idle")' /\ ReportIsTrue'
    BY <1>24 DEF RecoverUnmark, FilesAndDirsDone, work, ReportIsTrue
  <2> QED BY <2>1, <2>2, <2>3, <2>4
<1>25. CASE RecoverDropJunk
  <2>1. UndoneInv'
    BY <1>25 DEF RecoverDropJunk, FilesAndDirsDone
  <2>2. CreatedInv'
    BY <1>25 DEF RecoverDropJunk, FilesAndDirsDone, AllNew
  <2>3. PlannedInv'
    BY <1>25 DEF RecoverDropJunk, FilesAndDirsDone
  <2>4. (reply # "none" => pc = "idle")' /\ ReportIsTrue'
    BY <1>25 DEF RecoverDropJunk, FilesAndDirsDone, ReportIsTrue
  <2> QED BY <2>1, <2>2, <2>3, <2>4
<1>26. CASE RecoverReturn
  <2>1. UndoneInv'
    BY <1>26 DEF RecoverReturn, FilesAndDirsDone, disk
  <2>2. CreatedInv'
    BY <1>26 DEF RecoverReturn, FilesAndDirsDone, disk, AllNew
  <2>3. PlannedInv'
    BY <1>26 DEF RecoverReturn, FilesAndDirsDone, disk
  <2>4. (reply # "none" => pc = "idle")' /\ ReportIsTrue'
    <3>1. /\ pc' = "idle"
          /\ UNCHANGED <<name, tmp, prev, dirs, marker, junk, run, tried, base, baseDirs>>
          /\ marker.phase = "none" /\ plan.junk = {} /\ FileSteps = {} /\ pc = "recover"
          /\ reply' \in {"rolled_back", "finished", "recover_failed"}
      BY <1>26 DEF RecoverReturn, FilesAndDirsDone, disk
    <3>2. reply' = "finished" => AllNew
      BY <1>26 DEF RecoverReturn, AllNew
    <3>3. reply' = "rolled_back" => plan.action = "rollback"
      BY <1>26 DEF RecoverReturn
    <3>4. plan.action = "rollback" => ~Leftovers
      BY <3>1 DEF Leftovers
    <3>5. "finish" \in tried \/ AllNew \/ (AllOld /\ dirs = baseDirs)
      <4>1. "finish" \in tried \/ AllNew \/ AllOld
        BY <3>1 DEF IInv, SettledInv
      <4>2. "finish" \in tried \/ AllNew \/ dirs = baseDirs
        BY <3>1 DEF IInv, MarkerShape
      <4> QED
        BY <4>1, <4>2
    <3> QED
      BY <3>1, <3>2, <3>3, <3>4, <3>5
      DEF ReportIsTrue, AllNew, AllOld, Leftovers, HasTmp, HasPrev
  <2> QED BY <2>1, <2>2, <2>3, <2>4
<1>27. CASE RecoverFails
  <2>1. UndoneInv'
    BY <1>27 DEF RecoverFails, disk
  <2>2. CreatedInv'
    BY <1>27 DEF RecoverFails, disk, AllNew
  <2>3. PlannedInv'
    BY <1>27 DEF RecoverFails, disk
  <2>4. (reply # "none" => pc = "idle")' /\ ReportIsTrue'
    BY <1>27 DEF RecoverFails, disk, ReportIsTrue
  <2> QED BY <2>1, <2>2, <2>3, <2>4
<1>28. CASE Crash
  <2>1. UndoneInv'
    BY <1>28 DEF Crash, disk
  <2>2. CreatedInv'
    BY <1>28 DEF Crash, disk, AllNew
  <2>3. PlannedInv'
    BY <1>28 DEF Crash, disk
  <2>4. (reply # "none" => pc = "idle")' /\ ReportIsTrue'
    BY <1>28 DEF Crash, disk, ReportIsTrue
  <2> QED BY <2>1, <2>2, <2>3, <2>4
<1>29. CASE UNCHANGED vars
  BY <1>29 DEF vars, disk, work, ReportIsTrue, AllNew, AllOld, HasTmp, HasPrev, Leftovers
<1>30. CASE RecoverChmod
  <2>1. UndoneInv'
    BY <1>30 DEF RecoverChmod, disk
  <2>2. CreatedInv'
    BY <1>30 DEF RecoverChmod, disk, AllNew
  <2>3. PlannedInv'
    <3>1. /\ UNCHANGED <<tmp, prev, dirs, marker, junk>> /\ pc = "recover"
          /\ \/ pc' = "idle"
             \/ \E d \in Dirs : pc' = "recover" /\ plan' = [plan EXCEPT !.chmod = @ \ {d}]
      BY <1>30 DEF RecoverChmod, disk
    <3>2. CASE pc' = "idle"
      BY <3>2
    <3>3. CASE pc' # "idle"
      <4>1. /\ plan'.action = plan.action /\ plan'.dropTmp = plan.dropTmp
            /\ plan'.putBack = plan.putBack /\ plan'.dropPrev = plan.dropPrev
            /\ plan'.rmdirs = plan.rmdirs /\ plan'.junk = plan.junk
        BY <3>1, <3>3 DEF IInv, TypeOK, PlanTypeOK
      <4> QED BY <3>1, <3>3, <4>1
    <3> QED BY <3>2, <3>3
  <2>4. (reply # "none" => pc = "idle")' /\ ReportIsTrue'
    BY <1>30 DEF RecoverChmod, disk, ReportIsTrue
  <2> QED BY <2>1, <2>2, <2>3, <2>4
<1> QED
  BY <1>1, <1>2, <1>3, <1>4, <1>5, <1>6, <1>7, <1>8, <1>9, <1>10, <1>11, <1>12, <1>13,
     <1>14, <1>15, <1>16, <1>17, <1>18, <1>19, <1>20, <1>21, <1>22, <1>23, <1>24, <1>25,
     <1>26, <1>27, <1>28, <1>29, <1>30
  DEF Next, Materialize, Undo, Finish, ApplyPlan

LEMMA ReplyInvariant == Spec => [](IInv /\ ReplyInv)
<1>1. Init => ReplyInv
  BY DEF Init, ReplyInv, UndoneInv, CreatedInv, PlannedInv, RestorePcs, UndoPcs, RecoverPcs,
         ReportIsTrue, NoMarker
<1>2. QED
  BY <1>1, ReplyStep, RestoreInvariant, PTL DEF Spec

(* What a restore or a recovery reports is so, whatever markers are not durable and    *)
(* whatever the operator tries: a restore that is reported is in place; one that is    *)
(* reported failed changed no file and no directory, and left at most the .next of a   *)
(* marker it could neither write nor discard (write_marker, which only logs it, and    *)
(* the next restore is refused until it is settled); a reported finish was verified;   *)
(* and a rollback that no finish came before leaves the originals and nothing else (or *)
(* a whole restore).                                                                   *)
THEOREM ReportsAreTrue == Spec => []ReportIsTrue
<1>1. ReplyInv => ReportIsTrue
  BY DEF ReplyInv
<1> QED
  BY <1>1, ReplyInvariant, PTL

(* With an operator who keeps to one action and a durable swapping marker that is so   *)
(* of every rollback.                                                                  *)
THEOREM RepliesOfRestoreAreTrue == ASSUME Steady PROVE Spec => []ReplyIsTrue
<1>1. IInv /\ ReplyInv => ReplyIsTrue
  BY DEF IInv, SteadyInv, ReplyInv, ReportIsTrue, ReplyIsTrue, Leftovers
<1> QED
  BY <1>1, ReplyInvariant, PTL

-----------------------------------------------------------------------------
(* Every call ends *)

LEMMA AheadIs ==
    \A p, ph :
        /\ p = "dirs" => AheadAt(p, ph) = 12
        /\ p = "stage" => AheadAt(p, ph) = 11
        /\ p = "aside" => AheadAt(p, ph) = 10
        /\ p = "swap" => AheadAt(p, ph) = 8
        /\ p = "put_back" => AheadAt(p, ph) = 6
        /\ p \in {"undo_tmp", "undo_prev"} => AheadAt(p, ph) = 5
        /\ p = "undo_dirs" => AheadAt(p, ph) = 4
        /\ p = "undo_mark" => AheadAt(p, ph) = 3
        /\ p = "finish" => AheadAt(p, ph) = 2
        /\ p = "drop" => AheadAt(p, ph) = 1
        /\ p \in RecoverPcs => AheadAt(p, ph) = 1
        /\ p \in {"mark", "land"} /\ ph = "staging" => AheadAt(p, ph) = 12
        /\ p \in {"mark", "land"} /\ ph = "swapping" => AheadAt(p, ph) = 9
        /\ p \in {"mark", "land"} /\ ph = "rolling_back" => AheadAt(p, ph) = 7
<1> SUFFICES ASSUME NEW p, NEW ph
             PROVE  /\ p = "dirs" => AheadAt(p, ph) = 12
                    /\ p = "stage" => AheadAt(p, ph) = 11
                    /\ p = "aside" => AheadAt(p, ph) = 10
                    /\ p = "swap" => AheadAt(p, ph) = 8
                    /\ p = "put_back" => AheadAt(p, ph) = 6
                    /\ p \in {"undo_tmp", "undo_prev"} => AheadAt(p, ph) = 5
                    /\ p = "undo_dirs" => AheadAt(p, ph) = 4
                    /\ p = "undo_mark" => AheadAt(p, ph) = 3
                    /\ p = "finish" => AheadAt(p, ph) = 2
                    /\ p = "drop" => AheadAt(p, ph) = 1
                    /\ p \in RecoverPcs => AheadAt(p, ph) = 1
                    /\ p \in {"mark", "land"} /\ ph = "staging" => AheadAt(p, ph) = 12
                    /\ p \in {"mark", "land"} /\ ph = "swapping" => AheadAt(p, ph) = 9
                    /\ p \in {"mark", "land"} /\ ph = "rolling_back" => AheadAt(p, ph) = 7
  OBVIOUS
<1> QED BY DEF AheadAt, RecoverPcs

\* One thing less to visit.
LEMMA VisitIsCloser ==
    ASSUME NEW x \in todo, todo' = todo \ {x}, Ahead \notin {11, 12}, Ahead' = Ahead,
           pc \notin RecoverPcs, pc' \notin RecoverPcs
    PROVE  Closer
BY DEF Closer, ToDo

\* One planned step less.
LEMMA AppliedIsCloser ==
    ASSUME PlanTypeOK,
           NEW field \in {"install", "dropTmp", "putBack", "dropPrev", "chmod", "rmdirs", "junk"},
           NEW x \in plan[field], Applied(field, x), pc \in RecoverPcs, UNCHANGED marker
    PROVE  Closer
<1>1. Ahead = 1 /\ Ahead' = 1 /\ pc \in RecoverPcs /\ pc' \in RecoverPcs
  BY AheadIs DEF Ahead, Applied, RecoverPcs
<1>2. ToDo = PlanWork /\ ToDo' = PlanWork'
  BY <1>1 DEF ToDo
<1>3. plan' = [plan EXCEPT ![field] = @ \ {x}]
  BY DEF Applied
<1>4. /\ plan'.install \subseteq plan.install /\ plan'.dropTmp \subseteq plan.dropTmp
      /\ plan'.putBack \subseteq plan.putBack /\ plan'.dropPrev \subseteq plan.dropPrev
      /\ plan'.chmod \subseteq plan.chmod /\ plan'.rmdirs \subseteq plan.rmdirs
      /\ plan'.junk \subseteq plan.junk
      /\ x \notin plan'[field]
  BY <1>3 DEF PlanTypeOK
<1>5. PlanWork' \subseteq PlanWork
  <2>1. \A S, T, c : S \subseteq T => (S \X {c}) \subseteq (T \X {c})
    OBVIOUS
  <2>2. /\ (plan'.install \X {"install"}) \subseteq (plan.install \X {"install"})
        /\ (plan'.dropTmp \X {"drop copy"}) \subseteq (plan.dropTmp \X {"drop copy"})
        /\ (plan'.putBack \X {"put back"}) \subseteq (plan.putBack \X {"put back"})
        /\ (plan'.dropPrev \X {"drop original"}) \subseteq (plan.dropPrev \X {"drop original"})
        /\ (plan'.chmod \X {"chmod"}) \subseteq (plan.chmod \X {"chmod"})
        /\ (plan'.rmdirs \X {"remove"}) \subseteq (plan.rmdirs \X {"remove"})
        /\ (plan'.junk \X {"junk"}) \subseteq (plan.junk \X {"junk"})
    BY <1>4, <2>1
  <2>3. (IF marker = NoMarker THEN {} ELSE {<<0, "unmark">>})'
          \subseteq IF marker = NoMarker THEN {} ELSE {<<0, "unmark">>}
    OBVIOUS
  <2>4. /\ (plan.install \X {"install"}) \subseteq PlanWork
        /\ (plan.dropTmp \X {"drop copy"}) \subseteq PlanWork
        /\ (plan.putBack \X {"put back"}) \subseteq PlanWork
        /\ (plan.dropPrev \X {"drop original"}) \subseteq PlanWork
        /\ (plan.chmod \X {"chmod"}) \subseteq PlanWork
        /\ (plan.rmdirs \X {"remove"}) \subseteq PlanWork
        /\ (plan.junk \X {"junk"}) \subseteq PlanWork
        /\ (IF marker = NoMarker THEN {} ELSE {<<0, "unmark">>}) \subseteq PlanWork
    BY Zenon DEF PlanWork
  <2> SUFFICES ASSUME NEW y \in PlanWork' PROVE y \in PlanWork
    OBVIOUS
  <2>5. \/ y \in (plan'.install \X {"install"})
        \/ y \in (plan'.dropTmp \X {"drop copy"})
        \/ y \in (plan'.putBack \X {"put back"})
        \/ y \in (plan'.dropPrev \X {"drop original"})
        \/ y \in (plan'.chmod \X {"chmod"})
        \/ y \in (plan'.rmdirs \X {"remove"})
        \/ y \in (plan'.junk \X {"junk"})
        \/ y \in (IF marker = NoMarker THEN {} ELSE {<<0, "unmark">>})'
    BY Zenon DEF PlanWork
  <2> QED BY <2>2, <2>3, <2>4, <2>5, Zenon
<1>6. \E y : y \in PlanWork /\ y \notin PlanWork'
  <2>1. CASE field = "install"
    <3>1. <<x, "install">> \in PlanWork /\ <<x, "install">> \notin PlanWork'
      BY <1>4, <2>1 DEF PlanWork
    <3> QED BY <3>1
  <2>2. CASE field = "dropTmp"
    <3>1. <<x, "drop copy">> \in PlanWork /\ <<x, "drop copy">> \notin PlanWork'
      BY <1>4, <2>2 DEF PlanWork
    <3> QED BY <3>1
  <2>3. CASE field = "putBack"
    <3>1. <<x, "put back">> \in PlanWork /\ <<x, "put back">> \notin PlanWork'
      BY <1>4, <2>3 DEF PlanWork
    <3> QED BY <3>1
  <2>4. CASE field = "dropPrev"
    <3>1. <<x, "drop original">> \in PlanWork /\ <<x, "drop original">> \notin PlanWork'
      BY <1>4, <2>4 DEF PlanWork
    <3> QED BY <3>1
  <2>5. CASE field = "rmdirs"
    <3>1. <<x, "remove">> \in PlanWork /\ <<x, "remove">> \notin PlanWork'
      BY <1>4, <2>5 DEF PlanWork
    <3> QED BY <3>1
  <2>6. CASE field = "junk"
    <3>1. <<x, "junk">> \in PlanWork /\ <<x, "junk">> \notin PlanWork'
      BY <1>4, <2>6 DEF PlanWork
    <3> QED BY <3>1
  <2>7. CASE field = "chmod"
    <3>1. <<x, "chmod">> \in PlanWork /\ <<x, "chmod">> \notin PlanWork'
      BY <1>4, <2>7 DEF PlanWork
    <3> QED BY <3>1
  <2> QED BY <2>1, <2>2, <2>3, <2>4, <2>5, <2>6, <2>7
<1> QED BY <1>1, <1>2, <1>5, <1>6 DEF Closer

LEMMA MaterializeIsCloser ==
    ASSUME TypeOK, Memory, Materialize, pc' # "idle"
    PROVE  Closer
<1> USE DEF Goto, GotoUndo, Return, Ahead, RecoverPcs
<1>1. CASE CreateNext
  <2>1. CASE pc' = "land"
    <3>1. pc = "mark" /\ UNCHANGED <<phase, todo, created, dirs>>
      BY <1>1, <2>1 DEF CreateNext, MarkFailed
    <3>2. phase \in Phases
      BY DEF TypeOK, WorkTypeOK
    <3>3. Ahead' = Ahead /\ Ahead # 11
      BY <2>1, <3>1, <3>2, AheadIs DEF Phases
    <3>4. ToDo' = ToDo
      <4> HIDE DEF Ahead
      <4> QED BY <2>1, <3>1, <3>3 DEF ToDo, DirWork
    <3>5. Within' < Within
      BY <2>1, <3>1 DEF Within
    <3> QED BY <3>3, <3>4, <3>5 DEF Closer
  <2>2. CASE pc' # "land"
    <3>1. pc = "mark" /\ pc' = "undo_tmp" /\ phase \in {"staging", "swapping"}
      BY <1>1, <2>2 DEF CreateNext, MarkFailed, TypeOK, WorkTypeOK, Phases
    <3> QED BY <3>1, AheadIs DEF Closer
  <2> QED BY <2>1, <2>2
<1>2. CASE RenameNext
  <2>1. CASE pc' = "undo_tmp"
    <3>1. pc = "land" /\ phase \in {"staging", "swapping"}
      BY <1>2, <2>1 DEF RenameNext, MarkFailed, AfterMark, TypeOK, WorkTypeOK, Phases
    <3> QED BY <2>1, <3>1, AheadIs DEF Closer
  <2>2. CASE pc' # "undo_tmp"
    <3>1. pc = "land" /\ pc' = AfterMark /\ UNCHANGED <<phase, created, dirs>>
      BY <1>2, <2>2 DEF RenameNext, MarkFailed
    <3>2. CASE phase = "staging"
      <4>1. pc' = "dirs" /\ Ahead = 12 /\ Ahead' = 12
        BY <3>1, <3>2, AheadIs DEF AfterMark
      <4>2. ToDo' = ToDo
        <5> HIDE DEF Ahead
        <5> QED BY <3>1, <4>1 DEF ToDo, DirWork
      <4>3. Within' < Within
        BY <3>1, <4>1 DEF Within
      <4> QED BY <4>1, <4>2, <4>3 DEF Closer
    <3>3. CASE phase = "swapping"
      <4>1. pc' = "swap"
        BY <3>1, <3>3 DEF AfterMark
      <4> QED BY <3>1, <3>3, <4>1, AheadIs DEF Closer
    <3>4. CASE phase = "rolling_back"
      <4>1. pc' = "put_back"
        BY <3>1, <3>4 DEF AfterMark
      <4> QED BY <3>1, <3>4, <4>1, AheadIs DEF Closer
    <3> QED BY <3>2, <3>3, <3>4 DEF TypeOK, WorkTypeOK, Phases
  <2> QED BY <2>1, <2>2
<1>3. CASE MakeDirs
  <2>1. pc = "dirs" /\ Ahead = 12 /\ phase = "staging"
    BY <1>3, AheadIs DEF MakeDirs, Memory
  <2>2. CASE pc' \in {"stage", "undo_tmp"}
    BY <2>1, <2>2, AheadIs DEF Closer
  <2>3. CASE pc' = "mark"
    <3>1. PICK d \in Dirs \ dirs : d \notin created /\ created' = created \cup {d}
      BY <1>3, <2>3 DEF MakeDirs
    <3>2. UNCHANGED <<phase, dirs>>
      BY <1>3, <2>3 DEF MakeDirs
    <3>3. Ahead' = 12
      BY <2>1, <2>3, <3>2, AheadIs
    <3>4. ToDo' \subseteq ToDo /\ ToDo' # ToDo
      <4> HIDE DEF Ahead
      <4>1. <<d, "record">> \in DirWork /\ <<d, "record">> \notin DirWork'
        BY <3>1 DEF DirWork
      <4>2. DirWork' \subseteq DirWork
        BY <3>1, <3>2 DEF DirWork
      <4> QED BY <2>1, <3>3, <4>1, <4>2 DEF ToDo
    <3> QED BY <2>1, <3>3, <3>4 DEF Closer
  <2>4. CASE pc' = "dirs"
    <3>1. PICK d \in Dirs \ dirs : dirs' = dirs \cup {d}
      BY <1>3, <2>4 DEF MakeDirs
    <3>2. UNCHANGED <<phase, created>>
      BY <1>3, <2>4 DEF MakeDirs
    <3>3. Ahead' = 12
      BY <2>4, AheadIs
    <3>4. ToDo' \subseteq ToDo /\ ToDo' # ToDo
      <4> HIDE DEF Ahead
      <4>1. <<d, "make">> \in DirWork /\ <<d, "make">> \notin DirWork'
        BY <3>1 DEF DirWork
      <4>2. DirWork' \subseteq DirWork
        BY <3>1, <3>2 DEF DirWork
      <4> QED BY <2>1, <3>3, <4>1, <4>2 DEF ToDo
    <3> QED BY <2>1, <3>3, <3>4 DEF Closer
  <2> QED BY <1>3, <2>2, <2>3, <2>4 DEF MakeDirs
<1>4. CASE Stage
  <2>1. pc = "stage" /\ Ahead = 11
    BY <1>4, AheadIs DEF Stage
  <2>2. CASE pc' \in {"aside", "undo_tmp"}
    BY <2>1, <2>2, AheadIs DEF Closer
  <2>3. CASE pc' = "stage"
    <3>1. Ahead' = 11
      BY <2>3, AheadIs
    <3>2. PICK f \in Files :
            \/ tmp[f] = "none" /\ tmp' = [tmp EXCEPT ![f] = "partial"] /\ todo' = todo
            \/ f \in todo /\ tmp[f] = "partial" /\ tmp' = [tmp EXCEPT ![f] = "full"] /\ todo' = todo \ {f}
      BY <1>4, <2>3 DEF Stage, First
    <3>3. tmp \in [Files -> {"none", "partial", "full"}]
      BY DEF TypeOK, DiskTypeOK
    <3>4. ToDo' \subseteq ToDo /\ ToDo' # ToDo
      <4> HIDE DEF Ahead
      <4>1. StageWork' \subseteq StageWork
        BY <3>2, <3>3 DEF StageWork
      <4>2. \E x \in StageWork : x \notin StageWork'
        <5>1. CASE tmp[f] = "none" /\ tmp' = [tmp EXCEPT ![f] = "partial"] /\ todo' = todo
          <6>1. <<f, "create">> \in StageWork /\ <<f, "create">> \notin StageWork'
            BY <3>3, <5>1 DEF StageWork
          <6> QED BY <6>1
        <5>2. CASE f \in todo /\ todo' = todo \ {f}
          <6>1. <<f, "fill">> \in StageWork /\ <<f, "fill">> \notin StageWork'
            BY <5>2 DEF StageWork
          <6> QED BY <6>1
        <5> QED BY <3>2, <5>1, <5>2
      <4> QED BY <2>1, <3>1, <4>1, <4>2 DEF ToDo
    <3> QED BY <2>1, <3>1, <3>4 DEF Closer
  <2> QED BY <1>4, <2>2, <2>3 DEF Stage
<1>5. CASE SetAside
  <2>1. pc = "aside" /\ Ahead = 10
    BY <1>5, AheadIs DEF SetAside
  <2>2. CASE pc' = "undo_tmp" \/ (pc' = "mark" /\ phase' = "swapping")
    BY <2>1, <2>2, AheadIs DEF Closer
  <2>3. CASE pc' = "aside"
    <3>1. PICK f \in todo : todo' = todo \ {f}
      BY <1>5, <2>3 DEF SetAside, First
    <3>2. Ahead' = 10
      BY <2>3, AheadIs
    <3> QED BY <2>1, <2>3, <3>1, <3>2, VisitIsCloser
  <2> QED BY <1>5, <2>2, <2>3 DEF SetAside
<1>6. CASE Swap
  <2>1. pc = "swap" /\ Ahead = 8
    BY <1>6, AheadIs DEF Swap
  <2>2. CASE pc' = "finish" \/ (pc' = "mark" /\ phase' = "rolling_back")
    BY <2>1, <2>2, AheadIs DEF Closer
  <2>3. CASE pc' = "swap"
    <3>1. PICK f \in todo : todo' = todo \ {f}
      BY <1>6, <2>3 DEF Swap, First, AfterFailedSwap
    <3>2. Ahead' = 8
      BY <2>3, AheadIs
    <3> QED BY <2>1, <2>3, <3>1, <3>2, VisitIsCloser
  <2> QED BY <1>6, <2>2, <2>3 DEF Swap, AfterFailedSwap
<1>7. CASE PutBack
  <2>1. pc = "put_back" /\ Ahead = 6
    BY <1>7, AheadIs DEF PutBack
  <2>2. CASE pc' = "undo_tmp"
    BY <2>1, <2>2, AheadIs DEF Closer
  <2>3. CASE pc' = "put_back"
    <3>1. PICK f \in todo : todo' = todo \ {f}
      BY <1>7, <2>3 DEF PutBack, Last
    <3>2. Ahead' = 6
      BY <2>3, AheadIs
    <3> QED BY <2>1, <2>3, <3>1, <3>2, VisitIsCloser
  <2> QED BY <1>7, <2>2, <2>3 DEF PutBack
<1> QED BY <1>1, <1>2, <1>3, <1>4, <1>5, <1>6, <1>7 DEF Materialize

LEMMA UndoIsCloser ==
    ASSUME TypeOK, Undo, pc' # "idle"
    PROVE  Closer
<1> USE DEF Goto, Return, Ahead, RecoverPcs
<1>1. CASE UndoTmp
  <2>1. pc = "undo_tmp" /\ Ahead = 5
    BY <1>1, AheadIs DEF UndoTmp
  <2>2. CASE pc' = "undo_dirs"
    BY <2>1, <2>2, AheadIs DEF Closer
  <2>3. CASE pc' = "undo_prev"
    <3>1. todo' = todo
      BY <1>1, <2>3 DEF UndoTmp
    <3>2. Ahead' = 5
      BY <2>3, AheadIs
    <3>3. ToDo' = ToDo
      <4> HIDE DEF Ahead
      <4> QED BY <2>1, <2>3, <3>1, <3>2 DEF ToDo
    <3>4. Within' < Within
      BY <2>1, <2>3 DEF Within
    <3> QED BY <2>1, <3>2, <3>3, <3>4 DEF Closer
  <2> QED BY <1>1, <2>2, <2>3 DEF UndoTmp
<1>2. CASE UndoPrev
  <2>1. pc = "undo_prev" /\ pc' = "undo_tmp"
    BY <1>2 DEF UndoPrev
  <2>2. PICK f \in todo : todo' = todo \ {f}
    BY <1>2 DEF UndoPrev, First
  <2>3. Ahead = 5 /\ Ahead' = 5
    BY <2>1, AheadIs
  <2> QED BY <2>1, <2>2, <2>3, VisitIsCloser
<1>3. CASE UndoDirs
  <2>1. pc = "undo_dirs" /\ Ahead = 4
    BY <1>3, AheadIs DEF UndoDirs
  <2>2. CASE pc' = "undo_mark"
    BY <2>1, <2>2, AheadIs DEF Closer
  <2>3. CASE pc' = "undo_dirs"
    <3>1. PICK d \in todo : todo' = todo \ {d}
      BY <1>3, <2>3 DEF UndoDirs, Last
    <3>2. Ahead' = 4
      BY <2>3, AheadIs
    <3> QED BY <2>1, <2>3, <3>1, <3>2, VisitIsCloser
  <2> QED BY <1>3, <2>2, <2>3 DEF UndoDirs
<1>4. CASE UndoMark
  BY <1>4 DEF UndoMark
<1> QED BY <1>1, <1>2, <1>3, <1>4 DEF Undo

LEMMA FinishIsCloser ==
    ASSUME TypeOK, Finish, pc' # "idle"
    PROVE  Closer
<1> USE DEF Goto, Return, Ahead, RecoverPcs
<1>1. CASE DropMarker
  <2>1. pc = "finish" /\ pc' = "drop"
    BY <1>1 DEF DropMarker
  <2> QED BY <2>1, AheadIs DEF Closer
<1>2. CASE DropPrev
  <2>1. pc = "drop" /\ pc' = "drop"
    BY <1>2 DEF DropPrev
  <2>2. PICK f \in todo : todo' = todo \ {f}
    BY <1>2 DEF DropPrev, First
  <2>3. Ahead = 1 /\ Ahead' = 1
    BY <2>1, AheadIs
  <2> QED BY <2>1, <2>2, <2>3, VisitIsCloser
<1> QED BY <1>1, <1>2 DEF Finish

\* A step within one planned step.
LEMMA WithinIsCloser ==
    ASSUME pc \in RecoverPcs, pc' \in RecoverPcs, UNCHANGED <<plan, marker>>, Within' < Within
    PROVE  Closer
<1>1. Ahead = 1 /\ Ahead' = 1
  BY AheadIs DEF Ahead
<1>2. ToDo' = ToDo
  BY <1>1 DEF ToDo, PlanWork
<1> QED BY <1>1, <1>2 DEF Closer

LEMMA ApplyIsCloser ==
    ASSUME TypeOK, FinishInv, ApplyPlan, pc' # "idle"
    PROVE  Closer
<1> USE DEF TypeOK
<1>1. CASE InstallCopy
  <2>1. pc = "recover" /\ pc' = "install" /\ UNCHANGED <<plan, marker>>
    BY <1>1 DEF InstallCopy, At
  <2>2. Within' < Within
    BY <2>1 DEF Within
  <2> QED BY <2>1, <2>2, WithinIsCloser DEF RecoverPcs
<1>2. CASE InstallRename
  <2>1. pc = "install" /\ pc' = "installed" /\ UNCHANGED <<plan, marker>>
    BY <1>2 DEF InstallRename, Return
  <2>2. Within' < Within
    BY <2>1 DEF Within
  <2> QED BY <2>1, <2>2, WithinIsCloser DEF RecoverPcs
<1>3. CASE InstallDropTmp
  <2>1. PICK f \in Files : /\ pc = "installed" /\ First(f, FileSteps)
                           /\ Applied("install", f) /\ UNCHANGED marker
    BY <1>3 DEF InstallDropTmp
  <2>2. PICK g \in plan.install : First(g, FileSteps)
    BY <2>1 DEF FinishInv
  <2>3. f = g
    <3>1. FileSteps \in SUBSET Files
      BY DEF PlanTypeOK, FileSteps
    <3>2. g \in Files
      BY DEF PlanTypeOK
    <3> QED BY <2>1, <2>2, <3>1, <3>2, FirstIsUnique DEF First
  <2> QED BY <2>1, <2>2, <2>3, AppliedIsCloser DEF RecoverPcs
<1>4. CASE RecoverDropTmp
  <2>1. PICK f \in plan.dropTmp : pc = "recover" /\ Applied("dropTmp", f) /\ UNCHANGED marker
    BY <1>4 DEF RecoverDropTmp, At
  <2> QED BY <2>1, AppliedIsCloser DEF RecoverPcs
<1>5. CASE RecoverPutBack
  <2>1. PICK f \in plan.putBack : pc = "recover" /\ Applied("putBack", f) /\ UNCHANGED marker
    BY <1>5 DEF RecoverPutBack, At
  <2> QED BY <2>1, AppliedIsCloser DEF RecoverPcs
<1>6. CASE RecoverDropPrev
  <2>1. PICK f \in plan.dropPrev : pc = "recover" /\ Applied("dropPrev", f) /\ UNCHANGED marker
    BY <1>6 DEF RecoverDropPrev, At
  <2> QED BY <2>1, AppliedIsCloser DEF RecoverPcs
<1>7. CASE RecoverRmdir
  <2>1. PICK d \in plan.rmdirs : pc = "recover" /\ Applied("rmdirs", d) /\ UNCHANGED marker
    BY <1>7 DEF RecoverRmdir, Last, Return
  <2> QED BY <2>1, AppliedIsCloser DEF RecoverPcs
<1>8. CASE RecoverUnmark
  <2>1. /\ pc = "recover" /\ marker # NoMarker /\ marker' = NoMarker
        /\ UNCHANGED <<pc, plan, phase>>
    BY <1>8 DEF RecoverUnmark, FilesAndDirsDone, work
  <2>2. Ahead = 1 /\ Ahead' = 1
    BY <2>1, AheadIs DEF Ahead, RecoverPcs
  <2>3. PlanWork' \subseteq PlanWork /\ PlanWork' # PlanWork
    <3>1. PlanWork' \subseteq PlanWork
      BY <2>1 DEF PlanWork
    <3>2. <<0, "unmark">> \in PlanWork /\ <<0, "unmark">> \notin PlanWork'
      BY <2>1 DEF PlanWork
    <3> QED BY <3>1, <3>2
  <2>4. ToDo' = PlanWork' /\ ToDo = PlanWork
    BY <2>1, <2>2 DEF ToDo, RecoverPcs
  <2> QED BY <2>2, <2>3, <2>4 DEF Closer
<1>9. CASE RecoverDropJunk
  <2>1. PICK x \in plan.junk : pc = "recover" /\ Applied("junk", x) /\ UNCHANGED marker
    BY <1>9 DEF RecoverDropJunk, FilesAndDirsDone, First
  <2> QED BY <2>1, AppliedIsCloser DEF RecoverPcs
<1>10. CASE RecoverReturn
  BY <1>10 DEF RecoverReturn, Return
<1>11. CASE RecoverFails
  BY <1>11 DEF RecoverFails, Return
<1>12. CASE RecoverChmod
  <2>1. PICK d \in plan.chmod : pc = "recover" /\ Applied("chmod", d) /\ UNCHANGED marker
    BY <1>12 DEF RecoverChmod, First, Return, disk
  <2> QED BY <2>1, AppliedIsCloser DEF RecoverPcs
<1> QED
  BY <1>1, <1>2, <1>3, <1>4, <1>5, <1>6, <1>7, <1>8, <1>9, <1>10, <1>11, <1>12 DEF ApplyPlan

LEMMA EveryStepIsCloser ==
    IInv /\ [Next]_vars => [pc # "idle" => pc' = "idle" \/ Closer]_vars
<1> SUFFICES ASSUME IInv, Next, pc # "idle", pc' # "idle" PROVE Closer
  OBVIOUS
<1>1. TypeOK /\ Memory /\ FinishInv
  BY DEF IInv
<1>2. Materialize \/ Undo \/ Finish \/ ApplyPlan
  BY DEF Next, Begin, StartRollback, StartFinish, StartRecover, Crash, Return
<1> QED
  BY <1>1, <1>2, MaterializeIsCloser, UndoIsCloser, FinishIsCloser, ApplyIsCloser

LEMMA MeasureIsFounded ==
    TypeOK /\ pc # "idle" => Ahead \in 1..12 /\ IsFiniteSet(ToDo) /\ Within \in 0..2
<1> SUFFICES ASSUME TypeOK, pc # "idle"
             PROVE  Ahead \in 1..12 /\ IsFiniteSet(ToDo) /\ Within \in 0..2
  OBVIOUS
<1>1. Ahead \in 1..12
  <2>1. phase \in {"staging", "swapping", "rolling_back"}
    BY DEF TypeOK, WorkTypeOK, Phases
  <2> QED BY <2>1, AheadIs DEF Ahead, TypeOK, WorkTypeOK, RecoverPcs
<1>2. Within \in 0..2
  BY DEF Within
<1>3. IsFiniteSet(Files) /\ IsFiniteSet(Dirs) /\ IsFiniteSet(0..NFiles)
  BY FS_Interval, SizesAssumption DEF Files, Dirs
<1>4. \A S, c : IsFiniteSet(S) => IsFiniteSet(S \X {c})
  BY FS_Product, FS_Singleton
<1>5. IsFiniteSet(DirWork)
  <2>1. IsFiniteSet(Dirs \ created) /\ IsFiniteSet(Dirs \ dirs)
    BY <1>3, FS_Difference
  <2> QED BY <1>4, <2>1, FS_Union DEF DirWork
<1>6. IsFiniteSet(todo)
  BY <1>3, FS_Union, FS_Subset DEF TypeOK, WorkTypeOK
<1>7. IsFiniteSet(StageWork)
  <2>1. IsFiniteSet({f \in Files : tmp[f] = "none"})
    BY <1>3, FS_Subset
  <2> QED BY <1>4, <1>6, <2>1, FS_Union DEF StageWork
<1>8. IsFiniteSet(PlanWork)
  <2>1. /\ IsFiniteSet(plan.install) /\ IsFiniteSet(plan.dropTmp)
        /\ IsFiniteSet(plan.putBack) /\ IsFiniteSet(plan.dropPrev)
        /\ IsFiniteSet(plan.chmod) /\ IsFiniteSet(plan.rmdirs) /\ IsFiniteSet(plan.junk)
    BY <1>3, FS_Subset DEF TypeOK, PlanTypeOK
  <2>2. IsFiniteSet(IF marker = NoMarker THEN {} ELSE {<<0, "unmark">>})
    BY FS_EmptySet, FS_Singleton
  <2>3. IsFiniteSet((plan.install \X {"install"}) \cup (plan.dropTmp \X {"drop copy"}))
    BY <1>4, <2>1, FS_Union
  <2>4. IsFiniteSet((plan.install \X {"install"}) \cup (plan.dropTmp \X {"drop copy"})
                    \cup (plan.putBack \X {"put back"}) \cup (plan.dropPrev \X {"drop original"}))
    BY <1>4, <2>1, <2>3, FS_Union
  <2>5. IsFiniteSet((plan.install \X {"install"}) \cup (plan.dropTmp \X {"drop copy"})
                    \cup (plan.putBack \X {"put back"}) \cup (plan.dropPrev \X {"drop original"})
                    \cup (plan.chmod \X {"chmod"}) \cup (plan.rmdirs \X {"remove"})
                    \cup (plan.junk \X {"junk"}))
    BY <1>4, <2>1, <2>4, FS_Union
  <2> QED BY <2>2, <2>5, FS_Union DEF PlanWork
<1> QED BY <1>1, <1>2, <1>5, <1>6, <1>7, <1>8 DEF ToDo

(* No restore and no recovery runs for ever, however many files and directories it has *)
(* and whichever of its calls fail: each step of materialize, of Work::undo, of        *)
(* Work::finish and of recover's loops ends the call or brings it closer to its end,   *)
(* by fewer kinds of call ahead, else less to do in this one's loop, else one of the   *)
(* steps of the file at hand.                                                          *)
THEOREM EveryCallEnds == Spec => CallsEnd
BY EveryStepIsCloser, RestoreInvariant, PTL DEF CallsEnd, Spec

(* And it cannot come closer for ever: what is ahead is a number, what is to do is     *)
(* finite.                                                                             *)
THEOREM NothingComesCloserForEver ==
    Spec => [](pc # "idle" => Ahead \in 1..12 /\ IsFiniteSet(ToDo) /\ Within \in 0..2)
BY MeasureIsFounded, TypeCorrect, PTL

-----------------------------------------------------------------------------
(* When a call fails though nothing below it does *)

\* A directory is removed only by an undo, whose marker does not say swapping, and by a
\* rollback.
LEMMA AllDirsStep == IInv /\ ReplyInv /\ AllDirsInv /\ [Next]_vars => AllDirsInv'
<1> SUFFICES ASSUME IInv, ReplyInv, AllDirsInv, [Next]_vars PROVE AllDirsInv'
  OBVIOUS
<1> USE DEF AllDirsInv, Marking, Goto, GotoUndo, Return, Applied, past
<1>1. CASE Begin
  BY <1>1 DEF Begin, disk, Leftovers, IInv, Memory, RestorePcs, UndoPcs
<1>2. CASE CreateNext
  BY <1>2 DEF CreateNext, MarkFailed
<1>3. CASE RenameNext
  BY <1>3 DEF RenameNext, NewMarker, AfterMark, MarkFailed, IInv, TypeOK, WorkTypeOK, Phases
<1>4. CASE MakeDirs
  <2>1. marker.phase # "swapping" /\ phase = "staging" /\ dirs \subseteq Dirs
    BY <1>4 DEF MakeDirs, IInv, PreparingInv, Preparing, Memory, TypeOK, DiskTypeOK
  <2> QED BY <1>4, <2>1 DEF MakeDirs
<1>5. CASE Stage \/ SetAside \/ Swap
  BY <1>5 DEF Stage, SetAside, Swap, AfterFailedSwap
<1>6. CASE PutBack \/ UndoTmp \/ UndoPrev
  BY <1>6 DEF PutBack, UndoTmp, UndoPrev
<1>7. CASE UndoDirs
  <2>1. Durable => marker.phase # "swapping"
    BY <1>7 DEF UndoDirs, IInv, DurableInv, UndoPcs
  <2> QED BY <1>7, <2>1 DEF UndoDirs
<1>8. CASE UndoMark \/ DropMarker \/ DropPrev
  BY <1>8 DEF UndoMark, DropMarker, DropPrev, NoMarker
<1>9. CASE StartRollback \/ StartFinish
  BY <1>9 DEF StartRollback, StartFinish, StartRecover, disk
<1>10. CASE InstallCopy \/ InstallRename \/ InstallDropTmp
  BY <1>10 DEF InstallCopy, InstallRename, InstallDropTmp
<1>11. CASE RecoverDropTmp \/ RecoverPutBack \/ RecoverDropPrev
  BY <1>11 DEF RecoverDropTmp, RecoverPutBack, RecoverDropPrev
<1>12. CASE RecoverChmod
  BY <1>12 DEF RecoverChmod, disk
<1>13. CASE RecoverRmdir
  <2>1. "rollback" \in tried
    <3>1. pc = "recover" /\ plan.rmdirs # {}
      BY <1>13 DEF RecoverRmdir, Last
    <3>2. plan.action = "rollback"
      BY <3>1 DEF IInv, FinishInv, ReplyInv, PlannedInv, RecoverPcs
    <3> QED BY <3>1, <3>2 DEF IInv, Memory, RecoverPcs
  <2> QED BY <1>13, <2>1 DEF RecoverRmdir
<1>14. CASE RecoverUnmark \/ RecoverDropJunk \/ RecoverReturn \/ RecoverFails
  BY <1>14 DEF RecoverUnmark, RecoverDropJunk, RecoverReturn, RecoverFails, FilesAndDirsDone,
               NoMarker, disk, work
<1>15. CASE Crash \/ UNCHANGED vars
  BY <1>15 DEF Crash, vars, disk, work
<1> QED
  BY <1>1, <1>2, <1>3, <1>4, <1>5, <1>6, <1>7, <1>8, <1>9, <1>10, <1>11, <1>12, <1>13,
     <1>14, <1>15
  DEF Next, Materialize, Undo, Finish, ApplyPlan

\* What a file's name, its copies and its directory are, if they do not change.
LEMMA TreeKept ==
    ASSUME TreeInv, UNCHANGED <<dirs, base, baseDirs>>,
           \A f \in Files : name'[f] # Absent \/ tmp'[f] # "none" \/ prev'[f] # Absent \/ f \in junk'
                              => InDir(f, dirs),
           junk' \cap Files # {} => "finish" \in tried'
    PROVE  TreeInv'
BY DEF TreeInv, ParentPresent, InDir

\* A directory that holds nothing can go.
LEMMA TreeWithout ==
    ASSUME TreeInv, NEW d \in Dirs, d \in dirs => Empty(d), dirs' = dirs \ {d},
           UNCHANGED <<name, tmp, prev, junk, base, baseDirs, tried>>
    PROVE  TreeInv'
<1>1. CASE d \notin dirs
  <2>1. dirs' = dirs
    BY <1>1
  <2> QED BY <2>1, TreeKept DEF TreeInv
<1>2. CASE d \in dirs
  <2>1. \A e \in dirs' : ParentPresent(e)'
    BY <1>2 DEF TreeInv, ParentPresent, Empty
  <2>2. \A f \in Files : name'[f] # Absent \/ tmp'[f] # "none" \/ prev'[f] # Absent \/ f \in junk'
                           => InDir(f, dirs')
    BY <1>2 DEF TreeInv, InDir, Empty
  <2> QED BY <2>1, <2>2 DEF TreeInv, InDir, ParentPresent
<1> QED BY <1>1, <1>2

\* One whose parent is there can come.
LEMMA TreeWith ==
    ASSUME TreeInv, TypeOK, NEW d \in Dirs \ dirs, First(d, Dirs \ dirs), dirs' \in {dirs, dirs \cup {d}},
           UNCHANGED <<name, tmp, prev, junk, base, baseDirs, tried>>
    PROVE  TreeInv'
<1>1. ParentPresent(d)
  <2>1. Parent[d] \in 0..NDirs /\ Parent[d] < d /\ d \in 1..NDirs
    BY TreeAssumption DEF Dirs
  <2>2. CASE Parent[d] \in Dirs \ dirs
    <3>1. d <= Parent[d]
      BY <2>2 DEF First
    <3> QED BY <2>1, <3>1, SizesAssumption
  <2> QED BY <2>1, <2>2, SizesAssumption DEF ParentPresent, Dirs
<1>2. \A e \in dirs' : ParentPresent(e)'
  BY <1>1 DEF TreeInv, ParentPresent
<1>3. \A f \in Files : InDir(f, dirs) => InDir(f, dirs')
  BY DEF InDir
<1> QED BY <1>2, <1>3 DEF TreeInv, InDir

LEMMA TreeStep == IInv /\ AllDirsInv /\ TreeInv /\ [Next]_vars => TreeInv'
<1> SUFFICES ASSUME IInv, AllDirsInv, TreeInv, [Next]_vars PROVE TreeInv'
  OBVIOUS
<1>t. TypeOK /\ DiskTypeOK /\ PlanTypeOK /\ WorkTypeOK
  BY DEF IInv, TypeOK
<1>n. NextMarker \notin Files
  BY SizesAssumption DEF NextMarker, Files
<1> DEFINE There(f) == InDir(f, dirs)
<1>k. ASSUME UNCHANGED <<dirs, base, baseDirs, tried>>, junk' \subseteq junk \cup {NextMarker},
             \A f \in Files : name'[f] \in {name[f], prev[f], Absent}
                              /\ tmp'[f] \in {tmp[f], "none"} /\ prev'[f] \in {prev[f], name[f], Absent}
      PROVE  TreeInv'
  BY <1>k, <1>n, TreeKept DEF TreeInv
<1>1. CASE Begin
  <2>1. junk = {} /\ UNCHANGED disk /\ base' = name /\ baseDirs' = dirs /\ pc' = "mark"
    BY <1>1 DEF Begin, Leftovers
  <2> QED BY <2>1 DEF TreeInv, disk, InDir, ParentPresent
<1>2. CASE CreateNext
  BY <1>2, <1>k DEF CreateNext, MarkFailed, Goto, GotoUndo, Return, past
<1>3. CASE RenameNext
  BY <1>3, <1>k DEF RenameNext, MarkFailed, Goto, GotoUndo, Return, past
<1>4. CASE MakeDirs
  <2>1. CASE dirs' = dirs
    BY <1>4, <1>k, <2>1 DEF MakeDirs, Goto, GotoUndo, past
  <2>2. CASE dirs' # dirs
    <3>1. PICK d \in Dirs \ dirs : First(d, Dirs \ dirs) /\ dirs' = dirs \cup {d}
      BY <1>4, <2>2 DEF MakeDirs
    <3>2. UNCHANGED <<name, tmp, prev, junk, base, baseDirs, tried>>
      BY <1>4 DEF MakeDirs, Goto, GotoUndo, past
    <3> QED BY <1>t, <3>1, <3>2, TreeWith
  <2> QED BY <2>1, <2>2
<1>5. CASE Stage
  <2>1. dirs = Dirs
    BY <1>5 DEF Stage, AllDirsInv
  <2>2. \A f \in Files : InDir(f, dirs)
    BY <2>1, TreeAssumption, SizesAssumption DEF InDir, Dirs
  <2>3. UNCHANGED <<junk, dirs, base, baseDirs, tried>>
    BY <1>5 DEF Stage, Goto, GotoUndo, past
  <2> QED BY <2>1, <2>2, <2>3, TreeKept DEF TreeInv
<1>6. CASE SetAside
  BY <1>6, <1>k, <1>t DEF SetAside, Goto, GotoUndo, past, DiskTypeOK
<1>7. CASE Swap
  <2>1. CASE UNCHANGED name /\ UNCHANGED tmp
    BY <1>7, <1>k, <2>1 DEF Swap, AfterFailedSwap, Goto, past
  <2>2. CASE ~(UNCHANGED name /\ UNCHANGED tmp)
    <3>1. PICK f \in Files : /\ First(f, todo) /\ name' = [name EXCEPT ![f] = Staged(f)]
                             /\ tmp' = [tmp EXCEPT ![f] = "none"]
      BY <1>7, <2>2 DEF Swap
    <3>2. tmp[f] = "full"
      <4>1. f \notin displaced
        BY <1>7, <3>1 DEF IInv, SwappingInv, First, Swap
      <4> QED BY <1>7, <4>1 DEF IInv, SwappingInv, Swap
    <3>3. InDir(f, dirs)
      BY <3>2 DEF TreeInv
    <3>4. UNCHANGED <<prev, junk, dirs, base, baseDirs, tried>> /\ pc' = "swap"
      BY <1>7, <2>2 DEF Swap, Goto, past
    <3> QED BY <1>t, <3>1, <3>3, <3>4, TreeKept DEF TreeInv, DiskTypeOK
  <2> QED BY <2>1, <2>2
<1>8. CASE PutBack
  BY <1>8, <1>k, <1>t DEF PutBack, PutBackAs, Goto, GotoUndo, past, DiskTypeOK
<1>9. CASE UndoTmp
  BY <1>9, <1>k, <1>t DEF UndoTmp, Goto, past, DiskTypeOK
<1>10. CASE UndoPrev
  BY <1>10, <1>k, <1>t DEF UndoPrev, Goto, past, DiskTypeOK
<1>11. CASE UndoDirs
  <2>1. CASE dirs' = dirs
    BY <1>11, <1>k, <2>1 DEF UndoDirs, Goto, past
  <2>2. CASE dirs' # dirs
    <3>1. PICK d \in Dirs : (d \in dirs => Empty(d)) /\ dirs' = dirs \ {d}
      BY <1>11, <2>2 DEF UndoDirs
    <3>2. UNCHANGED <<name, tmp, prev, junk, base, baseDirs, tried>>
      BY <1>11 DEF UndoDirs, Goto, past
    <3> QED BY <3>1, <3>2, TreeWithout
  <2> QED BY <2>1, <2>2
<1>12. CASE UndoMark
  BY <1>12, <1>k DEF UndoMark, Return, past
<1>13. CASE DropMarker
  BY <1>13, <1>k DEF DropMarker, Goto, Return, past
<1>14. CASE DropPrev
  BY <1>14, <1>k, <1>t DEF DropPrev, Goto, Return, past, DiskTypeOK
<1>15. CASE StartRollback \/ StartFinish
  <2>1. UNCHANGED <<disk, base, baseDirs>> /\ tried \subseteq tried' /\ pc' = "recover"
    BY <1>15 DEF StartRollback, StartFinish, StartRecover
  <2> QED BY <2>1, TreeKept DEF TreeInv, disk
<1>16. CASE InstallCopy
  <2>1. PICK f \in plan.install : junk' = junk \cup {f}
    BY <1>16 DEF InstallCopy
  <2>2. tmp[f] = "full" /\ f \in Files
    BY <1>16, <1>t DEF IInv, FinishInv, RollbackInv, InstallCopy, At, RecoverPcs, PlanTypeOK
  <2>3. "finish" \in tried
    BY <1>16 DEF IInv, FinishInv, RollbackInv, Memory, InstallCopy, At, RecoverPcs
  <2>4. UNCHANGED <<name, tmp, prev, dirs, base, baseDirs, tried>> /\ pc' = "install"
    BY <1>16 DEF InstallCopy, past
  <2> QED BY <2>1, <2>2, <2>3, <2>4, TreeKept DEF TreeInv
<1>17. CASE InstallRename
  <2>1. CASE UNCHANGED name
    BY <1>17, <1>k, <2>1 DEF InstallRename, Return, past
  <2>2. CASE ~UNCHANGED name
    <3>1. PICK f \in Files : First(f, FileSteps) /\ name' = [name EXCEPT ![f] = Staged(f)]
                             /\ junk' = junk \ {f}
      BY <1>17, <2>2 DEF InstallRename
    <3>2. PICK g \in plan.install : First(g, FileSteps) /\ tmp[g] = "full"
      BY <1>17 DEF IInv, FinishInv, RollbackInv, InstallRename, RecoverPcs
    <3>3. f = g
      <4>1. FileSteps \in SUBSET Files
        BY <1>t DEF PlanTypeOK, FileSteps
      <4> QED BY <3>1, <3>2, <4>1, FirstIsUnique DEF First
    <3>4. InDir(f, dirs)
      BY <3>2, <3>3 DEF TreeInv
    <3>5. UNCHANGED <<tmp, prev, dirs, base, baseDirs, tried>> /\ pc' = "installed"
      BY <1>17, <2>2 DEF InstallRename, Return, past
    <3> QED BY <1>t, <3>1, <3>4, <3>5, TreeKept DEF TreeInv, DiskTypeOK
  <2> QED BY <2>1, <2>2
<1>18. CASE InstallDropTmp
  BY <1>18, <1>k, <1>t DEF InstallDropTmp, Applied, past, DiskTypeOK
<1>19. CASE RecoverDropTmp
  BY <1>19, <1>k, <1>t DEF RecoverDropTmp, Applied, past, DiskTypeOK
<1>20. CASE RecoverPutBack
  BY <1>20, <1>k, <1>t DEF RecoverPutBack, Applied, past, DiskTypeOK
<1>21. CASE RecoverDropPrev
  BY <1>21, <1>k, <1>t DEF RecoverDropPrev, Applied, past, DiskTypeOK
<1>22. CASE RecoverRmdir
  <2>1. CASE dirs' = dirs
    BY <1>22, <1>k, <2>1 DEF RecoverRmdir, Applied, Return, past
  <2>2. CASE dirs' # dirs
    <3>1. PICK d \in Dirs : (d \in dirs => Empty(d)) /\ dirs' = dirs \ {d}
      BY <1>22, <2>2 DEF RecoverRmdir
    <3>2. UNCHANGED <<name, tmp, prev, junk, base, baseDirs, tried>>
      BY <1>22 DEF RecoverRmdir, Applied, Return, past
    <3> QED BY <3>1, <3>2, TreeWithout
  <2> QED BY <2>1, <2>2
<1>23. CASE RecoverUnmark
  BY <1>23, <1>k DEF RecoverUnmark, FilesAndDirsDone, work, past
<1>24. CASE RecoverDropJunk
  BY <1>24, <1>k DEF RecoverDropJunk, Applied, past
<1>25. CASE RecoverReturn \/ RecoverFails
  BY <1>25, <1>k DEF RecoverReturn, RecoverFails, Return, past, disk
<1>26. CASE Crash
  BY <1>26, <1>k DEF Crash, Return, past, disk
<1>27. CASE UNCHANGED vars
  BY <1>27, <1>k DEF vars, past, disk, work
<1>28. CASE RecoverChmod
  BY <1>28, <1>k DEF RecoverChmod, Applied, Return, past, disk
<1> QED
  BY <1>1, <1>2, <1>3, <1>4, <1>5, <1>6, <1>7, <1>8, <1>9, <1>10, <1>11, <1>12, <1>13,
     <1>14, <1>15, <1>16, <1>17, <1>18, <1>19, <1>20, <1>21, <1>22, <1>23, <1>24, <1>25,
     <1>26, <1>27, <1>28
  DEF Next, Materialize, Undo, Finish, ApplyPlan

LEMMA TreeInit == Init => TreeInv
<1> SUFFICES ASSUME Init PROVE TreeInv
  OBVIOUS
<1>1. \A d \in dirs : ParentPresent(d)
  BY DEF Init, ParentPresent
<1>2. \A f \in Files : name[f] # Absent => InDir(f, dirs)
  BY DEF Init, Absent
<1> QED BY <1>1, <1>2 DEF Init, TreeInv, ParentPresent, InDir, Absent

\* What a rollback finds in a directory it cannot remove.
LEMMA StuckIsBlocked ==
    ASSUME IInv, ReplyInv, TreeInv, pc = "recover", FileSteps = {},
           NEW d \in plan.rmdirs, Last(d, plan.rmdirs), ParentPresent(d), d \in dirs, ~Empty(d)
    PROVE  plan.action = "rollback" /\ Blocked(d)
<1>t. TypeOK /\ DiskTypeOK /\ PlanTypeOK /\ PastTypeOK
  BY DEF IInv, TypeOK
<1>1. plan.action = "rollback" /\ d \in marker.created
  BY DEF ReplyInv, PlannedInv, IInv, FinishInv, RecoverPcs
<1>2. d \notin baseDirs /\ d \in Dirs /\ d # 0
  BY <1>1, <1>t, SizesAssumption DEF ReplyInv, CreatedInv, PlanTypeOK, Dirs
<1>3. marker # NoMarker
  BY <1>1 DEF NoMarker
<1>4. dirs \subseteq baseDirs \cup marker.created
  BY <1>3 DEF ReplyInv, CreatedInv, IInv, MarkerShape
<1>5. ASSUME NEW e \in dirs, Parent[e] = d PROVE FALSE
  <2>1. e \in marker.created
    BY <1>2, <1>4, <1>5 DEF TreeInv
  <2>2. e \in plan.rmdirs
    BY <1>1, <2>1 DEF ReplyInv, PlannedInv, RecoverPcs
  <2>3. e <= d /\ d < e /\ e \in 1..NDirs
    BY <1>5, <1>t, <2>2, TreeAssumption DEF Last, DiskTypeOK, Dirs
  <2> QED BY <1>2, <2>3, SizesAssumption DEF Dirs
<1>6. PICK f \in Files : /\ DirOf[f] = d
                         /\ name[f] # Absent \/ tmp[f] # "none" \/ prev[f] # Absent \/ f \in junk
  BY <1>5 DEF Empty
<1>7. tmp[f] = "none" /\ prev[f] = Absent
  BY <1>1 DEF ReplyInv, PlannedInv, RecoverPcs, FileSteps
<1>8. CASE f \in junk
  BY <1>1, <1>6, <1>8 DEF TreeInv, Blocked
<1>9. CASE name[f] # Absent
  <2>1. base[f] = Absent
    BY <1>2, <1>6 DEF TreeInv, InDir
  <2>2. name[f] = run
    BY <1>9, <2>1 DEF IInv, OldOrNew
  <2> QED BY <1>1, <1>6, <2>1, <2>2 DEF Blocked
<1> QED BY <1>6, <1>7, <1>8, <1>9

LEMMA FailsOnlyFor ==
    IInv /\ ReplyInv /\ AllDirsInv /\ TreeInv /\ [Next]_vars =>
      [pc # "idle" /\ reply' = "recover_failed" /\ faults' = faults =>
         \/ plan.action = "rollback" /\ \E d \in plan.rmdirs : Blocked(d)
         \/ /\ plan.action = "finish" /\ (Durable => "rollback" \in tried)
            /\ IF marker = NoMarker THEN \E f \in Files : name[f] # run ELSE dirs # Dirs]_vars
<1> SUFFICES ASSUME IInv, ReplyInv, AllDirsInv, TreeInv, Next, pc # "idle", reply' = "recover_failed",
                    faults' = faults
             PROVE  \/ plan.action = "rollback" /\ \E d \in plan.rmdirs : Blocked(d)
                    \/ /\ plan.action = "finish" /\ (Durable => "rollback" \in tried)
                       /\ IF marker = NoMarker THEN \E f \in Files : name[f] # run
                                               ELSE dirs # Dirs
  OBVIOUS
<1>1. reply # "recover_failed" /\ ~Fault
  <2>1. reply = "none"
    BY DEF ReplyInv
  <2>2. faults \in Nat
    BY SizesAssumption DEF IInv, TypeOK
  <2> QED BY <2>1, <2>2 DEF Fault
<1>2. RecoverChmod \/ RecoverRmdir \/ RecoverReturn
  BY <1>1
  DEF Next, Materialize, Undo, Finish, ApplyPlan, Goto, GotoUndo, Return, MarkFailed, Applied,
      Begin, CreateNext, RenameNext, MakeDirs, Stage, SetAside, Swap, PutBack, UndoTmp, UndoPrev,
      UndoDirs, UndoMark, DropMarker, DropPrev, StartRollback, StartFinish, StartRecover,
      InstallCopy, InstallRename, InstallDropTmp, RecoverDropTmp, RecoverPutBack,
      RecoverDropPrev, RecoverUnmark, RecoverDropJunk, RecoverFails, Crash
<1>3. CASE RecoverRmdir
  <2>1. PICK d \in Dirs : /\ Last(d, plan.rmdirs) /\ pc = "recover" /\ FileSteps = {}
                          /\ ~(ParentPresent(d) /\ (d \in dirs => Empty(d)))
    BY <1>1, <1>3 DEF RecoverRmdir, Applied
  <2>2. d \in plan.rmdirs
    BY <2>1 DEF Last
  <2>3. plan.action = "rollback"
    BY <2>1, <2>2 DEF ReplyInv, PlannedInv, IInv, FinishInv, RecoverPcs
  <2>4. Blocked(d)
    BY <2>1, <2>2, StuckIsBlocked DEF Blocked
  <2> QED BY <2>2, <2>3, <2>4
<1>4. CASE RecoverReturn
  <2>1. /\ plan.action = "finish" /\ pc = "recover" /\ FileSteps = {} /\ marker = NoMarker
        /\ \E f \in Files : name[f] # run
    BY <1>1, <1>4 DEF RecoverReturn, FilesAndDirsDone, Return
  <2>2. Durable => "rollback" \in tried
    BY <2>1 DEF IInv, DurableInv, RecoverPcs, FileSteps
  <2> QED BY <2>1, <2>2
<1>5. CASE RecoverChmod
  <2>1. PICK d \in Dirs : d \in plan.chmod /\ pc = "recover" /\ d \notin dirs
    BY <1>1, <1>5 DEF RecoverChmod, Applied, First
  <2>2. plan.action = "finish" /\ marker.phase # "none" /\ "finish" \in tried
    BY <2>1 DEF IInv, FinishInv, RollbackInv, Memory, RecoverPcs
  <2>3. marker.phase = "swapping" /\ marker # NoMarker
    BY <2>2 DEF IInv, Kept, NoMarker
  <2>4. Durable => "rollback" \in tried
    BY <2>1, <2>3 DEF AllDirsInv
  <2> QED BY <2>1, <2>2, <2>3, <2>4
<1> QED BY <1>2, <1>3, <1>4, <1>5

(* A recovery that has begun fails only because a call of it does, or for one of       *)
(* these: its rollback meets a directory whose parent an earlier rollback removed, that *)
(* holds a file the restore added (Op::Keep), or a copy that a cut-off Op::Install     *)
(* left; or its finish comes after a rollback (with a durable marker, only then) and   *)
(* either finds a directory gone (Op::Chmod) and keeps the marker, or has removed the  *)
(* marker and its verification finds a file that is not the restored one.  So with a   *)
(* durable marker a finish alone, and a rollback alone whose directories are not       *)
(* nested and had no file added, go through once calls succeed.                        *)
THEOREM RecoveriesFailOnlyFor == Spec => RecoveryFailsOnlyFor
<1>1. Init => AllDirsInv /\ TreeInv
  BY TreeInit DEF Init, AllDirsInv, Marking, NoMarker
<1>2. IInv /\ ReplyInv /\ AllDirsInv /\ TreeInv /\ [Next]_vars => AllDirsInv' /\ TreeInv'
  BY AllDirsStep, TreeStep
<1> QED
  BY <1>1, <1>2, ReplyInvariant, FailsOnlyFor, PTL DEF Spec, RecoveryFailsOnlyFor

LEMMA CleanStep == IInv /\ CleanInv /\ [Next]_vars => CleanInv'
<1> SUFFICES ASSUME IInv, CleanInv, [Next]_vars, faults' = 0 PROVE CleanInv'
  BY DEF CleanInv
<1>t. TypeOK /\ DiskTypeOK /\ faults \in Nat
  BY SizesAssumption DEF IInv, TypeOK
<1>1. CASE UNCHANGED vars
  BY <1>1 DEF vars, disk, work, CleanInv, HasTmp, HasPrev, Leftovers
<1>2. CASE Next
  <2>1. ~Fault /\ faults = 0
    <3>1. ApplyPlan => Fault \/ NoFault
      BY DEF ApplyPlan, InstallCopy, InstallRename, InstallDropTmp, RecoverDropTmp,
             RecoverPutBack, RecoverDropPrev, RecoverChmod, RecoverRmdir, RecoverUnmark,
             RecoverDropJunk, RecoverReturn, RecoverFails
    <3>2. Materialize => Fault \/ NoFault
      BY DEF Materialize, CreateNext, RenameNext, MakeDirs, Stage, SetAside, Swap, PutBack
    <3>3. Undo \/ Finish => Fault \/ NoFault
      BY DEF Undo, Finish, UndoTmp, UndoPrev, UndoDirs, UndoMark, DropMarker, DropPrev
    <3>4. Begin \/ StartRollback \/ StartFinish \/ Crash => Fault \/ NoFault
      BY DEF Begin, StartRollback, StartFinish, StartRecover, Crash
    <3>5. Fault \/ NoFault
      BY <1>2, <3>1, <3>2, <3>3, <3>4 DEF Next
    <3> QED BY <1>t, <3>5 DEF Fault, NoFault
  <2>c. /\ pc \in {"idle", "mark", "land", "dirs", "stage", "aside", "swap", "finish", "drop"}
        /\ phase \in {"staging", "swapping"} /\ reply \in {"none", "restored"}
        /\ pc = "idle" => ~Leftovers
        /\ junk = IF pc = "land" THEN {NextMarker} ELSE {}
        /\ pc = "swap" => HasTmp \subseteq todo
        /\ pc \in {"finish", "drop"} => HasTmp = {}
        /\ pc = "drop" => marker.phase = "none" /\ HasPrev \subseteq todo
    BY <2>1 DEF CleanInv, IInv, TypeOK, WorkTypeOK, Phases
  <2>2. Begin \/ Materialize \/ Finish
    BY <1>2, <2>1, <2>c
    DEF Next, Undo, UndoTmp, UndoPrev, UndoDirs, UndoMark, ApplyPlan, InstallCopy, At,
        InstallRename, InstallDropTmp, RecoverDropTmp, RecoverPutBack, RecoverDropPrev,
        RecoverChmod, RecoverRmdir, RecoverUnmark, FilesAndDirsDone, RecoverDropJunk,
        RecoverReturn, RecoverFails, Crash, StartRollback, StartFinish, StartRecover
  <2>3. CASE Begin
    BY <2>c, <2>3 DEF Begin, disk, CleanInv, Leftovers
  <2>4. CASE CreateNext
    BY <2>1, <2>c, <2>4 DEF CreateNext, Goto, past, CleanInv
  <2>5. CASE RenameNext
    <3>1. /\ pc' \in {"dirs", "swap"} /\ UNCHANGED <<phase, reply, tmp>>
          /\ junk' = junk \ {NextMarker} /\ pc = "land"
      BY <2>1, <2>c, <2>5 DEF RenameNext, AfterMark, Goto
    <3>2. pc' = "swap" => todo' = Files
      BY <2>1, <2>c, <2>5 DEF RenameNext, AfterMark, Goto
    <3> QED BY <2>c, <3>1, <3>2 DEF CleanInv, HasTmp
  <2>6. CASE MakeDirs
    BY <2>1, <2>c, <2>6 DEF MakeDirs, Goto, CleanInv
  <2>7. CASE Stage
    BY <2>1, <2>c, <2>7 DEF Stage, Goto, CleanInv
  <2>8. CASE SetAside
    BY <2>1, <2>c, <2>8 DEF SetAside, Goto, CleanInv
  <2>9. CASE Swap
    <3>1. CASE todo = {}
      BY <2>1, <2>c, <2>9, <3>1 DEF Swap, Goto, First, CleanInv, HasTmp
    <3>2. CASE todo # {}
      <4>1. PICK f \in Files : /\ tmp' = [tmp EXCEPT ![f] = "none"] /\ todo' = todo \ {f}
                               /\ pc' = "swap" /\ UNCHANGED <<phase, reply, junk>>
        BY <2>1, <2>9, <3>2 DEF Swap, Goto
      <4>2. HasTmp' \subseteq todo'
        BY <1>t, <2>9, <2>c, <4>1 DEF HasTmp, DiskTypeOK, Swap
      <4> QED BY <2>9, <2>c, <4>1, <4>2 DEF CleanInv, Swap
    <3> QED BY <3>1, <3>2
  <2>10. CASE PutBack
    BY <2>10, <2>c DEF PutBack
  <2>11. CASE DropMarker
    <3>1. /\ pc' = "drop" /\ marker' = NoMarker /\ todo' = HasPrev
          /\ UNCHANGED <<phase, reply, junk, tmp, prev>> /\ pc = "finish"
      BY <2>1, <2>11 DEF DropMarker, Goto, HasPrev
    <3> QED BY <2>c, <3>1 DEF CleanInv, HasTmp, HasPrev, NoMarker
  <2>12. CASE DropPrev
    <3>1. CASE pc' = "drop"
      <4>1. PICK f \in Files : todo' = todo \ {f} /\ prev' = [prev EXCEPT ![f] = Absent]
        BY <2>1, <2>12, <3>1 DEF DropPrev, Goto, Return
      <4>2. UNCHANGED <<phase, reply, junk, tmp, marker>> /\ pc = "drop"
        BY <2>12, <3>1 DEF DropPrev, Goto, Return
      <4>3. HasPrev' \subseteq todo'
        BY <1>t, <2>c, <4>1, <4>2 DEF HasPrev, DiskTypeOK
      <4> QED BY <2>c, <3>1, <4>2, <4>3 DEF CleanInv, HasTmp
    <3>2. CASE pc' # "drop"
      <4>1. /\ todo = {} /\ pc = "drop" /\ pc' = "idle" /\ reply' = "restored" /\ phase' = "staging"
            /\ UNCHANGED disk
        BY <2>1, <2>12, <3>2 DEF DropPrev, Goto, Return, disk
      <4>2. ~Leftovers
        BY <2>c, <4>1 DEF Leftovers, HasTmp, HasPrev
      <4> QED BY <2>c, <4>1, <4>2 DEF CleanInv, Leftovers, disk
    <3> QED BY <3>1, <3>2
  <2> QED
    BY <2>2, <2>3, <2>4, <2>5, <2>6, <2>7, <2>8, <2>9, <2>10, <2>11, <2>12
    DEF Materialize, Finish
<1> QED BY <1>1, <1>2

(* As long as no call fails and nothing dies, every restore onto the config succeeds,  *)
(* whatever files and directories there were, and whatever restores came before: none  *)
(* of materialize's steps is refused for what an earlier step left.                    *)
THEOREM RestoresSucceed == Spec => []NothingFailsOfItself
<1>1. Init => CleanInv
  BY DEF Init, CleanInv, Leftovers, NoMarker, HasTmp, HasPrev
<1>2. CleanInv => NothingFailsOfItself
  BY DEF CleanInv, NothingFailsOfItself
<1> QED
  BY <1>1, <1>2, CleanStep, RestoreInvariant, PTL DEF Spec
=============================================================================
