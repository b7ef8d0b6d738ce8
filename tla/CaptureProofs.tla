--------------------------- MODULE CaptureProofs ---------------------------
(***************************************************************************)
(* Capture's invariants hold for any files, lock files, writers and numbers *)
(* of attempts.  The parts of Inv are proved together, one action at a time *)
(* and, for the writers, one writer at a time.  Then, what a capture lists  *)
(* is accepted and an accepted manifest is a tree, for manifests and config *)
(* directories of any size and depth.                                       *)
(***************************************************************************)
EXTENDS Capture, Manifests, SequenceTheorems, FiniteSetTheorems, WellFoundedInduction, TLAPS

LEMMA InitInv == Init => Inv
BY ConfigAssumption
DEF Init, Inv, TypeOK, LocksInv, CutInv, ConsistentCut, Nothing, Files, Locks, Rounds, Replies

\* What a writer does leaves the capture's variables alone and makes files newer.
LEMMA WriterStep ==
    ASSUME Inv, NEW w \in Writers, Writer(w)
    PROVE  Inv'
<1> USE ConfigAssumption DEF Inv, disk, writers, ghosts, capture
<1>1. CASE WStart(w)
  BY <1>1 DEF WStart, TypeOK, LocksInv, CutInv, ConsistentCut
<1>2. CASE WCreateLock(w)
  BY <1>2 DEF WCreateLock, Wanted, TypeOK, LocksInv, CutInv, ConsistentCut, Locks
<1>3. CASE WLock(w)
  BY <1>3 DEF WLock, Wanted, TypeOK, LocksInv, CutInv, ConsistentCut
<1>4. CASE WLocked(w)
  BY <1>4 DEF WLocked, Wanted, TypeOK, LocksInv, CutInv, ConsistentCut
<1>5. CASE WReplace(w)
  <2>1. TypeOK' /\ LocksInv' /\ ConsistentCut'
    BY <1>5 DEF WReplace, TypeOK, LocksInv, ConsistentCut
  <2>2. \A f \in Files : file[f] <= file'[f]
    BY <1>5 DEF WReplace, TypeOK
  <2>3. CutInv'
    BY <1>5, <2>1, <2>2 DEF WReplace, TypeOK, CutInv
  <2> QED BY <2>1, <2>3
<1>6. CASE WEnd(w)
  BY <1>6 DEF WEnd, TypeOK, LocksInv, CutInv, ConsistentCut
<1> QED BY <1>1, <1>2, <1>3, <1>4, <1>5, <1>6 DEF Writer

\* Returning empties the capture's hands.
LEMMA ReturnStep ==
    ASSUME Inv, NEW r \in Replies, Return(r), r = "captured" => seen = cut
    PROVE  Inv'
BY DEF Return, Released, Inv, TypeOK, LocksInv, CutInv, ConsistentCut, disk, writers, ghosts, Replies

LEMMA CaptureStepInv ==
    ASSUME Inv, ListLocks \/ CaptureStep \/ Fail
    PROVE  Inv'
<1> USE ConfigAssumption DEF Inv, disk, writers, ghosts
<1>1. CASE ListLocks
  BY <1>1 DEF ListLocks, Nothing, TypeOK, LocksInv, CutInv, ConsistentCut, Rounds, Replies
<1>2. CASE TryLock
  BY <1>2 DEF TryLock, Busy, HeldAsleep, TypeOK, LocksInv, CutInv, ConsistentCut
<1>3. CASE Retry
  <2>1. CASE Return("locked")
    BY <2>1, ReturnStep DEF Replies
  <2>2. CASE ~Return("locked")
    BY <1>3, <2>2 DEF Retry, AttemptsSpent, TypeOK, LocksInv, CutInv, ConsistentCut
  <2> QED BY <2>1, <2>2
<1>4. CASE Scan
  <2>1. CASE Return("incomplete")
    BY <2>1, ReturnStep DEF Replies
  <2>2. CASE ~Return("incomplete")
    <3>1. Nothing \in [Files -> Nat] /\ \A f \in Files : Nothing[f] = 0
      BY DEF Nothing
    <3>2. Present \subseteq Files
      BY DEF Present
    <3>3. /\ todo' = Present /\ seen' = Nothing /\ pc' = "read"
          /\ UNCHANGED <<file, lockFiles, wpc, wheld, wleft, listed, held, attempt,
                         round, now, reply, captures, cut, cutMid>>
          /\ pc = "lock" => todo = {}
          /\ pc \in {"lock", "scan"}
      BY <1>4, <2>2 DEF Scan
    <3>4. TypeOK' /\ LocksInv'
      BY <3>1, <3>2, <3>3 DEF TypeOK, LocksInv
    <3>5. CutInv' /\ ConsistentCut'
      BY <3>1, <3>3 DEF TypeOK, CutInv, ConsistentCut
    <3> QED BY <3>4, <3>5
  <2> QED BY <2>1, <2>2
<1>5. CASE Read
  BY <1>5 DEF Read, First, TypeOK, LocksInv, CutInv, ConsistentCut
<1>6. CASE Rescan
  <2>1. Nothing \in [Files -> Nat] /\ \A f \in Files : Nothing[f] = 0
    BY DEF Nothing
  <2>2. \A f \in Files : f \notin Present => file[f] = 0
    BY DEF Present
  <2>3. TypeOK' /\ ConsistentCut'
    BY <1>6, <2>1 DEF Rescan, Present, TypeOK, ConsistentCut, CutInv
  <2>4. CutInv'
    BY <1>6, <2>1, <2>2 DEF Rescan, TypeOK, CutInv
  <2>5. LocksInv'
    BY <1>6 DEF Rescan, Midway, TypeOK, LocksInv
  <2> QED BY <2>3, <2>4, <2>5
<1>7. CASE Stamp
  BY <1>7 DEF Stamp, First, TypeOK, LocksInv, CutInv, ConsistentCut
<1>8. CASE Compare
  <2>1. CASE UnchangedSince /\ Return("captured")
    <3>1. \A f \in Files : seen[f] = cut[f]
      BY <1>8, <2>1 DEF Compare, UnchangedSince, TypeOK, CutInv
    <3>2. seen = cut
      BY <3>1 DEF TypeOK
    <3> QED BY <2>1, <3>2, ReturnStep DEF Replies
  <2>2. CASE Return("changing")
    BY <2>2, ReturnStep DEF Replies
  <2>3. CASE ~Return("changing") /\ ~(UnchangedSince /\ Return("captured"))
    BY <1>8, <2>3 DEF Compare, Rounds, TypeOK, LocksInv, CutInv, ConsistentCut
  <2> QED BY <2>1, <2>2, <2>3
<1>9. CASE Fail
  BY <1>9, ReturnStep DEF Fail, Replies
<1> QED
  BY <1>1, <1>2, <1>3, <1>4, <1>5, <1>6, <1>7, <1>8, <1>9 DEF CaptureStep

LEMMA StutterInv ==
    ASSUME Inv, UNCHANGED vars
    PROVE  Inv'
BY DEF vars, disk, writers, ghosts, Inv, TypeOK, LocksInv, CutInv, ConsistentCut

LEMMA InvHolds == Spec => []Inv
<1>1. Inv /\ [Next]_vars => Inv'
  BY WriterStep, CaptureStepInv, StutterInv DEF Next
<1> QED BY InitInv, <1>1, PTL DEF Spec

\* Every variable of the capture keeps its type.
THEOREM CaptureTypeCorrect == Spec => []TypeOK
BY InvHolds, PTL DEF Inv

\* Reading everything and then stamping everything captures one moment, with no
\* help from the locks: a restore, which takes none, cannot tear it either.
THEOREM CaptureIsOneMoment == Spec => []ConsistentCut
BY InvHolds, PTL DEF Inv

\* The locks make that moment one between the changes of every writer that has
\* a lock file the capture saw.
THEOREM CaptureIsBetweenRewrites == Spec => []WholeRewrites
<1>1. Inv => WholeRewrites
  BY DEF Inv, LocksInv, WholeRewrites
<1> QED BY InvHolds, <1>1, PTL

\* The capture never sleeps on a lock a writer waits for.
THEOREM NoDeadlockWithPbs == Spec => []NoWaitCycle
<1>1. Inv => NoWaitCycle
  BY DEF Inv, LocksInv, NoWaitCycle
<1> QED BY InvHolds, <1>1, PTL

-----------------------------------------------------------------------------
(* Every capture ends *)

\* One lock, or one file, less.
LEMMA LessToDoIsCloser ==
    ASSUME NEW x \in todo, todo' = todo \ {x}, UNCHANGED <<pc, attempt, round>>
    PROVE  Closer
BY DEF Closer, Place

LEMMA CaptureIsCloser ==
    ASSUME TypeOK, CaptureStep, pc' # "idle"
    PROVE  Closer
<1> USE DEF Return
<1>1. CASE TryLock
  <2>1. PICK l \in todo : \/ todo' = todo \ {l} /\ pc' = pc
                          \/ pc = "lock" /\ pc' = "sleep"
    BY <1>1 DEF TryLock
  <2>2. UNCHANGED <<attempt, round>>
    BY <1>1 DEF TryLock
  <2>3. CASE todo' = todo \ {l} /\ pc' = pc
    BY <2>2, <2>3, LessToDoIsCloser
  <2>4. CASE pc = "lock" /\ pc' = "sleep"
    BY <2>2, <2>4 DEF Closer, Place
  <2> QED BY <2>1, <2>3, <2>4
<1>2. CASE Retry
  BY <1>2 DEF Retry, Closer, TypeOK
<1>3. CASE Scan
  <2>1. pc \in {"lock", "scan"} /\ pc' = "read" /\ UNCHANGED <<attempt, round>>
    BY <1>3 DEF Scan
  <2> QED BY <2>1 DEF Closer, Place
<1>4. CASE Read
  <2>1. PICK f \in todo : todo' = todo \ {f}
    BY <1>4 DEF Read, First
  <2> QED BY <1>4, <2>1, LessToDoIsCloser DEF Read
<1>5. CASE Rescan
  BY <1>5 DEF Rescan, Closer, Place
<1>6. CASE Stamp
  <2>1. PICK f \in todo : todo' = todo \ {f}
    BY <1>6 DEF Stamp, First
  <2> QED BY <1>6, <2>1, LessToDoIsCloser DEF Stamp
<1>7. CASE Compare
  BY <1>7 DEF Compare, Closer, TypeOK
<1> QED BY <1>1, <1>2, <1>3, <1>4, <1>5, <1>6, <1>7 DEF CaptureStep

(* No capture runs for ever, whatever writers do to its locks and files while it runs:  *)
(* the attempts of hold_locks and the two reads of read_snapshot are counted, their     *)
(* loops run over lists made before, and no step of it waits for a writer.  (The type   *)
(* invariant bounds round and attempt and makes todo finite.)                           *)
THEOREM EveryCaptureEnds == Spec => CaptureEnds
<1>1. TypeOK /\ [Next]_vars => [pc # "idle" => UNCHANGED capture \/ pc' = "idle" \/ Closer]_vars
  <2> SUFFICES ASSUME TypeOK, Next, pc # "idle", pc' # "idle"
               PROVE  UNCHANGED capture \/ Closer
    OBVIOUS
  <2>1. CASE \E w \in Writers : Writer(w)
    BY <2>1 DEF Writer, WStart, WCreateLock, WLock, WLocked, WReplace, WEnd, capture
  <2>2. CASE CaptureStep
    BY <2>2, CaptureIsCloser
  <2> QED BY <2>1, <2>2 DEF Next, ListLocks, Fail, Return
<1> QED
  BY <1>1, CaptureTypeCorrect, PTL DEF Spec, CaptureEnds

-----------------------------------------------------------------------------
(* What a manifest may list *)

\* A set of numbers that is not empty has a least one.
LEMMA LeastOf ==
    ASSUME NEW T, T \subseteq Nat, T # {}
    PROVE  \E n \in T : \A k \in T : n <= k
<1> DEFINE R == OpToRel(<, Nat)
<1>1. \A x, y \in Nat : y < x => <<y, x>> \in R
  BY DEF OpToRel
<1>2. IsWellFoundedOn(R, Nat)
  BY NatLessThanWellFounded
<1> HIDE DEF R
<1>3. PICK n \in T : \A k \in T : ~(<<k, n>> \in R)
  BY <1>2, WFMin
<1>4. \A k \in T : k \in Nat /\ n \in Nat /\ ~(k < n)
  BY <1>1, <1>3
<1> QED BY <1>4

\* A path of names leads where it says.
LEMMA WalkOfNames ==
    ASSUME NEW p \in Seq(Names), p # <<>>
    PROVE  Walk(p) = p /\ p # Outside
<1> DEFINE K == 0 .. Len(p)
           P(f) == f = [k \in K |-> IF k = 0 THEN (IF p[1] = Empty THEN Outside ELSE <<>>)
                                             ELSE Go(f[k - 1], p[k])]
           g == [k \in K |-> SubSeq(p, 1, k)]
<1>1. Walk(p) = (CHOOSE f : P(f))[Len(p)]
  BY DEF Walk
<1>2. Len(p) \in Nat /\ \A k \in 1 .. Len(p) : p[k] \in Names
  OBVIOUS
<1>3. \A k \in 1 .. Len(p) : p[k] \notin {Empty, Dot, DotDot}
  BY <1>2, ManifestsAssumption
<1>4. \A q \in Seq(Names) : q # Outside
  <2>1. ASSUME NEW q \in Seq(Names), q = Outside PROVE FALSE
    <3>1. Len(q) = 1 /\ q[1] = DotDot
      BY <2>1 DEF Outside
    <3>2. q[1] \in Names
      <4>1. 1 \in 1 .. Len(q)
        BY <3>1
      <4> QED BY <4>1, ElementOfSeq
    <3> QED BY <3>1, <3>2, ManifestsAssumption
  <2> QED BY <2>1
<1>5. ASSUME NEW k \in 1 .. Len(p)
      PROVE  Go(SubSeq(p, 1, k - 1), p[k]) = SubSeq(p, 1, k)
  <2>1. SubSeq(p, 1, k - 1) \in Seq(Names)
    BY <1>2, SubSeqProperties
  <2>2. Go(SubSeq(p, 1, k - 1), p[k]) = Append(SubSeq(p, 1, k - 1), p[k])
    BY <1>3, <1>4, <2>1 DEF Go
  <2>3. SubSeq(p, 1, k) = SubSeq(p, 1, k - 1) \o <<p[k]>>
    <3>1. 1 \in 1 .. Len(p) /\ k \in 1 .. Len(p)
      BY <1>2
    <3> QED BY <3>1, SubSeqRecursiveSecond
  <2>4. Append(SubSeq(p, 1, k - 1), p[k]) = SubSeq(p, 1, k - 1) \o <<p[k]>>
    BY <1>2, <2>1, AppendIsConcat
  <2> QED BY <2>2, <2>3, <2>4
<1>6. SubSeq(p, 1, 0) = <<>> /\ p[1] # Empty
  <2>1. 1 \in 1 .. Len(p)
    BY <1>2
  <2> QED BY <1>3, <2>1, SubSeqEmpty
<1>7. P(g)
  <2>1. ASSUME NEW k \in K, k # 0
        PROVE  g[k] = Go(g[k - 1], p[k])
    <3>1. k \in 1 .. Len(p) /\ k - 1 \in K
      BY <1>2, <2>1
    <3> QED BY <1>5, <3>1
  <2>2. 0 \in K
    BY <1>2
  <2> QED BY <1>6, <2>1, <2>2
<1>8. P(CHOOSE f : P(f))
  BY <1>7
<1>9. ASSUME NEW f, P(f)
      PROVE  f[Len(p)] = SubSeq(p, 1, Len(p))
  <2>1. f[0] = <<>> /\ \A k \in 1 .. Len(p) : f[k] = Go(f[k - 1], p[k])
    BY <1>2, <1>6, <1>9
  <2> HIDE DEF P
  <2> DEFINE T == {k \in K : f[k] # SubSeq(p, 1, k)}
  <2>2. T = {}
    <3> SUFFICES ASSUME T # {} PROVE FALSE
      OBVIOUS
    <3>1. PICK n \in T : \A k \in T : n <= k
      <4>1. T \subseteq Nat
        OBVIOUS
      <4> HIDE DEF T
      <4> QED BY <4>1, LeastOf
    <3>2. n \in 1 .. Len(p)
      <4>1. n \in K /\ f[n] # SubSeq(p, 1, n)
        BY <3>1
      <4>2. n # 0
        BY <1>6, <2>1, <4>1
      <4> QED BY <1>2, <4>1, <4>2
    <3>3. n - 1 \in K /\ f[n - 1] = SubSeq(p, 1, n - 1)
      BY <1>2, <3>1, <3>2
    <3>4. f[n] = Go(SubSeq(p, 1, n - 1), p[n])
      BY <2>1, <3>2, <3>3
    <3> QED BY <1>5, <3>1, <3>2, <3>3, <3>4
  <2> QED BY <1>2, <2>2
<1> HIDE DEF P
<1> QED BY <1>1, <1>4, <1>8, <1>9, SubSeqFull

\* As many different elements as there are in a finite set are all of them.
LEMMA AllOf ==
    ASSUME NEW S, IsFiniteSet(S),
           NEW f \in [1 .. Cardinality(S) -> S],
           \A i, j \in 1 .. Cardinality(S) : f[i] = f[j] => i = j
    PROVE  /\ f \in Seq(S) /\ Len(f) = Cardinality(S) /\ Len(f) \in Nat
           /\ \A x \in S : \E i \in 1 .. Len(f) : f[i] = x
<1>1. Cardinality(S) \in Nat
  BY FS_CardinalityType
<1>2. f \in Seq(S) /\ Len(f) = Cardinality(S)
  BY <1>1
<1>3. f \in Injection(1 .. Cardinality(S), S)
  BY DEF Injection, IsInjective
<1>4. Cardinality(1 .. Cardinality(S)) = Cardinality(S)
  BY <1>1, FS_Interval
<1>5. f \in Surjection(1 .. Cardinality(S), S)
  BY <1>3, <1>4, FS_Injection
<1> QED BY <1>1, <1>2, <1>5 DEF Surjection

LEMMA SetToSeqIsAll ==
    ASSUME NEW S, IsFiniteSet(S)
    PROVE  /\ SetToSeq(S) \in Seq(S)
           /\ \A i, j \in 1 .. Len(SetToSeq(S)) : SetToSeq(S)[i] = SetToSeq(S)[j] => i = j
           /\ \A x \in S : \E i \in 1 .. Len(SetToSeq(S)) : SetToSeq(S)[i] = x
<1> DEFINE N == 1 .. Cardinality(S)  f == SetToSeq(S)
<1>1. \E g \in [N -> S] : IsInjective(g)
  BY FS_CardinalityType DEF ExistsBijection, Bijection, Injection
<1>2. f \in [N -> S] /\ IsInjective(f)
  BY <1>1 DEF SetToSeq
<1> HIDE DEF f
<1>3. \A i, j \in N : f[i] = f[j] => i = j
  BY <1>2 DEF IsInjective
<1>4. f \in Seq(S) /\ Len(f) = Cardinality(S) /\ \A x \in S : \E i \in 1 .. Len(f) : f[i] = x
  BY <1>2, <1>3, AllOf
<1> QED BY <1>3, <1>4 DEF f

\* The entries of a manifest are its directories and its files.
LEMMA EntriesOf ==
    ASSUME NEW m \in Manifest
    PROVE  LET entries == m.dirs \o m.files
           IN  /\ m.dirs \in Seq(Entries) /\ m.files \in Seq(Entries)
               /\ Len(m.dirs) \in Nat /\ Len(m.files) \in Nat
               /\ entries \in Seq(Entries)
               /\ \A i \in 1 .. Len(m.dirs) : i \in 1 .. Len(entries) /\ entries[i] = m.dirs[i]
               /\ \A i \in 1 .. Len(m.files) :
                     /\ Len(m.dirs) + i \in 1 .. Len(entries)
                     /\ entries[Len(m.dirs) + i] = m.files[i]
               /\ \A i \in 1 .. Len(entries) :
                     \/ i \in 1 .. Len(m.dirs)
                     \/ i - Len(m.dirs) \in 1 .. Len(m.files)
<1>1. m.dirs \in Seq(Entries) /\ m.files \in Seq(Entries)
  BY DEF Manifest
<1>2. Len(m.dirs) \in Nat /\ Len(m.files) \in Nat
  BY <1>1
<1> DEFINE entries == m.dirs \o m.files  all == 1 .. Len(entries)
           d == Len(m.dirs)  f == Len(m.files)
<1>3. /\ entries \in Seq(Entries)
      /\ all = 1 .. d + f
      /\ \A i \in 1 .. d + f : entries[i] = IF i <= d THEN m.dirs[i] ELSE m.files[i - d]
  BY <1>1, ConcatProperties
<1>4. d \in Nat /\ f \in Nat
  BY <1>2
<1> HIDE DEF entries, all, d, f
<1>5. \A i \in 1 .. d : i \in all /\ entries[i] = m.dirs[i]
  BY <1>3, <1>4
<1>6. \A i \in 1 .. f : d + i \in all /\ entries[d + i] = m.files[i]
  <2>1. \A i \in 1 .. f : d + i \in 1 .. d + f /\ ~(d + i <= d) /\ (d + i) - d = i
    BY <1>4
  <2> QED BY <1>3, <2>1
<1>7. \A i \in all : i \in 1 .. d \/ i - d \in 1 .. f
  BY <1>3, <1>4
<1> QED BY <1>1, <1>2, <1>3, <1>5, <1>6, <1>7 DEF all, entries, d, f

LEMMA AcceptedPaths ==
    ASSUME NEW m \in Manifest, validate(m)
    PROVE  LET entries == m.dirs \o m.files
               paths == PathsOf(m.dirs) \cup PathsOf(m.files)
           IN  /\ \A i \in 1 .. Len(entries) : entries[i].path \in paths
               /\ \A i, j \in 1 .. Len(entries) : entries[i].path = entries[j].path => i = j
               /\ PathsOf(m.dirs) \cap PathsOf(m.files) = {}
               /\ \A p \in paths :
                     /\ p \in Seq(Names) /\ p # <<>>
                     /\ DirOf(p) = <<>> \/ DirOf(p) \in PathsOf(m.dirs)
<1> DEFINE entries == m.dirs \o m.files
           all == 1 .. Len(entries)
           paths == PathsOf(m.dirs) \cup PathsOf(m.files)
<1>1. /\ \A i \in all : check_rel(entries[i].path)
      /\ \A i, j \in all : entries[i].path = entries[j].path => i = j
      /\ \A i \in all : DirOf(entries[i].path) = <<>> \/ DirOf(entries[i].path) \in PathsOf(m.dirs)
  BY DEF validate
<1>2. /\ \A i \in 1 .. Len(m.dirs) : i \in all /\ entries[i] = m.dirs[i]
      /\ \A i \in 1 .. Len(m.files) : Len(m.dirs) + i \in all /\ entries[Len(m.dirs) + i] = m.files[i]
      /\ \A i \in all : i \in 1 .. Len(m.dirs) \/ i - Len(m.dirs) \in 1 .. Len(m.files)
      /\ entries \in Seq(Entries) /\ Len(m.dirs) \in Nat /\ Len(m.files) \in Nat
  BY EntriesOf
<1> HIDE DEF entries
<1>3. \A i \in all : entries[i].path \in paths
  <2>1. ASSUME NEW i \in all PROVE entries[i].path \in paths
    <3>1. CASE i \in 1 .. Len(m.dirs)
      BY <1>2, <3>1 DEF PathsOf
    <3>2. CASE i - Len(m.dirs) \in 1 .. Len(m.files)
      <4>1. Len(m.dirs) + (i - Len(m.dirs)) = i
        BY <1>2
      <4>2. entries[i] = m.files[i - Len(m.dirs)]
        BY <1>2, <3>2, <4>1
      <4> QED BY <3>2, <4>2 DEF PathsOf
    <3> QED BY <1>2, <3>1, <3>2
  <2> QED BY <2>1
<1>4. \A p \in paths : \E i \in all : p = entries[i].path
  BY <1>2 DEF PathsOf
<1>5. \A i \in all : entries[i].path \in Seq(Names) /\ entries[i].path # <<>>
  <2>1. ASSUME NEW i \in all PROVE entries[i].path \in Seq(Names) /\ entries[i].path # <<>>
    <3>1. entries[i].path \in Seq(Segments)
      <4>1. entries[i] \in Entries
        BY <1>2, ElementOfSeq
      <4> QED BY <4>1 DEF Entries
    <3>2. Len(entries[i].path) > 0 /\ \A k \in 1 .. Len(entries[i].path) : entries[i].path[k] \in Names
      BY <1>1 DEF check_rel
    <3> QED BY <3>1, <3>2
  <2> QED BY <2>1
<1>6. PathsOf(m.dirs) \cap PathsOf(m.files) = {}
  <2>1. ASSUME NEW i \in 1 .. Len(m.dirs), NEW j \in 1 .. Len(m.files), m.dirs[i].path = m.files[j].path
        PROVE  FALSE
    <3>1. i \in all /\ Len(m.dirs) + j \in all /\ entries[i].path = entries[Len(m.dirs) + j].path
      BY <1>2, <2>1
    <3>2. i = Len(m.dirs) + j
      BY <1>1, <3>1
    <3> QED BY <1>2, <3>2
  <2> QED BY <2>1 DEF PathsOf
<1>7. \A p \in paths :
         /\ p \in Seq(Names) /\ p # <<>>
         /\ DirOf(p) = <<>> \/ DirOf(p) \in PathsOf(m.dirs)
  BY <1>1, <1>4, <1>5
<1> QED BY <1>1, <1>3, <1>6, <1>7 DEF entries

LEMMA OnTheWay ==
    ASSUME NEW dirs, NEW p \in Seq(Names), p # <<>>,
           DirOf(p) = <<>> \/ DirOf(p) \in dirs,
           \A q \in dirs : /\ q \in Seq(Names) /\ q # <<>>
                           /\ DirOf(q) = <<>> \/ DirOf(q) \in dirs
    PROVE  \A k \in 1 .. Len(p) - 1 : SubSeq(p, 1, k) \in dirs
<1> DEFINE n == Len(p)
           T == {j \in 1 .. n - 1 : SubSeq(p, 1, n - j) \notin dirs}
<1>1. n \in Nat /\ n > 0
  OBVIOUS
<1>2. \A k \in 1 .. n : SubSeq(p, 1, k) # <<>> /\ SubSeq(p, 1, k) \in Seq(Names)
                        /\ Len(SubSeq(p, 1, k)) = k
  <2>1. ASSUME NEW k \in 1 .. n
        PROVE  SubSeq(p, 1, k) \in Seq(Names) /\ Len(SubSeq(p, 1, k)) = k
    <3>1. \A i \in 1 .. k : p[i] \in Names
      BY <1>1, ElementOfSeq
    <3>2. k \in Int /\ 1 <= k /\ k - 1 + 1 = k
      BY <1>1
    <3> QED BY <3>1, <3>2, SubSeqProperties
  <2> QED BY <1>1, <2>1
<1>3. T = {}
  <2> SUFFICES ASSUME T # {} PROVE FALSE
    OBVIOUS
  <2>1. PICK j \in T : \A i \in T : j <= i
    <3>1. T \subseteq Nat
      BY <1>1
    <3> HIDE DEF T
    <3> QED BY <3>1, LeastOf
  <2>2. j \in 1 .. n - 1 /\ SubSeq(p, 1, n - j) \notin dirs
    BY <2>1
  <2> DEFINE k == n - j
  <2>3. k \in 1 .. n /\ k + 1 \in 1 .. n /\ k \in 1 .. n - 1
    BY <1>1, <2>2
  <2>4. CASE j = 1
    <3>1. DirOf(p) = SubSeq(p, 1, k)
      BY <2>4 DEF DirOf, Front
    <3> QED BY <1>2, <2>2, <2>3, <3>1
  <2>5. CASE j # 1
    <3>1. j - 1 \in 1 .. n - 1 /\ j - 1 \notin T /\ n - (j - 1) = k + 1
      BY <1>1, <2>1, <2>2, <2>5
    <3> DEFINE q == SubSeq(p, 1, k + 1)
    <3>2. q \in dirs
      BY <3>1
    <3>3. Len(q) = k + 1 /\ q \in Seq(Names)
      BY <1>2, <2>3
    <3>4. SubSeq(q, 1, k) = SubSeq(p, 1, k)
      <4>1. 1 \in 1 .. Len(p) /\ k + 1 \in 1 .. Len(p)
        BY <2>3
      <4>2. 1 \in 1 .. (k + 1) - 1 + 1 /\ k \in 1 .. (k + 1) - 1 + 1
        BY <2>3
      <4>3. 1 + 1 - 1 = 1 /\ 1 + k - 1 = k
        BY <2>3
      <4> HIDE DEF k, n
      <4> QED BY <4>1, <4>2, <4>3, SubSeqOfSubSeq
    <3>5. Front(q) = SubSeq(q, 1, k)
      BY <2>3, <3>3 DEF Front
    <3>6. DirOf(q) = SubSeq(p, 1, k)
      BY <3>4, <3>5 DEF DirOf
    <3> QED BY <1>2, <2>2, <2>3, <3>2, <3>6
  <2> QED BY <2>4, <2>5
<1>4. ASSUME NEW k \in 1 .. n - 1 PROVE SubSeq(p, 1, k) \in dirs
  <2>1. n - k \in 1 .. n - 1 /\ n - (n - k) = k
    BY <1>1
  <2> QED BY <1>3, <2>1
<1> QED BY <1>4

\* The directories, in an order that make_dirs takes.
LEMMA ParentsFirst ==
    ASSUME NEW dirs \in Seq(Entries), NEW made \in MakeDirs(dirs),
           \A p \in PathsOf(dirs) : /\ p \in Seq(Names) /\ p # <<>>
                                    /\ DirOf(p) = <<>> \/ DirOf(p) \in PathsOf(dirs),
           NEW i \in 1 .. Len(made), Len(made[i].path) > 1
    PROVE  \E j \in 1 .. i - 1 : made[j].path = DirOf(made[i].path)
<1> DEFINE S == ToSet(dirs)
<1>1. IsFiniteSet(S)
  <2>1. IsFiniteSet(1 .. Len(dirs)) /\ DOMAIN dirs = 1 .. Len(dirs)
    <3>1. Len(dirs) \in Int /\ 1 \in Int
      OBVIOUS
    <3> QED BY <3>1, FS_Interval
  <2>2. dirs \in Surjection(1 .. Len(dirs), S)
    BY <2>1 DEF ToSet, Surjection
  <2> QED BY <2>1, <2>2, FS_Surjection
<1>2. /\ made \in [1 .. Cardinality(S) -> S]
      /\ \A k, j \in 1 .. Cardinality(S) : made[k] = made[j] => k = j
      /\ \A k, j \in 1 .. Len(made) : k < j => Len(made[k].path) <= Len(made[j].path)
  BY DEF MakeDirs, SetToSeqs
<1>3. /\ made \in Seq(S) /\ Len(made) \in Nat
      /\ \A x \in S : \E j \in 1 .. Len(made) : made[j] = x
  BY <1>1, <1>2, AllOf
<1>4. \A x \in S : x.path \in PathsOf(dirs)
  BY DEF ToSet, PathsOf
<1>5. \A p \in PathsOf(dirs) : \E x \in S : x.path = p
  BY DEF ToSet, PathsOf
<1> HIDE DEF S
<1> DEFINE p == made[i].path
<1>6. p \in PathsOf(dirs)
  BY <1>3, <1>4, ElementOfSeq
<1>7. DirOf(p) # <<>> /\ Len(DirOf(p)) = Len(p) - 1 /\ Len(p) \in Nat
  <2> DEFINE n == Len(p)
  <2>1. p \in Seq(Names) /\ n > 1 /\ n \in Nat
    BY <1>6
  <2> HIDE DEF p
  <2>2. \A k \in 1 .. n - 1 : p[k] \in Names
    BY <2>1
  <2>3. DirOf(p) = SubSeq(p, 1, n - 1)
    BY DEF DirOf, Front
  <2> HIDE DEF n
  <2>4. 1 <= n - 1 /\ n - 1 \in Int /\ (n - 1) - 1 + 1 = n - 1 /\ n - 1 # 0
    BY <2>1
  <2>5. SubSeq(p, 1, n - 1) \in Seq(Names) /\ Len(SubSeq(p, 1, n - 1)) = n - 1
    BY <2>2, <2>4, SubSeqProperties
  <2>6. SubSeq(p, 1, n - 1) # <<>>
    BY <2>4, <2>5
  <2> QED BY <2>1, <2>3, <2>5, <2>6 DEF n
<1>8. PICK j \in 1 .. Len(made) : made[j].path = DirOf(p)
  BY <1>3, <1>5, <1>6, <1>7
<1>9. ~(i < j) /\ i # j
  <2>1. Len(made[j].path) = Len(p) - 1
    BY <1>7, <1>8
  <2>2. ~(Len(p) <= Len(p) - 1) /\ Len(p) # Len(p) - 1
    BY <1>7
  <2> QED BY <1>2, <2>1, <2>2
<1>10. j \in 1 .. i - 1
  BY <1>3, <1>9
<1> QED BY <1>8, <1>10

\* Whatever an accepted manifest says (it comes from the store), a restore of it stays
\* below the config directory: each entry leads to a place of its own there, all the
\* directories on the way are listed and no file is, and directories are made after
\* their parents, in whichever of its orders (Manifest::validate, make_dirs).
THEOREM AcceptedIsATree ==
    ASSUME NEW m \in Manifest, validate(m)
    PROVE  IsATree(m)
<1> DEFINE entries == m.dirs \o m.files
           all == 1 .. Len(entries)
           paths == PathsOf(m.dirs) \cup PathsOf(m.files)
<1>1. /\ \A i \in all : entries[i].path \in paths
      /\ \A i, j \in all : entries[i].path = entries[j].path => i = j
      /\ PathsOf(m.dirs) \cap PathsOf(m.files) = {}
      /\ \A p \in paths :
            /\ p \in Seq(Names) /\ p # <<>>
            /\ DirOf(p) = <<>> \/ DirOf(p) \in PathsOf(m.dirs)
  BY AcceptedPaths
<1> HIDE DEF entries
<1>2. \A i \in all : Walk(entries[i].path) = entries[i].path
  BY <1>1, WalkOfNames
<1>3. \A i \in all : Walk(entries[i].path) \notin {Outside, <<>>}
  BY <1>1, WalkOfNames
<1>4. \A i, j \in all : Walk(entries[i].path) = Walk(entries[j].path) => i = j
  BY <1>1, <1>2
<1>5. \A p \in paths : \A k \in 1 .. Len(p) - 1 :
         SubSeq(p, 1, k) \in PathsOf(m.dirs) /\ SubSeq(p, 1, k) \notin PathsOf(m.files)
  BY <1>1, OnTheWay
<1>6. \A i \in all : \A k \in 1 .. Len(Walk(entries[i].path)) - 1 :
         /\ SubSeq(Walk(entries[i].path), 1, k) \in PathsOf(m.dirs)
         /\ SubSeq(Walk(entries[i].path), 1, k) \notin PathsOf(m.files)
  BY <1>1, <1>2, <1>5
<1>7. \A made \in MakeDirs(m.dirs) : \A i \in 1 .. Len(made) :
         Len(made[i].path) > 1 =>
            \E j \in 1 .. i - 1 : made[j].path = DirOf(made[i].path)
  <2>1. m.dirs \in Seq(Entries)
    BY DEF Manifest
  <2>2. \A p \in PathsOf(m.dirs) :
           /\ p \in Seq(Names) /\ p # <<>>
           /\ DirOf(p) = <<>> \/ DirOf(p) \in PathsOf(m.dirs)
    BY <1>1
  <2> QED BY <2>1, <2>2, ParentsFirst
<1> QED BY <1>3, <1>4, <1>6, <1>7 DEF IsATree, entries

\* The entries a capture lists for the paths of a set.
Listing(P, size) == SetToSeq({Entry(p, FALSE, size[p]) : p \in P})

LEMMA ListedFor ==
    ASSUME NEW P, IsFiniteSet(P), P \subseteq Seq(Names),
           NEW size, \A p \in P : size[p] \in Nat,
           NEW s, s = Listing(P, size)
    PROVE  /\ s \in Seq(Entries)
           /\ \A i \in 1 .. Len(s) : /\ s[i].path \in P /\ ~s[i].special
                                     /\ s[i].size = size[s[i].path]
           /\ \A i, j \in 1 .. Len(s) : s[i].path = s[j].path => i = j
           /\ PathsOf(s) = P
<1> DEFINE f == [p \in P |-> Entry(p, FALSE, size[p])]
           E == {Entry(p, FALSE, size[p]) : p \in P}
<1>1. E = {f[p] : p \in P}
  OBVIOUS
<1>2. ASSUME NEW p \in P
      PROVE  /\ f[p] \in Entries /\ f[p].path = p /\ f[p].special = FALSE
             /\ f[p].size = size[p]
  <2>1. p \in Seq(Segments)
    BY SeqMonotonic DEF Segments
  <2> QED BY <2>1 DEF Entries, Entry
<1>3. IsFiniteSet(E)
  <2>1. f \in Surjection(P, E)
    BY <1>1 DEF Surjection
  <2> QED BY <2>1, FS_Surjection
<1>4. \A e \in E : e \in Entries /\ e.path \in P /\ e.special = FALSE /\ e = f[e.path]
  <2> SUFFICES ASSUME NEW e \in E
               PROVE  e \in Entries /\ e.path \in P /\ e.special = FALSE /\ e = f[e.path]
    OBVIOUS
  <2>1. PICK p \in P : e = f[p]
    BY <1>1
  <2> HIDE DEF f, E
  <2> QED BY <1>2, <2>1
<1>5. \A p \in P : f[p] \in E
  BY <1>1
<1> HIDE DEF E, f
<1>6. /\ s \in Seq(E)
      /\ \A i, j \in 1 .. Len(s) : s[i] = s[j] => i = j
      /\ \A e \in E : \E i \in 1 .. Len(s) : s[i] = e
  BY <1>3, SetToSeqIsAll DEF E, Listing
<1>7. \A i \in 1 .. Len(s) : s[i] \in E
  BY <1>6, ElementOfSeq
<1>8. s \in Seq(Entries)
  BY <1>4, <1>6, SeqMonotonic
<1>9. \A i, j \in 1 .. Len(s) : s[i].path = s[j].path => i = j
  <2>1. \A i, j \in 1 .. Len(s) : s[i].path = s[j].path => s[i] = s[j]
    BY <1>4, <1>7
  <2> QED BY <1>6, <2>1
<1>10. PathsOf(s) = P
  <2>1. \A i \in 1 .. Len(s) : s[i].path \in P
    BY <1>4, <1>7
  <2>2. ASSUME NEW p \in P PROVE \E i \in 1 .. Len(s) : s[i].path = p
    <3>1. PICK i \in 1 .. Len(s) : s[i] = f[p]
      BY <1>5, <1>6
    <3> QED BY <1>2, <3>1
  <2> QED BY <2>1, <2>2 DEF PathsOf
<1>11. \A i \in 1 .. Len(s) : s[i].path \in P /\ ~s[i].special /\ s[i].size = size[s[i].path]
  BY <1>2, <1>4, <1>7
<1> QED BY <1>8, <1>9, <1>10, <1>11

\* Whatever is in a config directory (within the size limits, and no deeper than a walk
\* goes down), its backup can be restored: the manifest the capture writes lists exactly the directories and the files
\* it found, and is accepted (scan, capture_with, Manifest::validate).
THEOREM CapturesAreAccepted ==
    ASSUME NEW tree, IsContent(tree), descend(tree),
           NEW size \in [DOMAIN tree -> Nat], \A p \in DOMAIN tree : size[p] <= FILE_CAP,
           Total(ManifestOf(tree, size).files) <= TOTAL_CAP
    PROVE  LET m == ManifestOf(tree, size)
           IN  /\ m \in Manifest /\ validate(m)
               /\ PathsOf(m.dirs) = scan(tree, "dir")
               /\ PathsOf(m.files) = scan(tree, "file")
<1> DEFINE m == ManifestOf(tree, size)
           D == scan(tree, "dir")
           F == scan(tree, "file")
           none == [p \in D |-> 0]
<1>1. /\ D \subseteq DOMAIN tree /\ F \subseteq DOMAIN tree /\ D \cap F = {}
      /\ DOMAIN tree \subseteq Seq(Names) \ {<<>>}
  BY DEF scan, IsContent
<1>2. IsFiniteSet(D) /\ IsFiniteSet(F)
  BY <1>1, FS_Subset DEF IsContent
<1>3. m.dirs = Listing(D, none) /\ m.files = Listing(F, size)
  <2>1. {Entry(p, FALSE, 0) : p \in D} = {Entry(p, FALSE, none[p]) : p \in D}
    OBVIOUS
  <2> QED BY <2>1 DEF ManifestOf, Listing
<1>4. m = [dirs |-> m.dirs, files |-> m.files]
  BY DEF ManifestOf
<1>5. \A p \in D \cup F : DirOf(p) = <<>> \/ DirOf(p) \in D
  <2>1. ASSUME NEW p \in D \cup F, DirOf(p) # <<>>
        PROVE  DirOf(p) \in D
    <3>1. p \in DOMAIN tree /\ tree[p] # "none" /\ \A i \in 1 .. Len(p) : ~transient(p[i])
      BY DEF scan
    <3>2. p \in Seq(Names) /\ p # <<>> /\ Len(p) \in Nat
      BY <1>1, <3>1
    <3>3. Len(p) > 1
      <4>1. CASE Len(p) <= 1
        <5>1. Len(p) - 1 < 1 /\ 1 \in Int /\ Len(p) - 1 \in Int
          BY <3>2, <4>1
        <5> QED BY <2>1, <5>1, SubSeqEmpty DEF DirOf, Front
      <4> QED BY <3>2, <4>1
    <3>4. Front(p) \in DOMAIN tree /\ tree[Front(p)] = "dir"
      BY <3>1, <3>3 DEF IsContent
    <3>5. \A i \in 1 .. Len(Front(p)) : i \in 1 .. Len(p) /\ Front(p)[i] = p[i]
      <4>1. \A i \in 1 .. Len(p) - 1 : p[i] \in Names
        BY <3>2
      <4>2. /\ Len(SubSeq(p, 1, Len(p) - 1)) = Len(p) - 1
            /\ \A i \in 1 .. Len(p) - 1 : SubSeq(p, 1, Len(p) - 1)[i] = p[i]
        <5>1. 1 <= Len(p) - 1 /\ Len(p) - 1 \in Int /\ (Len(p) - 1) - 1 + 1 = Len(p) - 1
              /\ \A i \in 1 .. Len(p) - 1 : 1 + i - 1 = i
          BY <3>2, <3>3
        <5> QED BY <4>1, <5>1, SubSeqProperties
      <4>3. \A i \in 1 .. Len(p) - 1 : i \in 1 .. Len(p)
        BY <3>2
      <4> QED BY <4>2, <4>3 DEF Front
    <3> QED BY <3>1, <3>4, <3>5 DEF scan, DirOf
  <2> QED BY <2>1
<1> HIDE DEF D, F, m
<1>6. /\ m.dirs \in Seq(Entries)
      /\ \A i \in 1 .. Len(m.dirs) : m.dirs[i].path \in D /\ ~m.dirs[i].special
      /\ \A i, j \in 1 .. Len(m.dirs) : m.dirs[i].path = m.dirs[j].path => i = j
      /\ PathsOf(m.dirs) = D
  <2>1. D \subseteq Seq(Names) /\ \A p \in D : none[p] \in Nat
    BY <1>1
  <2> HIDE DEF none
  <2> QED BY <1>2, <1>3, <2>1, ListedFor
<1>7. /\ m.files \in Seq(Entries)
      /\ \A i \in 1 .. Len(m.files) : /\ m.files[i].path \in F /\ ~m.files[i].special
                                      /\ m.files[i].size = size[m.files[i].path]
      /\ \A i, j \in 1 .. Len(m.files) : m.files[i].path = m.files[j].path => i = j
      /\ PathsOf(m.files) = F
  <2>1. F \subseteq Seq(Names) /\ \A p \in F : size[p] \in Nat
    BY <1>1
  <2> QED BY <1>2, <1>3, <2>1, ListedFor
<1>8. m \in Manifest
  BY <1>4, <1>6, <1>7 DEF Manifest
<1> DEFINE entries == m.dirs \o m.files  all == 1 .. Len(entries)
           d == Len(m.dirs)  f == Len(m.files)
<1>9. /\ d \in Nat /\ f \in Nat
      /\ \A i \in 1 .. d : entries[i] = m.dirs[i]
      /\ \A i \in 1 .. f : entries[d + i] = m.files[i]
      /\ \A i \in all : i \in 1 .. d \/ i - d \in 1 .. f
      /\ \A i \in all : i \in Nat
  <2>1. /\ \A i \in 1 .. d : entries[i] = m.dirs[i]
        /\ \A i \in 1 .. f : entries[d + i] = m.files[i]
        /\ \A i \in all : i \in 1 .. d \/ i - d \in 1 .. f
    BY <1>8, EntriesOf
  <2>2. d \in Nat /\ f \in Nat
    BY <1>6, <1>7
  <2>3. \A i \in all : i \in Nat
    OBVIOUS
  <2> QED BY <2>1, <2>2, <2>3
<1> HIDE DEF entries, all, d, f
<1>10. \A i \in all : \/ i \in 1 .. d /\ entries[i] = m.dirs[i]
                      \/ i - d \in 1 .. f /\ entries[i] = m.files[i - d]
  <2>1. ASSUME NEW i \in all, i - d \in 1 .. f PROVE entries[i] = m.files[i - d]
    <3>1. d + (i - d) = i
      BY <1>9
    <3> QED BY <1>9, <2>1, <3>1
  <2> QED BY <1>9, <2>1
<1>11. \A i \in all : entries[i].path \in D \cup F /\ ~entries[i].special
  BY <1>6, <1>7, <1>10 DEF d, f
<1>12. \A i, j \in all : entries[i].path = entries[j].path => i = j
  <2>1. ASSUME NEW i \in all, NEW j \in all, entries[i].path = entries[j].path
        PROVE  i = j
    <3>1. CASE i \in 1 .. d /\ entries[i] = m.dirs[i]
      <4>1. ~(j - d \in 1 .. f /\ entries[j] = m.files[j - d])
        <5>1. entries[i].path \in D
          BY <1>6, <3>1 DEF d
        <5>2. \A k \in 1 .. f : m.files[k].path \notin D
          BY <1>1, <1>7 DEF f
        <5> QED BY <2>1, <5>1, <5>2
      <4>2. j \in 1 .. d /\ entries[j] = m.dirs[j]
        BY <1>10, <4>1
      <4> QED BY <1>6, <2>1, <3>1, <4>2 DEF d
    <3>2. CASE i - d \in 1 .. f /\ entries[i] = m.files[i - d]
      <4>1. j - d \in 1 .. f /\ entries[j] = m.files[j - d]
        BY <1>1, <1>6, <1>7, <1>10, <2>1, <3>2 DEF d, f
      <4>2. i - d = j - d
        BY <1>7, <2>1, <3>2, <4>1 DEF f
      <4> QED BY <1>9, <4>2
    <3> QED BY <1>10, <3>1, <3>2
  <2> QED BY <2>1
<1>13. \A i \in all : check_rel(entries[i].path)
  <2>1. \A p \in D \cup F : check_rel(p)
    BY <1>1 DEF check_rel
  <2> QED BY <1>11, <2>1
<1>14. \A i \in 1 .. Len(m.files) : m.files[i].size <= FILE_CAP
  BY <1>1, <1>7
<1>15. \A i \in all : DirOf(entries[i].path) = <<>> \/ DirOf(entries[i].path) \in PathsOf(m.dirs)
  BY <1>5, <1>6, <1>11
<1>16. Total(m.files) <= TOTAL_CAP
  BY DEF m
<1>17. validate(m)
  BY <1>11, <1>12, <1>13, <1>14, <1>15, <1>16 DEF validate, all, entries
<1> QED BY <1>6, <1>7, <1>8, <1>17 DEF m, D, F
=============================================================================
