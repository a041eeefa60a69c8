------------------------- MODULE VendorInstallProofs -------------------------
(***************************************************************************)
(* Proofs about module VendorInstall, for any processes, packages, files,  *)
(* and layouts of projects and lockfiles.                                  *)
(***************************************************************************)
EXTENDS VendorInstall, FiniteSetTheorems, TLAPS

Version == {Old, Declared}
FileContent == {Absent, Edited} \cup {Content(i, v) : i \in Package, v \in Version}
Tree == [Path -> FileContent]
ReceiptSet == [Package -> {0} \cup Version]
Backup == UNION {[S -> FileContent] : S \in SUBSET Path}
Transaction ==
  [left : SUBSET Path, snapshot : Backup,
   loaded : ReceiptSet, before : [disk : Tree, receipts : ReceiptSet]]

Label ==
  {"idle", "run", "locking", "copy", "save", "restore", "torn", "cleaning", "ended", "crashed"}
PrepSet == [Package -> {"none", "ready", "recheck", "unchanged"}]
Projects == {Project(p) : p \in Process}
Lockfiles == {Lockfile(p) : p \in Process}

InTx(p) == pc[p] \in {"copy", "save", "restore", "torn"}
Pulling(p) == pc[p] \in {"run", "locking", "copy", "save", "restore", "torn"}

TypeOK ==
  /\ layout \in Layouts
  /\ disk \in [Projects -> Tree]
  /\ receipts \in [Lockfiles -> ReceiptSet]
  /\ projectLock \in [Projects -> Process \cup {Nobody}]
  /\ receiptLock \in [Lockfiles -> Process \cup {Nobody}]
  /\ pc \in [Process -> Label]
  /\ prep \in [Process -> PrepSet]
  /\ commit \in [Process -> 1 .. Count + 1]
  /\ tx \in [Process -> {NoTx} \cup Transaction]
  /\ settled \subseteq Process

\* What a process changes is locked.
HoldsLocks(p) ==
  /\ InTx(p) \/ pc[p] \in {"locking", "cleaning"} => projectLock[Project(p)] = p
  /\ InTx(p) => receiptLock[Lockfile(p)] = p

LocksAreHeld == \A p \in Process : HoldsLocks(p)

\* A transaction exists from the snapshot to the end, for a package that is ready.
TxIsOf(p) ==
  /\ tx[p] # NoTx <=> InTx(p)
  /\ InTx(p) \/ At(p, "locking") => commit[p] \in Package /\ prep[p][commit[p]] = "ready"

TxBelongs == \A p \in Process : TxIsOf(p)

\* A pull has yet to install or to check the packages that it has not reached.
IsAhead(p) ==
  /\ At(p, "idle") => commit[p] = 1
  /\ Pulling(p) =>
       \A j \in Package :
         /\ j > commit[p] => prep[p][j] \in {"ready", "recheck"}
         /\ j = commit[p] => prep[p][j] # "none"

PullsAreAhead == \A p \in Process : IsAhead(p)

\* How far a transaction has changed what it found.
Found(p, f) == tx[p].before.disk[f]
FoundFiles(p) == FilesIn(commit[p], tx[p].before.receipts[commit[p]])
FoundElsewhere(p) == 
  UNION {FilesIn(j, tx[p].before.receipts[j]) : j \in Package \ {commit[p]}}
New(p) == Files[commit[p]][Declared]

TxProgress(p) ==
  /\ Receipts(p) = tx[p].before.receipts
  /\ tx[p].snapshot = [f \in New(p) \cup FoundFiles(p) |-> Found(p, f)]
  /\ At(p, "copy") =>
       /\ tx[p].left \subseteq New(p)
       /\ \A f \in New(p) \ tx[p].left : Disk(p)[f] = Content(commit[p], Declared)
       /\ \A f \in Path \ New(p) : Disk(p)[f] = Found(p, f)
  /\ At(p, "save") =>
       /\ tx[p].loaded = Receipts(p)
       /\ \A f \in New(p) : Disk(p)[f] = Content(commit[p], Declared)
       /\ \A f \in Path \ New(p) :
            \/ Disk(p)[f] = Found(p, f)
            \/ Disk(p)[f] = Absent /\ f \in FoundFiles(p) \ FoundElsewhere(p)
  /\ At(p, "restore") =>
       \A f \in Path \ New(p) :
         \/ Disk(p)[f] = Found(p, f)
         \/ Disk(p)[f] = Absent /\ f \in FoundFiles(p)

TxProgresses == \A p \in Process : InTx(p) /\ ~At(p, "torn") => TxProgress(p)

\* The last package that declares a file.
Winner(f, m) == m \in Claimants(f) /\ \A j \in Claimants(f) : j <= m

WillInstall(q, m) ==
  Active(q) /\ commit[q] <= m /\ prep[q][m] \in {"ready", "recheck"}

\* A file that is not yet that of its last package will be.
WinnersWillWin ==
  \A p \in settled, f \in Path, m \in Package :
    Winner(f, m) =>
      \/ Disk(p)[f] = Content(m, Declared)
      \/ \E q \in Process : Project(q) = Project(p) /\ WillInstall(q, m)

IInv ==
  /\ TypeOK
  /\ LocksAreHeld
  /\ TxBelongs
  /\ PullsAreAhead
  /\ TxProgresses
  /\ WinnersWillWin

-----------------------------------------------------------------------------
(* Contents, receipts and the last package that declares a file.           *)

LEMMA ContentFacts ==
  /\ \A i, j \in Package, v, w \in Version :
       Content(i, v) = Content(j, w) => i = j /\ v = w
  /\ \A i \in Package, v \in Version : Content(i, v) # Absent /\ Content(i, v) \in FileContent
  /\ Absent \in FileContent
BY DEF Content, Absent, Package, FileContent

LEMMA FilesFacts ==
  /\ \A i \in Package : Files[i][Declared] \subseteq Path
  /\ \A i \in Package, v \in {0} \cup Version : FilesIn(i, v) \subseteq Path
  /\ \A f \in Path : Claimants(f) \subseteq Package
BY VendorInstallAssumption DEF FilesIn, Version, Claimants, Old, Declared

\* A file that any package declares has a last one that does.
LEMMA LastClaimant ==
  ASSUME NEW f \in Path, Claimants(f) # {}
  PROVE  Max(Claimants(f)) \in Package /\ Winner(f, Max(Claimants(f)))
<1> DEFINE S == Claimants(f)
           Above(x) == {y \in S : y > x}
           T == {Above(x) : x \in S}
<1>1. S \subseteq Package /\ Package \subseteq Int /\ S \subseteq Int /\ S # {}
  BY FilesFacts, VendorInstallAssumption DEF Package
<1>2. IsFiniteSet(S)
  BY <1>1, FS_Interval, FS_Subset, VendorInstallAssumption DEF Package
<1> HIDE DEF S
<1>3. T \subseteq FiniteSubsetsOf(S) /\ T # {}
  <2>1. FiniteSubsetsOf(S) = SUBSET S
    BY <1>2, FS_FiniteSubsetsOfFinite
  <2>2. ASSUME NEW B \in T PROVE B \in SUBSET S
    OBVIOUS
  <2>3. \E x \in S : Above(x) \in T
    BY <1>1
  <2> HIDE DEF T
  <2> QED  BY <2>1, <2>2, <2>3
<1>4. PICK B \in T : \A C \in T : <<C, B>> \notin StrictSubsetOrdering(S)
  <2> HIDE DEF T
  <2> QED  BY <1>2, <1>3, FS_StrictSubsetOrderingWellFounded, WFMin
<1>5. PICK x \in S : B = Above(x)
  OBVIOUS
<1>6. \A m \in S : x >= m
  <2> SUFFICES ASSUME NEW m \in S, m > x
               PROVE  FALSE
    BY <1>1
  <2>1. Above(m) \subseteq Above(x) /\ m \in Above(x) /\ m \notin Above(m)
    <3>1. m \in Int /\ x \in Int
      BY <1>1
    <3>2. ASSUME NEW y \in S, y > m PROVE y > x
      <4>1. y \in Int
        BY <1>1
      <4> QED  BY <4>1, <3>1, <3>2
    <3>3. ~(m > m)
      BY <3>1
    <3> QED  BY <3>2, <3>3
  <2>2. <<Above(m), Above(x)>> \in StrictSubsetOrdering(S)
    BY <2>1 DEF StrictSubsetOrdering
  <2> QED  BY <2>2, <1>4, <1>5
<1>7. Max(S) \in S /\ \A m \in S : Max(S) >= m
  BY <1>6 DEF Max
<1> QED  BY <1>7, <1>1 DEF Winner, S

-----------------------------------------------------------------------------
(* The parts of the actions.                                               *)

\* What a step of q leaves to the other processes.
Keeps(q) ==
  /\ layout' = layout
  /\ \A p \in Process \ {q} :
       /\ pc'[p] = pc[p] /\ prep'[p] = prep[p] /\ commit'[p] = commit[p] /\ tx'[p] = tx[p]
       /\ projectLock[Project(p)] = p =>
            projectLock'[Project(p)] = p /\ disk'[Project(p)] = disk[Project(p)]
       /\ receiptLock[Lockfile(p)] = p =>
            receiptLock'[Lockfile(p)] = p /\ receipts'[Lockfile(p)] = receipts[Lockfile(p)]

LEMMA UnlockFacts ==
  ASSUME TypeOK, NEW q \in Process, Unlock(q)
  PROVE  /\ projectLock' \in [Projects -> Process \cup {Nobody}]
         /\ receiptLock' \in [Lockfiles -> Process \cup {Nobody}]
         /\ \A p \in Process \ {q} :
              /\ projectLock[Project(p)] = p => projectLock'[Project(p)] = p
              /\ receiptLock[Lockfile(p)] = p => receiptLock'[Lockfile(p)] = p
BY DEF TypeOK, Unlock, Projects, Lockfiles

LEMMA WriteFacts ==
  ASSUME TypeOK, NEW q \in Process, NEW written \in Tree, Write(q, written)
  PROVE  /\ disk' \in [Projects -> Tree]
         /\ disk'[Project(q)] = written
         /\ \A p \in Process : Project(p) # Project(q) => disk'[Project(p)] = disk[Project(p)]
BY DEF TypeOK, Write, Projects

LEMMA ProceedFacts ==
  ASSUME TypeOK, NEW q \in Process, Proceed(q), commit[q] \in Package
  PROVE  /\ layout' = layout
         /\ pc' \in [Process -> Label]
         /\ prep' \in [Process -> PrepSet]
         /\ commit' \in [Process -> 1 .. Count + 1]
         /\ tx' \in [Process -> {NoTx} \cup Transaction]
         /\ pc'[q] = "run" /\ commit'[q] = commit[q] + 1 /\ tx'[q] = NoTx
         /\ prep'[q][commit[q]] = "none"
         /\ \A j \in Package : j # commit[q] => prep'[q][j] = prep[q][j]
         /\ \A p \in Process \ {q} :
              pc'[p] = pc[p] /\ prep'[p] = prep[p] /\ commit'[p] = commit[p] /\ tx'[p] = tx[p]
<1>1. commit[q] + 1 \in 1 .. Count + 1
  BY VendorInstallAssumption DEF Package
<1> QED  BY <1>1 DEF TypeOK, Proceed, Goto, Label, PrepSet

LEMMA GoneFacts ==
  ASSUME TypeOK, NEW q \in Process, NEW label \in {"ended", "crashed"}, Gone(q, label)
  PROVE  /\ layout' = layout /\ disk' = disk /\ receipts' = receipts
         /\ pc' \in [Process -> Label]
         /\ prep' \in [Process -> PrepSet]
         /\ commit' \in [Process -> 1 .. Count + 1]
         /\ tx' \in [Process -> {NoTx} \cup Transaction]
         /\ pc'[q] = label /\ tx'[q] = NoTx
         /\ \A p \in Process \ {q} :
              pc'[p] = pc[p] /\ prep'[p] = prep[p] /\ commit'[p] = commit[p] /\ tx'[p] = tx[p]
BY VendorInstallAssumption DEF TypeOK, Gone, Goto, NoPrep, files, Label, PrepSet

LEMMA StartFacts ==
  ASSUME TypeOK, NEW q \in Process, NEW needed, StartBatch(q, needed)
  PROVE  /\ At(q, "idle") /\ settled' = settled \cup {q}
         /\ layout' = layout /\ disk' = disk /\ receipts' = receipts
         /\ projectLock' = projectLock /\ receiptLock' = receiptLock
         /\ commit' = commit /\ tx' = tx
         /\ pc' \in [Process -> Label]
         /\ prep' \in [Process -> PrepSet]
         /\ pc'[q] = "run" /\ \A j \in Package : prep'[q][j] \in {"ready", "recheck"}
         /\ \A p \in Process \ {q} : pc'[p] = pc[p] /\ prep'[p] = prep[p]
BY DEF TypeOK, StartBatch, Goto, files, locks, Label, PrepSet

\* What a transaction can rely on.
LEMMA TxFacts ==
  ASSUME IInv, NEW q \in Process, InTx(q)
  PROVE  /\ tx[q] \in Transaction /\ tx[q] # NoTx /\ commit[q] \in Package
         /\ prep[q][commit[q]] = "ready"
         /\ projectLock[Project(q)] = q /\ receiptLock[Lockfile(q)] = q
         /\ ~At(q, "torn") => TxProgress(q)
BY DEF IInv, TypeOK, TxBelongs, LocksAreHeld, TxProgresses, HoldsLocks, TxIsOf

LEMMA LocksFacts ==
  ASSUME TypeOK, NEW p \in Process
  PROVE  /\ Project(p) \in Projects /\ Lockfile(p) \in Lockfiles
         /\ Disk(p) \in Tree /\ Receipts(p) \in ReceiptSet
         /\ \A i \in Package : FilesIn(i, Receipts(p)[i]) \subseteq Path
BY FilesFacts DEF TypeOK, Projects, Lockfiles, Disk, Receipts, ReceiptSet

LEMMA WithoutFacts ==
  ASSUME TypeOK, NEW q \in Process, NEW paths
  PROVE  /\ Without(q, paths) \in Tree
         /\ \A f \in Path : Without(q, paths)[f] = IF f \in paths THEN Absent ELSE Disk(q)[f]
BY LocksFacts, ContentFacts DEF Without, Tree

LEMMA RestoredFacts ==
  ASSUME IInv, NEW q \in Process, At(q, "restore"), NEW paths \in SUBSET DOMAIN tx[q].snapshot
  PROVE  /\ Restored(q, paths) \in Tree
         /\ \A f \in Path \cap paths : f \in New(q) \cup FoundFiles(q)
         /\ \A f \in Path :
              Restored(q, paths)[f] = IF f \in paths THEN Found(q, f) ELSE Disk(q)[f]
<1>1. InTx(q) /\ ~At(q, "torn") /\ TypeOK
  BY DEF InTx, At, IInv
<1>2. tx[q] \in Transaction /\ tx[q].snapshot = [f \in New(q) \cup FoundFiles(q) |-> Found(q, f)]
  BY <1>1, TxFacts DEF TxProgress
<1>3. \A f \in paths : f \in New(q) \cup FoundFiles(q) /\ tx[q].snapshot[f] = Found(q, f)
  BY <1>2
<1>4. \A f \in Path : Found(q, f) \in FileContent
  BY <1>2 DEF Transaction, Tree, Found
<1>5. Disk(q) \in Tree
  BY <1>1, LocksFacts
<1> QED  BY <1>3, <1>4, <1>5 DEF Restored, Tree

-----------------------------------------------------------------------------
(* Every step keeps the types and what other processes hold.               *)
LEMMA StepKeeps ==
  ASSUME IInv, NEW q \in Process, Begin(q) \/ Proceeds(q) \/ Mishap(q)
  PROVE  TypeOK' /\ Keeps(q)
<1> USE DEF IInv
<1>0. SUFFICES
        /\ layout' = layout
        /\ disk' \in [Projects -> Tree]
        /\ receipts' \in [Lockfiles -> ReceiptSet]
        /\ projectLock' \in [Projects -> Process \cup {Nobody}]
        /\ receiptLock' \in [Lockfiles -> Process \cup {Nobody}]
        /\ pc' \in [Process -> Label]
        /\ prep' \in [Process -> PrepSet]
        /\ commit' \in [Process -> 1 .. Count + 1]
        /\ tx' \in [Process -> {NoTx} \cup Transaction]
        /\ settled' \subseteq Process
        /\ Keeps(q)
  BY DEF TypeOK, Projects, Lockfiles, Project, Lockfile
<1>1. CASE Preflight(q)
  BY <1>1, StartFacts DEF Preflight, Keeps, TypeOK
<1>2. CASE PreflightOfRefresh(q)
  BY <1>2, StartFacts DEF PreflightOfRefresh, Keeps, TypeOK
<1>3. CASE PreflightRefuses(q)
  BY <1>3 DEF PreflightRefuses, Goto, Keeps, TypeOK, files, locks, Label
<1>4. CASE LockForClean(q)
  BY <1>4, VendorInstallAssumption
  DEF LockForClean, LockProject, ProjectFree, Goto, Keeps, TypeOK, files, Label, Projects
<1>5. CASE Recheck(q)
  BY <1>5 DEF Recheck, Rechecked, Keeps, TypeOK, files, locks, PrepSet
<1>6. CASE CommitUnchanged(q)
  BY <1>6, ProceedFacts DEF CommitUnchanged, Commits, Done, Keeps, TypeOK, files, locks
<1>7. CASE Lock(q)
  BY <1>7, VendorInstallAssumption
  DEF Lock, LockProject, ProjectFree, Goto, Keeps, TypeOK, files, Label, Projects
<1>8. CASE Copy(q)
  <2>1. PICK f \in tx[q].left :
          /\ Write(q, [Disk(q) EXCEPT ![f] = Content(commit[q], Declared)])
          /\ tx' = [tx EXCEPT ![q].left = @ \ {f}]
    BY <1>8 DEF Copy
  <2>2. At(q, "copy") /\ InTx(q)
    BY <1>8 DEF Copy, At, InTx
  <2>3. [Disk(q) EXCEPT ![f] = Content(commit[q], Declared)] \in Tree
    BY <2>2, TxFacts, LocksFacts, ContentFacts DEF Tree, Version
  <2>4. tx' \in [Process -> {NoTx} \cup Transaction] /\ \A p \in Process \ {q} : tx'[p] = tx[p]
    BY <2>1, <2>2, TxFacts DEF TypeOK, Transaction
  <2>5. \A p \in Process \ {q} :
          projectLock[Project(p)] = p => disk'[Project(p)] = disk[Project(p)]
    BY <2>1, <2>2, <2>3, TxFacts, WriteFacts
  <2> QED  BY <1>8, <2>1, <2>3, <2>4, <2>5, WriteFacts DEF Copy, Keeps, TypeOK, locks
<1>9. CASE Prune(q)
  <2>1. PICK written \in Tree : Write(q, written)
    BY <1>9, WithoutFacts DEF Prune
  <2>2. InTx(q)
    BY <1>9 DEF Prune, At, InTx
  <2>3. \A p \in Process \ {q} :
          projectLock[Project(p)] = p => disk'[Project(p)] = disk[Project(p)]
    BY <2>1, <2>2, TxFacts, WriteFacts
  <2>4. tx' \in [Process -> {NoTx} \cup Transaction] /\ \A p \in Process \ {q} : tx'[p] = tx[p]
    BY <1>9, <2>2, TxFacts, LocksFacts DEF Prune, TypeOK, Transaction
  <2> QED  BY <1>9, <2>1, <2>3, <2>4, WriteFacts DEF Prune, Goto, Keeps, TypeOK, locks, Label
<1>10. CASE PruneFails(q)
  <2>1. PICK written \in Tree : Write(q, written)
    BY <1>10, WithoutFacts DEF PruneFails
  <2>2. InTx(q)
    BY <1>10 DEF PruneFails, At, InTx
  <2>3. \A p \in Process \ {q} :
          projectLock[Project(p)] = p => disk'[Project(p)] = disk[Project(p)]
    BY <2>1, <2>2, TxFacts, WriteFacts
  <2> QED  BY <1>10, <2>1, <2>3, WriteFacts DEF PruneFails, Goto, Keeps, TypeOK, locks, Label
<1>11. CASE Save(q)
  <2>1. InTx(q) /\ Proceed(q) /\ Unlock(q) /\ disk' = disk /\ settled' \subseteq settled
    BY <1>11 DEF Save, At, InTx, Done, Failed
  <2>2. [tx[q].loaded EXCEPT ![commit[q]] = Declared] \in ReceiptSet
    BY <2>1, TxFacts DEF Transaction, ReceiptSet, Version
  <2>3. /\ receipts' \in [Lockfiles -> ReceiptSet]
        /\ \A p \in Process : Lockfile(p) # Lockfile(q) =>
             receipts'[Lockfile(p)] = receipts[Lockfile(p)]
    BY <1>11, <2>2, LocksFacts DEF Save, TypeOK
  <2>4. \A p \in Process \ {q} :
          receiptLock[Lockfile(p)] = p => receipts'[Lockfile(p)] = receipts[Lockfile(p)]
    BY <2>1, <2>3, TxFacts
  <2> QED  BY <2>1, <2>3, <2>4, TxFacts, ProceedFacts, UnlockFacts DEF Keeps, TypeOK
<1>12. CASE Restore(q)
  <2>1. PICK written \in Tree : Write(q, written)
    BY <1>12, RestoredFacts DEF Restore
  <2>2. InTx(q) /\ Proceed(q) /\ Unlock(q) /\ receipts' = receipts /\ settled' = {}
    BY <1>12 DEF Restore, At, InTx, Failed
  <2>3. \A p \in Process \ {q} :
          projectLock[Project(p)] = p => disk'[Project(p)] = disk[Project(p)]
    BY <2>1, <2>2, TxFacts, WriteFacts
  <2> QED  BY <2>1, <2>2, <2>3, TxFacts, WriteFacts, ProceedFacts, UnlockFacts DEF Keeps, TypeOK
<1>13. CASE LeaveTorn(q)
  <2>1. InTx(q)
    BY <1>13 DEF LeaveTorn, At, InTx
  <2> QED  BY <1>13, <2>1, TxFacts, ProceedFacts, UnlockFacts
           DEF LeaveTorn, Failed, Keeps, TypeOK, files
<1>14. CASE End(q)
  <2>1. Gone(q, "ended") /\ Unlock(q) /\ settled' \subseteq settled
    BY <1>14 DEF End, Gone
  <2> QED  BY <2>1, GoneFacts, UnlockFacts DEF Keeps, TypeOK
<1>15. CASE Clean(q)
  <2>1. projectLock[Project(q)] = q /\ receiptLock[Lockfile(q)] = Nobody /\ Unlock(q)
    BY <1>15 DEF Clean, ReceiptsFree, LocksAreHeld, HoldsLocks, At
  <2>2. PICK written \in Tree : Write(q, written)
    BY <1>15, WithoutFacts DEF Clean
  <2>3. \A p \in Process \ {q} :
          projectLock[Project(p)] = p => disk'[Project(p)] = disk[Project(p)]
    BY <2>1, <2>2, WriteFacts
  <2>4. PICK S \in SUBSET Package :
          receipts' \in {receipts, [receipts EXCEPT ![Lockfile(q)] =
            [i \in Package |-> IF i \in S THEN 0 ELSE @[i]]]}
    BY <1>15 DEF Clean
  <2>5. receipts' \in [Lockfiles -> ReceiptSet]
    <3>1. [i \in Package |-> IF i \in S THEN 0 ELSE receipts[Lockfile(q)][i]] \in ReceiptSet
      BY LocksFacts DEF Receipts, ReceiptSet
    <3> QED  BY <2>4, <3>1 DEF TypeOK
  <2>6. \A p \in Process \ {q} :
          receiptLock[Lockfile(p)] = p => receipts'[Lockfile(p)] = receipts[Lockfile(p)]
    BY <2>1, <2>4, LocksFacts, VendorInstallAssumption DEF TypeOK
  <2> QED  BY <1>15, <2>2, <2>3, <2>5, <2>6, WriteFacts, UnlockFacts
           DEF Clean, Goto, Keeps, TypeOK, Label
<1>16. CASE CommitFailed(q)
  BY <1>16, ProceedFacts DEF CommitFailed, Commits, Failed, Keeps, TypeOK, files, locks
<1>17. CASE SnapshotFails(q)
  <2>1. commit[q] \in Package
    BY <1>17 DEF SnapshotFails, TxBelongs, TxIsOf
  <2> QED  BY <1>17, <2>1, ProceedFacts, UnlockFacts
           DEF SnapshotFails, Failed, Keeps, TypeOK, files
<1>18. CASE CopyFails(q)
  BY <1>18 DEF CopyFails, Goto, Keeps, TypeOK, files, locks, Label
<1>19. CASE SaveFails(q)
  BY <1>19 DEF SaveFails, Goto, Keeps, TypeOK, files, locks, Label
<1>20. CASE RestoreFails(q)
  <2>1. PICK written \in Tree : Write(q, written)
    BY <1>20, RestoredFacts DEF RestoreFails
  <2>2. InTx(q)
    BY <1>20 DEF RestoreFails, At, InTx
  <2>3. \A p \in Process \ {q} :
          projectLock[Project(p)] = p => disk'[Project(p)] = disk[Project(p)]
    BY <2>1, <2>2, TxFacts, WriteFacts
  <2> QED  BY <1>20, <2>1, <2>3, WriteFacts DEF RestoreFails, Goto, Keeps, TypeOK, locks, Label
<1>21. CASE Cancelled(q)
  <2>1. Gone(q, "ended") /\ Unlock(q) /\ settled' \subseteq settled
    BY <1>21 DEF Cancelled, Gone
  <2> QED  BY <2>1, GoneFacts, UnlockFacts DEF Keeps, TypeOK
<1>22. CASE Crash(q)
  <2>1. Gone(q, "crashed") /\ Unlock(q) /\ settled' \subseteq settled
    BY <1>22 DEF Crash, Gone
  <2> QED  BY <2>1, GoneFacts, UnlockFacts DEF Keeps, TypeOK
<1>23. CASE Snapshot(q)
  <2>1. At(q, "locking") /\ commit[q] \in Package
    BY <1>23 DEF Snapshot, TxBelongs, TxIsOf
  <2>2. Files[commit[q]][Declared] \in SUBSET Path /\ Roots(q, commit[q]) \in SUBSET Path
    BY <2>1, FilesFacts, LocksFacts DEF Roots
  <2>3. [f \in Roots(q, commit[q]) |-> Disk(q)[f]] \in Backup
    BY <2>2, LocksFacts DEF Tree, Backup
  <2>4. tx' \in [Process -> {NoTx} \cup Transaction] /\ \A p \in Process \ {q} : tx'[p] = tx[p]
    BY <1>23, <2>2, <2>3, LocksFacts DEF Snapshot, TypeOK, Transaction
  <2>5. /\ receiptLock' \in [Lockfiles -> Process \cup {Nobody}]
        /\ \A p \in Process \ {q} : receiptLock[Lockfile(p)] = p => receiptLock'[Lockfile(p)] = p
    BY <1>23, LocksFacts, VendorInstallAssumption
    DEF Snapshot, LockReceipts, ReceiptsFree, TypeOK
  <2> QED  BY <1>23, <2>4, <2>5 DEF Snapshot, Goto, Keeps, TypeOK, files, Label
<1> QED
  BY <1>1, <1>2, <1>3, <1>4, <1>5, <1>6, <1>7, <1>8, <1>9, <1>10, <1>11, <1>12, <1>13, <1>14,
     <1>15, <1>16, <1>17, <1>18, <1>19, <1>20, <1>21, <1>22, <1>23
  DEF Begin, Proceeds, Mishap

-----------------------------------------------------------------------------
(* The process that makes the step holds the locks that it needs, has a    *)
(* transaction when it should, and goes through its packages in order.     *)
LEMMA StepControl ==
  ASSUME IInv, NEW q \in Process, Begin(q) \/ Proceeds(q) \/ Mishap(q)
  PROVE  LocksAreHeld' /\ TxBelongs' /\ PullsAreAhead'
<1> USE DEF IInv
<1>0. TypeOK' /\ Keeps(q)
  BY StepKeeps
<1>a. ASSUME NEW p \in Process, p # q
      PROVE  HoldsLocks(p)' /\ TxIsOf(p)' /\ IsAhead(p)'
  BY <1>0, <1>a DEF Keeps, LocksAreHeld, HoldsLocks, TxBelongs, TxIsOf, PullsAreAhead, IsAhead,
                    InTx, Pulling, At, Project, Lockfile
<1> SUFFICES HoldsLocks(q)' /\ TxIsOf(q)' /\ IsAhead(q)'
  BY <1>a DEF LocksAreHeld, TxBelongs, PullsAreAhead
<1>b. HoldsLocks(q) /\ TxIsOf(q) /\ IsAhead(q) /\ layout' = layout /\ TypeOK
  BY <1>0 DEF Keeps, LocksAreHeld, TxBelongs, PullsAreAhead
<1> USE DEF HoldsLocks, TxIsOf, IsAhead, InTx, Pulling, At, Project, Lockfile
<1>1. ASSUME commit[q] \in Package, Pulling(q), Proceed(q)
      PROVE  HoldsLocks(q)' /\ TxIsOf(q)' /\ IsAhead(q)'
  <2>1. /\ pc'[q] = "run" /\ commit'[q] = commit[q] + 1 /\ tx'[q] = NoTx
        /\ \A j \in Package : j # commit[q] => prep'[q][j] = prep[q][j]
    BY <1>1, <1>b, ProceedFacts
  <2>2. \A j \in Package : j >= commit[q] + 1 => prep[q][j] \in {"ready", "recheck"}
    BY <1>1, <1>b, VendorInstallAssumption DEF Package
  <2>3. \A j \in Package : j >= commit[q] + 1 => j # commit[q]
    BY <1>1, VendorInstallAssumption DEF Package
  <2>4. \A j \in Package : j >= commit'[q] => prep'[q][j] \in {"ready", "recheck"}
    BY <2>1, <2>2, <2>3
  <2>5. \A j \in Package : j > commit'[q] \/ j = commit'[q] => j >= commit'[q]
    BY <2>1, <1>1, VendorInstallAssumption DEF Package
  <2> QED  BY <2>1, <2>4, <2>5
<1>2. ASSUME NEW label \in {"ended", "crashed"}, Gone(q, label)
      PROVE  HoldsLocks(q)' /\ TxIsOf(q)' /\ IsAhead(q)'
  BY <1>2, <1>b, GoneFacts
<1>3. ASSUME NEW needed, StartBatch(q, needed)
      PROVE  HoldsLocks(q)' /\ TxIsOf(q)' /\ IsAhead(q)'
  <2>1. pc[q] = "idle" /\ pc'[q] = "run" /\ tx' = tx
        /\ \A j \in Package : prep'[q][j] \in {"ready", "recheck"}
    BY <1>3, <1>b, StartFacts
  <2> QED  BY <2>1, <1>b
<1>4. CASE Preflight(q) \/ PreflightOfRefresh(q)
  BY <1>3, <1>4 DEF Preflight, PreflightOfRefresh
<1>5. CASE PreflightRefuses(q)
  BY <1>5, <1>b DEF PreflightRefuses, TypeOK, Goto
<1>6. CASE LockForClean(q)
  BY <1>6, <1>b DEF LockForClean, LockProject, TypeOK, Goto, Projects
<1>7. CASE Recheck(q)
  <2>1. PICK i \in Package :
          /\ prep[q][i] = "recheck" /\ pc[q] = "run" /\ commit[q] = i
          /\ prep' = [prep EXCEPT ![q][i] = IF Materialized(q, i) THEN "unchanged" ELSE "ready"]
    BY <1>7 DEF Recheck, Rechecked, Barrier
  <2>2. /\ prep'[q][i] \in {"unchanged", "ready"}
        /\ \A j \in Package : j # i => prep'[q][j] = prep[q][j]
    BY <2>1, <1>b DEF TypeOK, PrepSet
  <2>3. ~(i > i)
    BY VendorInstallAssumption DEF Package
  <2> QED  BY <1>7, <2>1, <2>2, <2>3, <1>b DEF Recheck, locks
<1>8. CASE CommitUnchanged(q) \/ CommitFailed(q)
  BY <1>1, <1>8 DEF CommitUnchanged, CommitFailed, Commits, Done, Failed
<1>9. CASE Lock(q)
  BY <1>9, <1>b DEF Lock, LockProject, Commits, TypeOK, Goto, Projects
<1>10. CASE Snapshot(q)
  <2>1. tx'[q] # NoTx
    <3> DEFINE T(l, m, n, o) == [left |-> l, snapshot |-> m, loaded |-> n, before |-> o]
    <3>1. \A l, m, n, o : T(l, m, n, o) # NoTx
      BY DEF NoTx
    <3> QED  BY <1>10, <1>b, <3>1 DEF Snapshot, TypeOK
  <2>2. pc[q] = "locking" /\ pc'[q] = "copy" /\ receiptLock'[Lockfile(q)] = q
    BY <1>10, <1>b, LocksFacts DEF Snapshot, LockReceipts, TypeOK, Goto
  <2> QED  BY <1>10, <1>b, <2>1, <2>2 DEF Snapshot
<1>11. CASE Copy(q) \/ Prune(q)
  <2>1. pc[q] = "copy" /\ tx[q] \in Transaction
    BY <1>11, TxFacts DEF Copy, Prune
  <2>2. tx'[q] \in Transaction
    <3>1. CASE Copy(q)
      <4>1. PICK f \in tx[q].left : tx' = [tx EXCEPT ![q].left = @ \ {f}]
        BY <3>1 DEF Copy
      <4>2. tx[q].left \ {f} \in SUBSET Path
        BY <2>1 DEF Transaction
      <4> QED  BY <4>1, <4>2, <2>1, <1>b DEF TypeOK, Transaction
    <3>2. CASE Prune(q)
      BY <3>2, <2>1, <1>b, LocksFacts DEF Prune, TypeOK, Transaction
    <3> QED  BY <3>1, <3>2, <1>11
  <2>3. \A t \in Transaction : t # NoTx
    BY DEF Transaction, NoTx
  <2>4. pc'[q] \in {"copy", "save"}
    BY <1>11, <2>1, <1>b DEF Copy, Prune, Goto, TypeOK
  <2> QED  BY <1>11, <1>b, <2>1, <2>2, <2>3, <2>4 DEF Copy, Prune, locks
<1>12. CASE PruneFails(q) \/ CopyFails(q) \/ SaveFails(q) \/ RestoreFails(q)
  <2>1. /\ pc[q] \in {"copy", "save", "restore"} /\ pc'[q] \in {"restore", "torn"}
        /\ UNCHANGED <<locks, prep, commit, tx>>
    BY <1>12, <1>b DEF PruneFails, CopyFails, SaveFails, RestoreFails, Goto, TypeOK
  <2> QED  BY <2>1, <1>b DEF locks
<1>13. CASE Save(q) \/ Restore(q) \/ LeaveTorn(q) \/ SnapshotFails(q)
  BY <1>1, <1>13, <1>b DEF Save, Restore, LeaveTorn, SnapshotFails, Done, Failed
<1>14. CASE End(q) \/ Cancelled(q) \/ Crash(q)
  BY <1>2, <1>14 DEF End, Cancelled, Crash
<1>15. CASE Clean(q)
  <2>1. pc[q] = "cleaning" /\ pc'[q] = "ended" /\ tx' = tx
    BY <1>15, <1>b DEF Clean, Goto, TypeOK
  <2> QED  BY <2>1, <1>b
<1> QED
  BY <1>4, <1>5, <1>6, <1>7, <1>8, <1>9, <1>10, <1>11, <1>12, <1>13, <1>14, <1>15
  DEF Begin, Proceeds, Mishap

-----------------------------------------------------------------------------
(* A transaction has changed exactly what its step says.                   *)
LEMMA StepProgress ==
  ASSUME IInv, NEW q \in Process, Begin(q) \/ Proceeds(q) \/ Mishap(q)
  PROVE  TxProgresses'
<1> USE DEF IInv
<1>0. TypeOK' /\ Keeps(q)
  BY StepKeeps
<1>a. ASSUME NEW p \in Process, p # q, (InTx(p) /\ ~At(p, "torn"))'
      PROVE  TxProgress(p)'
  <2>1. /\ pc'[p] = pc[p] /\ commit'[p] = commit[p] /\ tx'[p] = tx[p] /\ layout' = layout
        /\ InTx(p) /\ ~At(p, "torn")
    BY <1>0, <1>a DEF Keeps, InTx, At
  <2>2. Disk(p)' = Disk(p) /\ Receipts(p)' = Receipts(p) /\ TxProgress(p)
    BY <1>0, <1>a, <2>1, TxFacts DEF Keeps, Disk, Receipts, Project, Lockfile
  <2> QED  BY <2>1, <2>2 DEF TxProgress, New, Found, FoundFiles, FoundElsewhere, At
<1> SUFFICES ASSUME pc'[q] \in {"copy", "save", "restore"}
             PROVE  TxProgress(q)'
  BY <1>a DEF TxProgresses, InTx, At
<1>b. layout' = layout /\ TypeOK
  BY <1>0 DEF Keeps
<1> USE DEF InTx, At
<1>1. ASSUME pc[q] \in {"copy", "save", "restore"}, commit' = commit, tx'[q].before = tx[q].before
      PROVE  /\ TxProgress(q) /\ tx[q] \in Transaction
             /\ (New(q))' = New(q) /\ (FoundFiles(q))' = FoundFiles(q)
             /\ (FoundElsewhere(q))' = FoundElsewhere(q)
             /\ \A f : (Found(q, f))' = Found(q, f)
  BY <1>1, TxFacts DEF New, Found, FoundFiles, FoundElsewhere
<1>2. CASE Snapshot(q)
  <2> DEFINE i == commit[q]
  <2>1. /\ tx'[q] = [left     |-> Files[i][Declared],
                     snapshot |-> [f \in Roots(q, i) |-> Disk(q)[f]],
                     loaded   |-> Receipts(q),
                     before   |-> [disk |-> Disk(q), receipts |-> Receipts(q)]]
        /\ pc'[q] = "copy" /\ commit' = commit /\ disk' = disk /\ receipts' = receipts
    BY <1>2, <1>b DEF Snapshot, Goto, TypeOK, files
  <2>2. Disk(q)' = Disk(q) /\ Receipts(q)' = Receipts(q)
    BY <2>1, <1>b DEF Disk, Receipts, Project, Lockfile
  <2>3. /\ New(q)' = Files[i][Declared] /\ \A f : Found(q, f)' = Disk(q)[f]
        /\ FoundFiles(q)' = FilesIn(i, Receipts(q)[i])
    BY <2>1 DEF New, Found, FoundFiles
  <2>4. Roots(q, i) = New(q)' \cup FoundFiles(q)'
    BY <2>3 DEF Roots
  <2> HIDE DEF i
  <2>5. tx'[q].snapshot = [f \in New(q)' \cup FoundFiles(q)' |-> Found(q, f)']
    BY <2>1, <2>3, <2>4
  <2> QED  BY <2>1, <2>2, <2>3, <2>5 DEF TxProgress
<1>3. CASE Copy(q)
  <2>1. PICK f \in tx[q].left :
          /\ Write(q, [Disk(q) EXCEPT ![f] = Content(commit[q], Declared)])
          /\ tx' = [tx EXCEPT ![q].left = @ \ {f}]
    BY <1>3 DEF Copy
  <2>2. pc[q] = "copy" /\ pc' = pc /\ commit' = commit /\ receipts' = receipts
    BY <1>3 DEF Copy
  <2>3. tx[q] \in Transaction
    BY <2>2, TxFacts
  <2>4. /\ tx'[q].left = tx[q].left \ {f} /\ tx'[q].snapshot = tx[q].snapshot
        /\ tx'[q].before = tx[q].before
    BY <2>1, <2>3, <1>b DEF TypeOK, Transaction
  <2>5. /\ TxProgress(q)
        /\ New(q)' = New(q) /\ FoundFiles(q)' = FoundFiles(q)
        /\ \A g : Found(q, g)' = Found(q, g)
    BY <1>1, <2>2, <2>4
  <2>6. Receipts(q)' = Receipts(q)
    BY <2>2, <1>b DEF Receipts, Lockfile
  <2>7. \A g \in Path : Disk(q)'[g] = IF g = f THEN Content(commit[q], Declared) ELSE Disk(q)[g]
    BY <2>1, <1>b, LocksFacts DEF Write, Disk, Project, TypeOK, Tree
  <2>8. New(q) \subseteq Path /\ f \in New(q)
    BY <2>2, <2>5, TxFacts, FilesFacts DEF New, TxProgress
  <2> QED  BY <2>2, <2>4, <2>5, <2>6, <2>7, <2>8 DEF TxProgress
<1>4. CASE CopyFails(q) \/ SaveFails(q)
  <2>1. /\ pc[q] \in {"copy", "save"} /\ pc'[q] = "restore"
        /\ UNCHANGED <<commit, tx, disk, receipts>>
    BY <1>4, <1>b DEF CopyFails, SaveFails, Goto, TypeOK, files
  <2>2. Disk(q)' = Disk(q) /\ Receipts(q)' = Receipts(q)
    BY <2>1, <1>b DEF Disk, Receipts, Project, Lockfile
  <2> QED  BY <1>1, <2>1, <2>2 DEF TxProgress
<1>5. ASSUME NEW pruned \in SUBSET (Stale(q, commit[q]) \ Modified(q, commit[q])),
             Write(q, Without(q, pruned)),
             pc[q] = "copy", tx[q].left = {}, commit' = commit, receipts' = receipts,
             tx'[q].snapshot = tx[q].snapshot, tx'[q].before = tx[q].before
      PROVE  /\ TxProgress(q) /\ tx[q] \in Transaction
             /\ New(q)' = New(q) /\ FoundFiles(q)' = FoundFiles(q)
             /\ FoundElsewhere(q)' = FoundElsewhere(q)
             /\ \A f : Found(q, f)' = Found(q, f)
             /\ Receipts(q)' = Receipts(q)
             /\ \A f \in New(q) : Disk(q)'[f] = Content(commit[q], Declared)
             /\ \A f \in Path \ New(q) :
                  \/ Disk(q)'[f] = Found(q, f)
                  \/ Disk(q)'[f] = Absent /\ f \in FoundFiles(q) \ FoundElsewhere(q)
  <2>1. /\ TxProgress(q) /\ tx[q] \in Transaction
        /\ New(q)' = New(q) /\ FoundFiles(q)' = FoundFiles(q)
        /\ FoundElsewhere(q)' = FoundElsewhere(q)
        /\ \A f : Found(q, f)' = Found(q, f)
    BY <1>1, <1>5
  <2>2. \A f \in Path : Disk(q)'[f] = IF f \in pruned THEN Absent ELSE Disk(q)[f]
    BY <1>5, <1>b, WithoutFacts, WriteFacts DEF Disk, Project
  <2>3. pruned \subseteq FoundFiles(q) \ (New(q) \cup FoundElsewhere(q))
    BY <1>5, <2>1 DEF Stale, OwnedByOthers, TxProgress, FoundFiles, FoundElsewhere, New
  <2>4. New(q) \subseteq Path
    BY <1>5, TxFacts, FilesFacts DEF New
  <2>5. /\ \A f \in New(q) : Disk(q)[f] = Content(commit[q], Declared)
        /\ \A f \in Path \ New(q) : Disk(q)[f] = Found(q, f)
    BY <1>5, <2>1 DEF TxProgress
  <2>6. Receipts(q)' = Receipts(q)
    BY <1>5, <1>b DEF Receipts, Lockfile
  <2> QED  BY <2>1, <2>2, <2>3, <2>4, <2>5, <2>6
<1>6. CASE Prune(q)
  <2>1. /\ pc[q] = "copy" /\ tx[q].left = {} /\ Modified(q, commit[q]) = {} /\ pc'[q] = "save"
        /\ Write(q, Without(q, Stale(q, commit[q]))) /\ commit' = commit /\ receipts' = receipts
    BY <1>6, <1>b DEF Prune, Goto, TypeOK
  <2>2. /\ tx'[q].snapshot = tx[q].snapshot /\ tx'[q].before = tx[q].before
        /\ tx'[q].loaded = Receipts(q)
    BY <1>6, <1>b, <2>1, TxFacts DEF Prune, TypeOK, Transaction
  <2>3. Stale(q, commit[q]) \in SUBSET (Stale(q, commit[q]) \ Modified(q, commit[q]))
    BY <2>1
  <2> QED  BY <1>5, <2>1, <2>2, <2>3 DEF TxProgress
<1>7. CASE PruneFails(q)
  <2>1. /\ pc[q] = "copy" /\ tx[q].left = {} /\ pc'[q] = "restore"
        /\ commit' = commit /\ receipts' = receipts /\ tx' = tx
    BY <1>7, <1>b DEF PruneFails, Goto, TypeOK
  <2>2. PICK pruned \in SUBSET (Stale(q, commit[q]) \ Modified(q, commit[q])) :
          Write(q, Without(q, pruned))
    BY <1>7 DEF PruneFails
  <2> QED  BY <1>5, <2>1, <2>2 DEF TxProgress
<1>8. ASSUME Begin(q) \/ Recheck(q) \/ CommitUnchanged(q) \/ Lock(q) \/ End(q) \/ Clean(q)
             \/ CommitFailed(q) \/ Cancelled(q) \/ Crash(q) \/ Save(q) \/ Restore(q)
             \/ LeaveTorn(q) \/ SnapshotFails(q) \/ RestoreFails(q)
      PROVE  FALSE
  <2>1. CASE Recheck(q)
    BY <2>1 DEF Recheck, Rechecked, Barrier
  <2>2. CASE CommitUnchanged(q) \/ CommitFailed(q) \/ Save(q) \/ Restore(q) \/ LeaveTorn(q)
             \/ SnapshotFails(q)
    BY <2>2, <1>b DEF CommitUnchanged, CommitFailed, Save, Restore, LeaveTorn, SnapshotFails,
                      Done, Failed, Proceed, Goto, TypeOK
  <2>3. CASE Begin(q)
    BY <2>3, <1>b DEF Begin, Preflight, PreflightOfRefresh, StartBatch, PreflightRefuses,
                      LockForClean, Goto, TypeOK
  <2>4. CASE Lock(q) \/ Clean(q) \/ RestoreFails(q)
    BY <2>4, <1>b DEF Lock, Clean, RestoreFails, Goto, TypeOK
  <2>5. CASE End(q) \/ Cancelled(q) \/ Crash(q)
    BY <2>5, <1>b DEF End, Cancelled, Crash, Gone, Goto, TypeOK
  <2> QED  BY <1>8, <2>1, <2>2, <2>3, <2>4, <2>5
<1> QED
  BY <1>2, <1>3, <1>4, <1>5, <1>6, <1>7, <1>8 DEF Proceeds, Mishap

-----------------------------------------------------------------------------
(* A file of a settled pull is that of its last package, or some pull of   *)
(* the project will install that package.                                  *)
WinsOrWill(p, f, m) ==
  \/ Disk(p)[f] = Content(m, Declared)
  \/ \E q \in Process : Project(q) = Project(p) /\ WillInstall(q, m)

\* Removing stale files removes no winner.
LEMMA PruningKeepsWinners ==
  ASSUME IInv, NEW q \in Process, InTx(q),
         NEW pruned \in SUBSET (Stale(q, commit[q]) \ Modified(q, commit[q])),
         NEW f \in Path, NEW m \in Package, Winner(f, m),
         Disk(q)[f] = Content(m, Declared)
  PROVE  f \notin pruned
<1> SUFFICES ASSUME f \in pruned PROVE FALSE
  OBVIOUS
<1>1. commit[q] \in Package /\ TypeOK
  BY TxFacts DEF IInv
<1>2. /\ f \in FilesIn(commit[q], Receipts(q)[commit[q]]) /\ f \notin Files[commit[q]][Declared]
      /\ Disk(q)[f] = Content(commit[q], Receipts(q)[commit[q]])
  BY DEF Stale, Modified
<1>3. Receipts(q)[commit[q]] \in Version
  <2>1. Receipts(q)[commit[q]] \in {0} \cup Version
    BY <1>1, LocksFacts DEF ReceiptSet
  <2> QED  BY <1>2, <2>1 DEF FilesIn
<1>4. m = commit[q]
  BY <1>1, <1>2, <1>3, ContentFacts DEF Version
<1> QED  BY <1>2, <1>4 DEF Winner, Claimants

LEMMA StepWins ==
  ASSUME IInv, NEW q \in Process, Begin(q) \/ Proceeds(q) \/ Mishap(q)
  PROVE  WinnersWillWin'
<1> USE DEF IInv
<1>0. TypeOK /\ TypeOK' /\ Keeps(q) /\ layout' = layout
  BY StepKeeps DEF Keeps
<1> SUFFICES ASSUME NEW p \in settled', NEW f \in Path, NEW m \in Package, Winner(f, m)
             PROVE  WinsOrWill(p, f, m)'
  BY <1>0 DEF WinnersWillWin, WinsOrWill, Winner, Claimants
<1>a. p \in Process /\ m \in Int /\ commit[q] \in Int
  BY <1>0, VendorInstallAssumption DEF TypeOK, Package
\* The other pulls go on as before.
<1>b. ASSUME NEW r \in Process \ {q}, Project(r) = Project(p), WillInstall(r, m)
      PROVE  WinsOrWill(p, f, m)'
  BY <1>0, <1>b DEF Keeps, WinsOrWill, WillInstall, Active, Project
<1>c. p \in settled => WinsOrWill(p, f, m)
  BY DEF WinnersWillWin, WinsOrWill
\* It suffices that the file remains, and that the pull of q installs it or will.
<1>d. ASSUME p \in settled,
             Disk(p)[f] = Content(m, Declared) => WinsOrWill(p, f, m)',
             Project(q) = Project(p) /\ WillInstall(q, m) => WinsOrWill(p, f, m)'
      PROVE  WinsOrWill(p, f, m)'
  BY <1>b, <1>c, <1>d DEF WinsOrWill
<1>e. ASSUME Project(q) = Project(p), WillInstall(q, m)'
      PROVE  WinsOrWill(p, f, m)'
  BY <1>0, <1>e DEF WinsOrWill, Project
<1>f. disk' = disk => Disk(p)' = Disk(p) /\ Disk(q)' = Disk(q)
  BY <1>0 DEF Disk, Project
<1>g. ASSUME Project(q) = Project(p) PROVE Disk(p) = Disk(q) /\ Disk(p)' = Disk(q)'
  BY <1>g, <1>0 DEF Disk, Project
<1>h. ASSUME Disk(p)'[f] = Content(m, Declared) PROVE WinsOrWill(p, f, m)'
  BY <1>h DEF WinsOrWill
<1>1. CASE Preflight(q) \/ PreflightOfRefresh(q)
  <2>1. PICK needed : StartBatch(q, needed)
    BY <1>1 DEF Preflight, PreflightOfRefresh
  <2>2. /\ pc[q] = "idle" /\ pc'[q] = "run" /\ commit' = commit /\ disk' = disk
        /\ settled' = settled \cup {q} /\ prep'[q][m] \in {"ready", "recheck"}
    BY <2>1, <1>0, StartFacts DEF At
  <2>3. commit[q] = 1 /\ 1 <= m
    BY <2>2, VendorInstallAssumption DEF PullsAreAhead, IsAhead, At, Package
  <2>4. WillInstall(q, m)'
    BY <2>2, <2>3 DEF WillInstall, Active
  <2>5. CASE Project(q) = Project(p)
    BY <2>4, <2>5, <1>e
  <2>6. CASE Project(q) # Project(p)
    BY <2>2, <2>6, <1>d, <1>f, <1>h
  <2> QED  BY <2>5, <2>6
<1>2. CASE \/ PreflightRefuses(q) \/ LockForClean(q) \/ Lock(q) \/ Snapshot(q)
           \/ CopyFails(q) \/ SaveFails(q)
  <2>1. /\ disk' = disk /\ settled' = settled /\ commit' = commit /\ prep' = prep
        /\ pc[q] = "idle" \/ pc'[q] \in {"locking", "copy", "restore"}
    BY <1>2, <1>0 DEF PreflightRefuses, LockForClean, Lock, Snapshot, CopyFails, SaveFails,
                      files, Goto, At, TypeOK
  <2>2. WillInstall(q, m) => WillInstall(q, m)'
    BY <2>1 DEF WillInstall, Active
  <2> QED  BY <2>1, <2>2, <1>d, <1>e, <1>f, <1>h
<1>3. CASE CommitFailed(q) \/ SnapshotFails(q) \/ Restore(q) \/ LeaveTorn(q)
           \/ Cancelled(q) \/ Crash(q) \/ Clean(q)
  BY <1>3 DEF CommitFailed, SnapshotFails, Restore, LeaveTorn, Cancelled, Crash, Clean, Failed
<1>4. CASE Recheck(q)
  <2>1. PICK i \in Package :
          /\ prep[q][i] = "recheck" /\ pc[q] = "run" /\ commit[q] = i
          /\ prep' = [prep EXCEPT ![q][i] = IF Materialized(q, i) THEN "unchanged" ELSE "ready"]
          /\ disk' = disk /\ settled' = settled /\ pc' = pc /\ commit' = commit
    BY <1>4 DEF Recheck, Rechecked, Barrier, At, files
  <2>2. /\ prep'[q][i] = IF Materialized(q, i) THEN "unchanged" ELSE "ready"
        /\ m # i => prep'[q][m] = prep[q][m]
    BY <2>1, <1>0 DEF TypeOK, PrepSet
  <2>3. CASE m # i \/ ~Materialized(q, i)
    <3>1. WillInstall(q, m) => WillInstall(q, m)'
      BY <2>1, <2>2, <2>3 DEF WillInstall, Active
    <3> QED  BY <2>1, <3>1, <1>d, <1>e, <1>f, <1>h
  <2>4. CASE m = i /\ Materialized(q, i)
    <3>1. Disk(q)[f] = Content(m, Declared)
      BY <2>4 DEF Materialized, Winner, Claimants
    <3> QED  BY <2>1, <3>1, <1>d, <1>f, <1>g, <1>h
  <2> QED  BY <2>3, <2>4
\* When a pull goes on, it has installed what it leaves behind.
<1>5. ASSUME p \in settled, commit[q] \in Package, Pulling(q), Proceed(q), disk' = disk,
             m = commit[q] => prep[q][m] = "unchanged" \/ Disk(q)[f] = Content(m, Declared)
      PROVE  WinsOrWill(p, f, m)'
  <2>1. /\ pc'[q] = "run" /\ commit'[q] = commit[q] + 1
        /\ m # commit[q] => prep'[q][m] = prep[q][m]
    BY <1>5, <1>0, ProceedFacts
  <2>2. CASE m = commit[q]
    <3>1. CASE prep[q][m] = "unchanged"
      BY <1>5, <3>1, <1>d, <1>f, <1>h DEF WillInstall
    <3>2. CASE Disk(q)[f] = Content(m, Declared)
      BY <1>5, <3>2, <1>d, <1>f, <1>g, <1>h
    <3> QED  BY <2>2, <3>1, <3>2, <1>5
  <2>3. CASE m # commit[q]
    <3>1. commit[q] <= m => commit'[q] <= m
      BY <2>1, <2>3, <1>a
    <3>2. WillInstall(q, m) => WillInstall(q, m)'
      BY <2>1, <2>3, <3>1 DEF WillInstall, Active
    <3> QED  BY <1>5, <3>2, <1>d, <1>e, <1>f, <1>h
  <2> QED  BY <2>2, <2>3
<1>6. CASE CommitUnchanged(q)
  <2>1. /\ At(q, "run") /\ commit[q] \in Package /\ prep[q][commit[q]] = "unchanged"
        /\ Proceed(q) /\ disk' = disk /\ settled' = settled
    BY <1>6 DEF CommitUnchanged, Commits, Done, files
  <2> QED  BY <2>1, <1>5 DEF Pulling, At
<1>7. CASE Save(q)
  <2>1. /\ At(q, "save") /\ Proceed(q) /\ disk' = disk
        /\ settled' = {} \/ settled' = settled
    BY <1>7 DEF Save, Done, Failed
  <2>2. InTx(q) /\ Pulling(q) /\ ~At(q, "torn")
    BY <2>1 DEF At, InTx, Pulling
  <2>3. m = commit[q] => Disk(q)[f] = Content(m, Declared)
    <3>1. \A g \in New(q) : Disk(q)[g] = Content(commit[q], Declared)
      BY <2>1, <2>2, TxFacts DEF TxProgress
    <3>2. m = commit[q] => f \in New(q)
      BY DEF New, Winner, Claimants
    <3> QED  BY <3>1, <3>2
  <2> QED  BY <2>1, <2>2, <2>3, TxFacts, <1>5
<1>8. CASE End(q)
  <2>1. /\ disk' = disk /\ settled' = settled /\ commit[q] \notin Package
        /\ commit[q] \in 1 .. Count + 1
    BY <1>8, <1>0 DEF End, Gone, files, TypeOK
  <2>2. ~WillInstall(q, m)
    <3>1. ~(commit[q] <= m)
      BY <2>1, VendorInstallAssumption DEF Package
    <3> QED  BY <3>1 DEF WillInstall
  <2> QED  BY <2>1, <2>2, <1>d, <1>f, <1>h
\* While a pull stays in its transaction, it will install what it would.
<1>9. ASSUME InTx(q), InTx(q)', commit' = commit, prep' = prep
      PROVE  /\ WillInstall(q, m) => WillInstall(q, m)'
             /\ f \in New(q) => WillInstall(q, m)'
  <2>1. commit[q] \in Package /\ prep[q][commit[q]] = "ready" /\ Pulling(q)
    BY <1>9, TxFacts DEF InTx, Pulling
  <2>2. f \in New(q) => commit[q] <= m
    BY <2>1 DEF New, Winner, Claimants
  <2>3. commit[q] <= m => m = commit[q] \/ m > commit[q]
    BY <1>a
  <2>4. commit[q] <= m => prep[q][m] \in {"ready", "recheck"}
    BY <2>1, <2>3 DEF PullsAreAhead, IsAhead
  <2> QED  BY <1>9, <2>2, <2>4 DEF WillInstall, Active, InTx
<1>10. ASSUME p \in settled, Project(p) # Project(q), NEW written \in Tree, Write(q, written)
       PROVE  WinsOrWill(p, f, m)'
  <2>1. Disk(p)' = Disk(p)
    BY <1>10, <1>0, <1>a, WriteFacts DEF Disk, Project
  <2> QED  BY <1>10, <2>1, <1>d, <1>h
<1>11. CASE Copy(q)
  <2>1. PICK g \in tx[q].left : Write(q, [Disk(q) EXCEPT ![g] = Content(commit[q], Declared)])
    BY <1>11 DEF Copy
  <2>2. /\ InTx(q) /\ InTx(q)' /\ At(q, "copy")
        /\ commit' = commit /\ prep' = prep /\ settled' = settled
    BY <1>11 DEF Copy, At, InTx
  <2>3. g \in New(q) /\ New(q) \subseteq Path
    BY <2>2, TxFacts, FilesFacts DEF TxProgress, New, At
  <2>4. [Disk(q) EXCEPT ![g] = Content(commit[q], Declared)] \in Tree
    BY <2>2, <1>0, TxFacts, LocksFacts, ContentFacts DEF Tree, Version
  <2>5. Disk(q)'[f] = IF f = g THEN Content(commit[q], Declared) ELSE Disk(q)[f]
    BY <2>1, <2>4, <1>0, WriteFacts, LocksFacts DEF Disk, Project, Tree
  <2>6. CASE Project(p) # Project(q)
    BY <2>1, <2>2, <2>4, <2>6, <1>10
  <2>7. CASE Project(p) = Project(q)
    <3>1. CASE f = g
      BY <2>2, <2>3, <2>7, <3>1, <1>9, <1>e
    <3>2. CASE f # g
      BY <2>2, <2>5, <2>7, <3>2, <1>9, <1>d, <1>e, <1>g, <1>h
    <3> QED  BY <3>1, <3>2
  <2> QED  BY <2>6, <2>7
<1>12. CASE Prune(q) \/ PruneFails(q)
  <2>1. PICK pruned \in SUBSET (Stale(q, commit[q]) \ Modified(q, commit[q])) :
          Write(q, Without(q, pruned))
    BY <1>12 DEF Prune, PruneFails
  <2>2. InTx(q) /\ InTx(q)' /\ commit' = commit /\ prep' = prep /\ settled' = settled
    BY <1>12, <1>0 DEF Prune, PruneFails, At, InTx, Goto, TypeOK
  <2>3. Disk(q)'[f] = IF f \in pruned THEN Absent ELSE Disk(q)[f]
    BY <2>1, <1>0, WriteFacts, WithoutFacts DEF Disk, Project
  <2>4. Disk(q)[f] = Content(m, Declared) => Disk(q)'[f] = Content(m, Declared)
    BY <2>2, <2>3, PruningKeepsWinners
  <2>5. CASE Project(p) # Project(q)
    BY <2>1, <2>2, <2>5, <1>0, <1>10, WithoutFacts
  <2>6. CASE Project(p) = Project(q)
    BY <2>2, <2>4, <2>6, <1>9, <1>d, <1>e, <1>g, <1>h
  <2> QED  BY <2>5, <2>6
<1>13. CASE RestoreFails(q)
  <2>1. PICK paths \in SUBSET DOMAIN tx[q].snapshot : Write(q, Restored(q, paths))
    BY <1>13 DEF RestoreFails
  <2>2. /\ InTx(q) /\ InTx(q)' /\ At(q, "restore") /\ commit' = commit /\ prep' = prep
        /\ settled' = settled
    BY <1>13, <1>0 DEF RestoreFails, At, InTx, Goto, TypeOK
  <2>3. /\ Restored(q, paths) \in Tree
        /\ Restored(q, paths)[f] = IF f \in paths THEN Found(q, f) ELSE Disk(q)[f]
    BY <2>2, RestoredFacts
  <2>4. Disk(q)'[f] = IF f \in paths THEN Found(q, f) ELSE Disk(q)[f]
    BY <2>1, <2>3, <1>0, WriteFacts DEF Disk, Project
  <2>5. CASE Project(p) # Project(q)
    BY <2>1, <2>2, <2>3, <2>5, <1>10
  <2>6. CASE Project(p) = Project(q) /\ f \in New(q)
    BY <2>2, <2>6, <1>9, <1>e
  <2>7. CASE Project(p) = Project(q) /\ f \notin New(q)
    <3>1. Disk(q)[f] = Found(q, f) \/ Disk(q)[f] = Absent
      BY <2>2, <2>7, TxFacts DEF TxProgress, At
    <3>2. Disk(q)[f] = Content(m, Declared) => Disk(q)'[f] = Content(m, Declared)
      BY <2>4, <3>1, ContentFacts DEF Version
    <3> QED  BY <2>2, <2>7, <3>2, <1>9, <1>d, <1>e, <1>g, <1>h
  <2> QED  BY <2>5, <2>6, <2>7
<1> QED
  BY <1>1, <1>2, <1>3, <1>4, <1>6, <1>7, <1>8, <1>11, <1>12, <1>13 DEF Begin, Proceeds, Mishap

-----------------------------------------------------------------------------
LEMMA InitInv == Init => IInv
<1> SUFFICES ASSUME Init PROVE IInv
  OBVIOUS
<1>1. TypeOK
  <2>1. disk \in [Projects -> Tree]
    BY DEF Init, Projects, Project, Tree, FileContent, Version
  <2>2. receipts \in [Lockfiles -> ReceiptSet]
    BY DEF Init, Lockfiles, Lockfile, ReceiptSet, Version
  <2>3. 1 \in 1 .. Count + 1
    BY VendorInstallAssumption
  <2> QED  BY <2>1, <2>2, <2>3 DEF Init, TypeOK, NoPrep, Label, PrepSet
<1>2. TxProgresses
  BY DEF Init, TxProgresses, InTx
<1> QED  BY <1>1, <1>2 DEF Init, IInv, LocksAreHeld, HoldsLocks, TxBelongs, TxIsOf, PullsAreAhead,
                           IsAhead, WinnersWillWin, InTx, Pulling, At

LEMMA NextInv == IInv /\ [Next]_vars => IInv'
<1> SUFFICES ASSUME IInv, [Next]_vars PROVE IInv'
  OBVIOUS
<1>1. CASE Next
  <2>1. PICK q \in Process : Begin(q) \/ Proceeds(q) \/ Mishap(q)
    BY <1>1 DEF Next
  <2> QED  BY <2>1, StepKeeps, StepControl, StepProgress, StepWins DEF IInv
<1>2. CASE UNCHANGED vars
  <2>1. UNCHANGED <<layout, disk, receipts, projectLock, receiptLock, pc, prep,
                    commit, tx, settled>>
    BY <1>2 DEF vars, files, locks
  <2> USE DEF IInv
  <2>2. TypeOK'
    BY <2>1 DEF TypeOK, Projects, Lockfiles, Project, Lockfile
  <2>3. (LocksAreHeld /\ TxBelongs /\ PullsAreAhead)'
    BY <2>1 DEF LocksAreHeld, HoldsLocks, TxBelongs, TxIsOf, PullsAreAhead, IsAhead, InTx, Pulling,
                At, Project, Lockfile
  <2>4. ASSUME NEW p \in Process, (InTx(p) /\ ~At(p, "torn"))'
        PROVE  TxProgress(p)'
    <3>1. TxProgress(p)
      BY <2>1, <2>4 DEF TxProgresses, InTx, At
    <3> QED  BY <2>1, <3>1 DEF TxProgress, Disk, Receipts, Project, Lockfile, New, Found,
                               FoundFiles, FoundElsewhere, At
  <2>5. WinnersWillWin'
    BY <2>1 DEF WinnersWillWin, Winner, WillInstall, Active, Disk, Project
  <2> QED  BY <2>2, <2>3, <2>4, <2>5 DEF TxProgresses
<1> QED  BY <1>1, <1>2

(***************************************************************************)
(* In every state the types are right, a transaction holds both locks and  *)
(* has changed exactly what its step says, and each file of a settled pull *)
(* is that of its last package or waits for a pull that will install it.   *)
(***************************************************************************)
THEOREM Invariance == Spec => []IInv
BY InitInv, NextInv, PTL DEF Spec

(***************************************************************************)
(* When all processes of a project are done, and a pull began after the    *)
(* last failure, every file is that of the last package that declares it.  *)
(***************************************************************************)
THEOREM TheLastDeclarationWins == Spec => []LastDeclarationWins
<1>1. IInv => LastDeclarationWins
  <2> SUFFICES ASSUME IInv, NEW p \in settled, NEW f \in Path, Claimants(f) # {},
                      \A q \in Process : Project(q) = Project(p) => ~Active(q)
               PROVE  Disk(p)[f] = Content(Max(Claimants(f)), Declared)
    BY DEF LastDeclarationWins
  <2>1. Max(Claimants(f)) \in Package /\ Winner(f, Max(Claimants(f)))
    BY LastClaimant
  <2> QED  BY <2>1 DEF IInv, WinnersWillWin, WillInstall
<1> QED  BY <1>1, Invariance, PTL

-----------------------------------------------------------------------------
\* What a step out of a transaction leaves behind.
EndsWell(p) ==
  \/ Installed(p)
  \/ Disk(p)' = tx[p].before.disk /\ Receipts(p)' = tx[p].before.receipts
  \/ At(p, "torn")

LEMMA StepEndsWell ==
  IInv /\ [Next]_vars => \A p \in Process : tx[p] # NoTx /\ pc'[p] = "run" => EndsWell(p)
<1> SUFFICES ASSUME IInv, [Next]_vars, NEW p \in Process, tx[p] # NoTx, pc'[p] = "run"
             PROVE  EndsWell(p)
  OBVIOUS
<1> USE DEF InTx, At
<1>1. InTx(p) /\ TypeOK
  BY DEF IInv, TxBelongs, TxIsOf
<1>2. PICK q \in Process : Begin(q) \/ Proceeds(q) \/ Mishap(q)
  BY <1>1 DEF Next, vars
<1>3. Keeps(q) /\ layout' = layout
  BY <1>2, StepKeeps DEF Keeps
<1>4. p = q
  BY <1>1, <1>3 DEF Keeps
\* Saving is the last step of what is installed.
<1>5. CASE Save(p)
  <2>1. /\ TxProgress(p) /\ pc[p] = "save" /\ tx[p] \in Transaction /\ commit[p] \in Package
    BY <1>1, <1>5, TxFacts DEF Save
  <2>2. Disk(p)' = Disk(p)
    BY <1>3, <1>5 DEF Save, Disk, Project
  <2>3. Receipts(p)' = [tx[p].before.receipts EXCEPT ![commit[p]] = Declared]
    BY <1>1, <1>3, <1>5, <2>1, LocksFacts DEF Save, Receipts, Lockfile, TypeOK, TxProgress
  <2>4. \A f \in Path :
          IF f \in New(p) THEN Disk(p)'[f] = Content(commit[p], Declared)
          ELSE \/ Disk(p)'[f] = Found(p, f)
               \/ Disk(p)'[f] = Absent /\ f \notin FoundElsewhere(p)
    BY <2>1, <2>2 DEF TxProgress
  <2> QED  BY <2>3, <2>4 DEF EndsWell, Installed, New, Found, FoundElsewhere
\* Restoring puts back whatever may have changed.
<1>6. CASE Restore(p)
  <2>1. /\ TxProgress(p) /\ pc[p] = "restore" /\ tx[p] \in Transaction
    BY <1>1, <1>6, TxFacts DEF Restore
  <2>2. /\ Write(p, Restored(p, DOMAIN tx[p].snapshot))
        /\ DOMAIN tx[p].snapshot = New(p) \cup FoundFiles(p)
    BY <1>6, <2>1 DEF Restore, TxProgress
  <2>3. /\ Restored(p, DOMAIN tx[p].snapshot) \in Tree
        /\ \A f \in Path : Restored(p, DOMAIN tx[p].snapshot)[f] =
             IF f \in New(p) \cup FoundFiles(p) THEN Found(p, f) ELSE Disk(p)[f]
    BY <2>1, <2>2, RestoredFacts
  <2>4. \A f \in Path \ (New(p) \cup FoundFiles(p)) : Disk(p)[f] = Found(p, f)
    BY <2>1 DEF TxProgress
  <2>5. Disk(p)' \in Tree /\ \A f \in Path : Disk(p)'[f] = tx[p].before.disk[f]
    BY <1>1, <1>3, <2>2, <2>3, <2>4, WriteFacts DEF Disk, Project, Found
  <2>6. Disk(p)' = tx[p].before.disk
    BY <2>1, <2>5 DEF Tree, Transaction
  <2>7. Receipts(p)' = tx[p].before.receipts
    BY <1>3, <1>6, <2>1 DEF Restore, Receipts, Lockfile, TxProgress
  <2> QED  BY <2>6, <2>7 DEF EndsWell
<1>7. CASE LeaveTorn(p)
  BY <1>7 DEF LeaveTorn, EndsWell
<1>8. ASSUME ~Save(p), ~Restore(p), ~LeaveTorn(p)
      PROVE  FALSE
  <2>1. CASE Begin(p)
    BY <1>1, <2>1 DEF Begin, Preflight, PreflightOfRefresh, StartBatch, PreflightRefuses,
                      LockForClean
  <2>2. CASE Recheck(p) \/ CommitUnchanged(p) \/ CommitFailed(p) \/ SnapshotFails(p)
    BY <1>1, <2>2 DEF Recheck, CommitUnchanged, CommitFailed, SnapshotFails, Commits
  <2>3. CASE \/ Lock(p) \/ Snapshot(p) \/ Copy(p) \/ Prune(p) \/ PruneFails(p)
             \/ CopyFails(p) \/ SaveFails(p) \/ RestoreFails(p)
    BY <1>1, <2>3 DEF Lock, Snapshot, Copy, Prune, PruneFails, CopyFails, SaveFails, RestoreFails,
                      Goto, TypeOK
  <2>4. CASE End(p) \/ Cancelled(p) \/ Crash(p) \/ Clean(p)
    BY <1>1, <2>4 DEF End, Cancelled, Crash, Clean, Gone, Goto, TypeOK
  <2> QED  BY <1>2, <1>4, <1>8, <2>1, <2>2, <2>3, <2>4 DEF Proceeds, Mishap
<1> QED  BY <1>5, <1>6, <1>7, <1>8

(***************************************************************************)
(* A transaction that ends has installed its package without touching what *)
(* others own, or has left the files and the receipts as it found them,    *)
(* or its restore failed too.                                              *)
(***************************************************************************)
THEOREM TransactionsAreAllOrNothing == Spec => AllOrNothing
BY Invariance, StepEndsWell, PTL DEF Spec, AllOrNothing, EndsWell

LEMMA StepKeepsReceipts ==
  IInv /\ [Next]_vars =>
    \A l \in DOMAIN receipts, i \in Package :
      receipts[l][i] = Declared =>
        \/ receipts'[l][i] = Declared
        \/ \E p \in Process : At(p, "cleaning") /\ pc'[p] = "ended" /\ Lockfile(p) = l
<1> SUFFICES ASSUME IInv, [Next]_vars,
                    NEW l \in DOMAIN receipts, NEW i \in Package, receipts[l][i] = Declared,
                    \A p \in Process :
                      ~(At(p, "cleaning") /\ pc'[p] = "ended" /\ Lockfile(p) = l)
             PROVE  receipts'[l][i] = Declared
  OBVIOUS
<1>1. TypeOK
  BY DEF IInv
<1>2. CASE receipts' = receipts
  BY <1>2
<1>3. ASSUME NEW q \in Process, Save(q)
      PROVE  receipts'[l][i] = Declared
  <2>1. InTx(q) /\ ~At(q, "torn") /\ At(q, "save")
    BY <1>3 DEF Save, InTx, At
  <2>2. tx[q].loaded = Receipts(q)
    BY <2>1, TxFacts DEF TxProgress
  <2>3. receipts' = [receipts EXCEPT ![Lockfile(q)] = [Receipts(q) EXCEPT ![commit[q]] = Declared]]
    BY <1>3, <2>2 DEF Save
  <2>4. Receipts(q) \in ReceiptSet
    BY <1>1, LocksFacts
  <2>5. [Receipts(q) EXCEPT ![commit[q]] = Declared][i] \in {Declared, Receipts(q)[i]}
    BY <2>4 DEF ReceiptSet
  <2> QED  BY <2>3, <2>5, <1>1 DEF Receipts, TypeOK
<1>4. ASSUME NEW q \in Process, Clean(q)
      PROVE  receipts'[l][i] = Declared
  <2>1. Lockfile(q) # l
    BY <1>1, <1>4 DEF Clean, Goto, At, TypeOK
  <2> QED  BY <1>4, <2>1, <1>1 DEF Clean, TypeOK
<1>5. ASSUME NEW q \in Process, ~Save(q), ~Clean(q), Begin(q) \/ Proceeds(q) \/ Mishap(q)
      PROVE  receipts' = receipts
  BY <1>5 DEF Begin, Preflight, PreflightOfRefresh, StartBatch, PreflightRefuses, LockForClean,
    Proceeds, Recheck, CommitUnchanged, Lock, Snapshot, Copy, Prune, PruneFails, Restore,
    LeaveTorn, End, Gone, Mishap, CommitFailed, SnapshotFails, CopyFails, SaveFails, RestoreFails,
    Cancelled, Crash, files
<1> QED  BY <1>2, <1>3, <1>4, <1>5 DEF Next, vars, files

(***************************************************************************)
(* A receipt of what is declared stays in its lockfile, whatever processes *)
(* with that lockfile do, until one of them forgets it as its clean ends.  *)
(***************************************************************************)
THEOREM ReceiptsStay == Spec => ReceiptsAreKept
BY Invariance, StepKeepsReceipts, PTL DEF Spec, ReceiptsAreKept

=============================================================================
