------------------------ MODULE MySqlRestoreProofs -------------------------
(***************************************************************************)
(* Proofs about MySqlRestore for any number of executions, tables, schema  *)
(* and row changes and deleted claims: what a receipt stands for, where    *)
(* rows go, who carries the backup lock, and that the restore keeps the    *)
(* promise of VerifiedCopy.                                                *)
(***************************************************************************)
EXTENDS MySqlRestore, TLAPS

(* The inductive invariant, in four parts. *)

Dumping == {"transfer", "checkVerify"}
Verified == {"checkComplete", "stop", "waitStop", "checkCommit", "commit"}
Read == {"verify"} \cup Verified
Filling == {"mkTarget", "waitSQL", "checkTransfer", "dump"} \cup Dumping \cup Read
Resuming == {"mkResume", "waitResume", "redump"}
Reporting == {"stopResume", "waitResumed", "checkExisting", "release", "cleanup", "done"}

\* While its session holds the lock, the schemas are those of the snapshot an
\* execution opened, so what it has read is the snapshot; the check after the
\* dump makes that a fact for good.
SnapshotOf(a) ==
    /\ pc[a] \in Dumping \cup Read => snap[a] \in hist
    /\ pc[a] \in Dumping /\ lock[a] = "held" =>
          \A t \in Tables : db[t][1] = snap[a][t][1] /\ got[a][t] \in {None, snap[a][t]}
    /\ pc[a] = "checkVerify" => \A t \in Tables : got[a][t] # None
    /\ pc[a] \in Read => got[a] = snap[a]

Snapshot == db \in hist /\ \A a \in Attempts : SnapshotOf(a)

\* A claim that is not an execution's is empty, and an execution that has begun
\* to read fills the claim it created or none: no other claim takes the name
\* while its Pod is there.
OwnershipOf(a) ==
    /\ pc[a] \in Filling \cup Resuming \cup {"inspectReceipt"} => pin[a] # 0
    /\ pc[a] \in Filling \/ got[a] # Nothing => pin[a] # 0 /\ (claim = pin[a] => maker = a)
    /\ got[a] # Nothing => pc[a] \in Dumping \cup Read \cup {"release", "cleanup", "unwind"} \cup Ended
    /\ (pc[a] = "transfer" \/ got[a] # Nothing) /\ tpod[a] # "none" => claim = pin[a]

Ownership ==
    /\ claim = 0 <=> maker = "nobody"
    /\ RowsOnlyInOwnClaim
    /\ \A a \in Attempts : OwnershipOf(a)

\* What is verified stays as it is as long as the claim is there.
Verification ==
    \A a \in Attempts : pc[a] \in Verified /\ claim = pin[a] => data = got[a]

\* A receipt is true, and what executions report is the receipt.
Receipts ==
    /\ receipt # NoReceipt => receipt.uid # 0
    /\ ReceiptIsTrue
    /\ \A a \in Attempts :
          /\ pc[a] \in Resuming => receipt.uid = pin[a]
          /\ pc[a] \in Reporting => receipt # NoReceipt /\ result[a] = receipt.proof

IInv == TypeOK /\ Snapshot /\ Ownership /\ Verification /\ Receipts

-----------------------------------------------------------------------------
(* The type invariant. *)

\* An empty database is a partial one, and so is a whole one.
LEMMA PartialContents ==
    /\ Nothing \in Partials
    /\ Contents \subseteq Partials
    /\ Nothing \notin Contents
  BY RestoreAssumption DEF Nothing, Partials, Contents, Cells, Tables, None

\* A check goes on at a line of the executor.
LEMMA CheckLeadsTo ==
    ASSUME NEW l \in CheckPoints
    PROVE  /\ l = "checkProvision" => AfterCheck[l] = "inspect"
           /\ l = "checkTransfer" => AfterCheck[l] = "dump"
           /\ l = "checkVerify" => AfterCheck[l] = "verify"
           /\ l = "checkComplete" => AfterCheck[l] = "stop"
           /\ l = "checkCommit" => AfterCheck[l] = "commit"
           /\ l = "checkExisting" => AfterCheck[l] = "release"
  BY DEF CheckPoints, AfterCheck

\* A change at the source leaves a content.
LEMMA SourceStep ==
    ASSUME TypeOK, NEW t \in Tables, DML(t) \/ DDL(t)
    PROVE  db' \in Contents /\ hist' = hist \cup {db'}
<1>1. CASE DML(t)
  <2>1. db[t] \in Cells /\ db[t][1] \in 1..(MaxDDL + 1) /\ dmls + 2 \in 1..(MaxDML + 1)
    BY <1>1, RestoreAssumption DEF DML, TypeOK, Contents, Cells
  <2>2. <<db[t][1], dmls + 2>> \in Cells
    BY <2>1 DEF Cells
  <2> QED
    BY <1>1, <2>2 DEF DML, TypeOK, Contents
<1>2. CASE DDL(t)
  <2>1. db[t] \in Cells /\ db[t][2] \in 1..(MaxDML + 1) /\ ddls + 2 \in 1..(MaxDDL + 1)
    BY <1>2, RestoreAssumption DEF DDL, TypeOK, Contents, Cells
  <2>2. <<ddls + 2, db[t][2]>> \in Cells
    BY <2>1 DEF Cells
  <2> QED
    BY <1>2, <2>2 DEF DDL, TypeOK, Contents
<1> QED
  BY <1>1, <1>2

\* A session that is lost holds nothing, and no session gains a lock.
LEMMA LocksLost ==
    ASSUME TypeOK, NEW S, LoseLocks(S)
    PROVE  /\ lock' \in [Attempts -> {"none", "held", "lost"}]
           /\ \A a \in Attempts : lock'[a] = "held" => lock[a] = "held"
  BY DEF TypeOK, LoseLocks

\* What is read of a table is a cell.
LEMMA CellRead ==
    ASSUME TypeOK, NEW a \in Attempts, NEW t \in Tables, snap[a] \in Contents
    PROVE  <<db[t][1], snap[a][t][2]>> \in Cells
<1>1. db[t] \in Cells /\ snap[a][t] \in Cells
  BY DEF TypeOK, Contents
<1> QED
  BY <1>1 DEF Cells

\* Every step keeps every variable in its type.
LEMMA TypeStep ==
    ASSUME TypeOK, Snapshot, Next
    PROVE  TypeOK'
<1> USE DEF source, client, volume, cluster, locals
<1> USE RestoreAssumption
<1>1. ASSUME NEW t \in Tables, DML(t) \/ DDL(t) PROVE TypeOK'
  <2>1. db' \in Contents /\ hist' = hist \cup {db'}
    BY <1>1, SourceStep
  <2>2. ddls' \in 0..MaxDDL /\ dmls' \in 0..MaxDML
    BY <1>1 DEF TypeOK, DML, DDL
  <2>3. UNCHANGED <<ident, client, volume, cluster, pc, locals>>
    BY <1>1 DEF DML, DDL
  <2> QED
    BY <2>1, <2>2, <2>3 DEF TypeOK
<1>2. ASSUME IdentityChanges \/ SourceHelperGone \/ ForeignDelete \/ ForeignCreate PROVE TypeOK'
  <2>1. CASE IdentityChanges
    BY <2>1, LocksLost DEF TypeOK, IdentityChanges
  <2>2. CASE SourceHelperGone
    BY <2>2, LocksLost DEF TypeOK, SourceHelperGone
  <2>3. CASE ForeignDelete \/ ForeignCreate
    BY <2>3, PartialContents DEF TypeOK, ForeignDelete, ForeignCreate
  <2> QED
    BY <1>2, <2>1, <2>2, <2>3
<1>3. ASSUME NEW a \in Attempts,
             \/ CreateSourceHelper(a) \/ Identify(a) \/ HoldDDL(a)
             \/ InspectConsumers(a) \/ InspectClaim(a) \/ InspectReceipt(a)
             \/ ProvisionConsumers(a) \/ CreateTargetPod(a) \/ WaitSQL(a)
      PROVE TypeOK'
  <2>1. CASE CreateSourceHelper(a)
    BY <2>1 DEF TypeOK, CreateSourceHelper, Goto, Lines
  <2>4. CASE Identify(a)
    BY <2>4 DEF TypeOK, Identify, Goto, Lines
  <2>5. CASE HoldDDL(a)
    BY <2>5 DEF TypeOK, HoldDDL, Goto, Lines, CheckPoints
  <2>2. CASE InspectConsumers(a) \/ InspectClaim(a) \/ InspectReceipt(a) \/ ProvisionConsumers(a)
    BY <2>2 DEF TypeOK, InspectConsumers, InspectClaim, InspectReceipt, ProvisionConsumers, Goto, Lines
  <2>3. CASE CreateTargetPod(a) \/ WaitSQL(a)
    BY <2>3 DEF TypeOK, CreateTargetPod, WaitSQL, Goto, Lines, CheckPoints, PodStates
  <2> QED
    BY <1>3, <2>1, <2>2, <2>3, <2>4, <2>5
<1>4. ASSUME NEW a \in Attempts, Check(a) PROVE TypeOK'
  <2>1. AfterCheck[pc[a]] \in Lines
    BY <1>4, CheckLeadsTo DEF Check, CheckPoints, Lines
  <2> QED
    BY <1>4, <2>1 DEF TypeOK, Check, Goto
<1>5. ASSUME NEW a \in Attempts, CreateClaim(a) PROVE TypeOK'
  BY <1>5, PartialContents DEF TypeOK, CreateClaim, Goto, Lines
<1>6. ASSUME NEW a \in Attempts, Redump(a) \/ BeginTransfer(a) \/ Commit(a) PROVE TypeOK'
  BY <1>6, PartialContents DEF TypeOK, Redump, BeginTransfer, Commit, Goto, Lines, CheckPoints
<1>7. ASSUME NEW a \in Attempts,
             \/ Transferred(a) \/ Verify(a) \/ Shutdown(a) \/ WaitStopped(a)
             \/ Release(a) \/ Cleanup(a) \/ Fail(a) \/ Unwind(a) \/ Die(a)
      PROVE TypeOK'
  <2>1. CASE Transferred(a) \/ Verify(a) \/ Shutdown(a) \/ WaitStopped(a)
    BY <2>1, PartialContents DEF TypeOK, Transferred, Verify, Shutdown, WaitStopped, Goto, Lines, CheckPoints, PodStates
  <2>2. CASE Release(a) \/ Cleanup(a) \/ Fail(a)
    BY <2>2, PartialContents DEF TypeOK, Release, Cleanup, Fail, Goto, Lines, CheckPoints, Ended, PodStates
  <2>3. CASE Unwind(a) \/ Die(a)
    BY <2>3, PartialContents DEF TypeOK, Unwind, Die, Goto, Lines, CheckPoints, Ended, PodStates
  <2> QED
    BY <1>7, <2>1, <2>2, <2>3
<1>8. ASSUME NEW a \in Attempts, NEW t \in Tables, DumpTable(a, t) PROVE TypeOK'
  <2>1. snap[a] \in Contents
    BY <1>8 DEF DumpTable, Snapshot, SnapshotOf, Dumping, TypeOK
  <2>2. <<db[t][1], snap[a][t][2]>> \in Cells
    BY <2>1, CellRead
  <2>3. got' \in [Attempts -> Partials]
    BY <1>8, <2>2 DEF DumpTable, TypeOK, Partials
  <2> QED
    BY <1>8, <2>3 DEF DumpTable, TypeOK
<1>9. ASSUME NEW a \in Attempts,
             TargetInit(a) \/ ServerStarts(a) \/ ServerExits(a) \/ TargetDies(a) \/ TargetGone(a)
             \/ HelperDeadline(a) \/ SessionLost(a)
      PROVE TypeOK'
  <2>1. CASE HelperDeadline(a)
    BY <2>1, LocksLost DEF TypeOK, HelperDeadline
  <2>2. CASE SessionLost(a)
    BY <2>2, LocksLost DEF TypeOK, SessionLost
  <2>3. CASE TargetInit(a) \/ ServerStarts(a) \/ ServerExits(a) \/ TargetDies(a) \/ TargetGone(a)
    BY <2>3 DEF TypeOK, TargetInit, ServerStarts, ServerExits, TargetDies, TargetGone, PodStates
  <2> QED
    BY <1>9, <2>1, <2>2, <2>3
<1>10. ASSUME NEW a \in Attempts, NEW t \in Tables, RestoreTable(a, t) PROVE TypeOK'
  <2>1. data' \in Partials
    BY <1>10 DEF RestoreTable, TypeOK, Partials
  <2> QED
    BY <1>10, <2>1 DEF RestoreTable, TypeOK
<1> QED
  BY <1>1, <1>2, <1>3, <1>4, <1>5, <1>6, <1>7, <1>8, <1>9, <1>10 DEF Next, Outside, ExecuteDomain, Pods

-----------------------------------------------------------------------------
(* The snapshot. *)

\* The lines an execution is at while it does not hold a dump.
Elsewhere == Lines \ (Dumping \cup Read)

\* A step that only loses locks, or that takes the execution elsewhere.
LEMMA SnapshotKept ==
    ASSUME NEW a \in Attempts, SnapshotOf(a), hist \subseteq hist',
           \/ pc'[a] \in Elsewhere
           \/ /\ pc'[a] = pc[a] /\ snap'[a] = snap[a] /\ got'[a] = got[a]
              /\ lock'[a] = "held" => lock[a] = "held" /\ \A t \in Tables : db'[t][1] = db[t][1]
    PROVE  SnapshotOf(a)'
  BY DEF SnapshotOf, Elsewhere, Dumping, Read, Verified

\* An executor's step leaves the other executions' locals, the source and the
\* other sessions as they are.
LEMMA OthersKept ==
    ASSUME TypeOK, NEW a \in Attempts, ExecuteDomain(a), NEW b \in Attempts \ {a}
    PROVE  /\ pc'[b] = pc[b] /\ seen'[b] = seen[b] /\ pin'[b] = pin[b]
           /\ snap'[b] = snap[b] /\ got'[b] = got[b] /\ result'[b] = result[b]
           /\ lock'[b] = lock[b] /\ tpod'[b] = tpod[b]
<1> USE DEF source, client, volume, cluster, locals
<1>1. CASE CreateSourceHelper(a) \/ Identify(a) \/ HoldDDL(a) \/ Check(a) \/ InspectConsumers(a)
           \/ InspectClaim(a) \/ InspectReceipt(a) \/ Redump(a) \/ ProvisionConsumers(a)
  BY <1>1 DEF CreateSourceHelper, Identify, HoldDDL, Check, InspectConsumers, InspectClaim,
     InspectReceipt, Redump, ProvisionConsumers, Goto, TypeOK
<1>2. CASE CreateClaim(a) \/ CreateTargetPod(a) \/ WaitSQL(a) \/ BeginTransfer(a) \/ Transferred(a)
           \/ Verify(a) \/ Shutdown(a) \/ WaitStopped(a) \/ Commit(a)
  BY <1>2 DEF CreateClaim, CreateTargetPod, WaitSQL, BeginTransfer, Transferred, Verify, Shutdown,
     WaitStopped, Commit, Goto, TypeOK
<1>3. CASE Release(a) \/ Cleanup(a) \/ Fail(a) \/ Unwind(a) \/ Die(a) \/ \E t \in Tables : DumpTable(a, t)
  BY <1>3 DEF Release, Cleanup, Fail, Unwind, Die, DumpTable, Goto, TypeOK
<1> QED
  BY <1>1, <1>2, <1>3 DEF ExecuteDomain

\* No executor changes the source.
LEMMA SourceKept ==
    ASSUME NEW a \in Attempts, ExecuteDomain(a) \/ Pods(a)
    PROVE  UNCHANGED <<db, ddls, dmls, hist, ident>>
<1> USE DEF source, client, volume, cluster, locals
<1>1. CASE ExecuteDomain(a)
  BY <1>1 DEF ExecuteDomain, CreateSourceHelper, Identify, HoldDDL, Check, InspectConsumers, InspectClaim,
     InspectReceipt, Redump, ProvisionConsumers, CreateClaim, CreateTargetPod, WaitSQL, BeginTransfer,
     Transferred, Verify, Shutdown, WaitStopped, Commit, Release, Cleanup, Fail, Unwind, Die, DumpTable
<1>2. CASE Pods(a)
  BY <1>2 DEF Pods, TargetInit, ServerStarts, ServerExits, TargetDies, TargetGone, HelperDeadline,
     SessionLost, RestoreTable
<1> QED
  BY <1>1, <1>2

\* Pods and others change nothing that an executor holds, and take locks away.
LEMMA LocalsKept ==
    ASSUME TypeOK, Outside \/ \E b \in Attempts : Pods(b)
    PROVE  /\ UNCHANGED <<pc, seen, pin, snap, got, result, receipt>>
           /\ hist \subseteq hist'
           /\ \A a \in Attempts : lock'[a] = "held" => lock[a] = "held"
<1> USE DEF source, client, volume, cluster, locals
<1>1. ASSUME NEW b \in Attempts, Pods(b)
      PROVE  /\ UNCHANGED <<pc, seen, pin, snap, got, result, receipt>>
             /\ \A a \in Attempts : lock'[a] = "held" => lock[a] = "held"
  <2>1. CASE HelperDeadline(b) \/ SessionLost(b)
    BY <2>1, LocksLost DEF HelperDeadline, SessionLost
  <2>2. CASE ~(HelperDeadline(b) \/ SessionLost(b))
    BY <1>1, <2>2 DEF Pods, TargetInit, ServerStarts, ServerExits, TargetDies, TargetGone, RestoreTable
  <2> QED
    BY <2>1, <2>2
<1>2. ASSUME Outside
      PROVE  /\ UNCHANGED <<pc, seen, pin, snap, got, result, receipt>>
             /\ hist \subseteq hist'
             /\ \A a \in Attempts : lock'[a] = "held" => lock[a] = "held"
  <2>1. CASE IdentityChanges \/ SourceHelperGone
    BY <2>1, LocksLost DEF IdentityChanges, SourceHelperGone
  <2>2. CASE ~(IdentityChanges \/ SourceHelperGone)
    BY <1>2, <2>2 DEF Outside, DML, DDL, ForeignDelete, ForeignCreate
  <2> QED
    BY <2>1, <2>2
<1> QED
  BY <1>1, <1>2, SourceKept

\* A step of the source or of a Pod keeps the snapshots: a schema changes only
\* when no session holds the lock.
LEMMA SnapshotOutside ==
    ASSUME TypeOK, Snapshot, Outside \/ \E b \in Attempts : Pods(b)
    PROVE  Snapshot'
<1> USE DEF source, client, volume, cluster, locals
<1>1. /\ UNCHANGED <<pc, snap, got>> /\ hist \subseteq hist'
      /\ \A a \in Attempts : lock'[a] = "held" => lock[a] = "held"
  BY LocalsKept
<1>2. ASSUME NEW t \in Tables, DML(t)
      PROVE  db' \in hist' /\ \A u \in Tables : db'[u][1] = db[u][1]
  <2>1. db'[t] = <<db[t][1], dmls + 2>> /\ \A u \in Tables \ {t} : db'[u] = db[u]
    BY <1>2 DEF DML, TypeOK, Contents
  <2> QED
    BY <1>2, <2>1 DEF DML
<1>3. ASSUME NEW t \in Tables, DDL(t)
      PROVE  db' \in hist' /\ \A a \in Attempts : lock'[a] # "held"
  BY <1>1, <1>3 DEF DDL, LockHeld
<1>4. ASSUME ~\E t \in Tables : DML(t) \/ DDL(t)
      PROVE  db' = db
  BY <1>4, SourceKept DEF Outside, IdentityChanges, SourceHelperGone, ForeignDelete, ForeignCreate
<1>5. /\ db' \in hist'
      /\ \/ \A a \in Attempts : lock'[a] # "held"
         \/ \A u \in Tables : db'[u][1] = db[u][1]
  BY <1>1, <1>2, <1>3, <1>4 DEF Snapshot
<1>6. ASSUME NEW a \in Attempts PROVE SnapshotOf(a)'
  BY <1>1, <1>5, <1>6, SnapshotKept DEF Snapshot
<1> QED
  BY <1>5, <1>6 DEF Snapshot

\* An execution opens its snapshot, reads on, and is checked.
LEMMA SnapshotExecutor ==
    ASSUME TypeOK, Snapshot, Ownership, NEW a \in Attempts, ExecuteDomain(a)
    PROVE  Snapshot'
<1> USE DEF source, client, volume, cluster, locals
<1>1. UNCHANGED <<db, hist>>
  BY SourceKept
<1>2. ASSUME NEW b \in Attempts \ {a} PROVE SnapshotOf(b)'
  <2>1. SnapshotOf(b) /\ pc'[b] = pc[b] /\ snap'[b] = snap[b] /\ got'[b] = got[b] /\ lock'[b] = lock[b]
    BY <1>2, OthersKept DEF Snapshot
  <2> QED
    BY <1>1, <2>1, SnapshotKept
<1>3. SnapshotOf(a)
  BY DEF Snapshot
<1> SUFFICES SnapshotOf(a)'
  BY <1>1, <1>2 DEF Snapshot
<1>4. CASE pc'[a] \in Elsewhere
  BY <1>1, <1>3, <1>4, SnapshotKept
<1>5. CASE BeginTransfer(a)
  <2>1. got[a] = Nothing
    BY <1>5 DEF BeginTransfer, Ownership, OwnershipOf, Dumping, Read, Verified, Ended
  <2>2. /\ pc'[a] = "transfer" /\ snap'[a] = db /\ got'[a] = Nothing
    BY <1>5, <2>1 DEF BeginTransfer, Goto, TypeOK
  <2> QED
    BY <1>1, <2>2 DEF Snapshot, SnapshotOf, Dumping, Read, Verified, Nothing
<1>6. ASSUME NEW t \in Tables, DumpTable(a, t) PROVE SnapshotOf(a)'
  <2>1. /\ pc'[a] = "transfer" /\ pc[a] = "transfer" /\ UNCHANGED <<lock, snap>>
        /\ got'[a] = [got[a] EXCEPT ![t] = <<db[t][1], snap[a][t][2]>>]
    BY <1>6 DEF DumpTable, TypeOK
  <2>2. snap[a] \in hist /\ snap[a] \in Contents
    BY <1>3, <2>1 DEF SnapshotOf, Dumping, TypeOK
  <2>3. lock[a] = "held" => got'[a][t] = snap[a][t]
    <3>1. snap[a][t] \in Cells
      BY <2>2 DEF Contents
    <3>2. snap[a][t] = <<snap[a][t][1], snap[a][t][2]>>
      BY <3>1 DEF Cells
    <3>3. got'[a][t] = <<db[t][1], snap[a][t][2]>>
      BY <2>1 DEF TypeOK, Partials
    <3>4. lock[a] = "held" => db[t][1] = snap[a][t][1]
      BY <1>3, <2>1 DEF SnapshotOf, Dumping
    <3> QED
      BY <3>2, <3>3, <3>4
  <2>4. \A u \in Tables \ {t} : got'[a][u] = got[a][u]
    BY <2>1 DEF TypeOK, Partials
  <2> QED
    BY <1>1, <1>3, <2>1, <2>2, <2>3, <2>4 DEF SnapshotOf, Dumping, Read, Verified
<1>7. CASE Transferred(a)
  BY <1>1, <1>3, <1>7 DEF Transferred, Goto, TypeOK, SnapshotOf, Dumping, Read, Verified
<1>8. CASE Check(a)
  <2>1. pc'[a] = AfterCheck[pc[a]] /\ lock[a] = "held" /\ UNCHANGED <<snap, got, lock>> /\ pc[a] \in CheckPoints
    BY <1>8 DEF Check, Goto, TypeOK, HoldChecked
  <2>2. CASE pc[a] = "checkVerify"
    <3>1. pc'[a] = "verify"
      BY <2>1, <2>2, CheckLeadsTo
    <3>2. \A t \in Tables : got[a][t] = snap[a][t]
      BY <1>3, <2>1, <2>2 DEF SnapshotOf, Dumping
    <3>3. got[a] = snap[a]
      BY <3>2 DEF TypeOK, Partials
    <3> QED
      BY <1>1, <1>3, <2>1, <2>2, <3>1, <3>3 DEF SnapshotOf, Dumping, Read, Verified
  <2>3. CASE pc[a] \in {"checkComplete", "checkCommit"}
    <3>1. pc'[a] \in {"stop", "commit"}
      BY <2>1, <2>3, CheckLeadsTo
    <3> QED
      BY <1>1, <1>3, <2>1, <2>3, <3>1 DEF SnapshotOf, Dumping, Read, Verified
  <2>4. CASE pc[a] \in {"checkProvision", "checkTransfer", "checkExisting"}
    <3>1. pc'[a] \in {"inspect", "dump", "release"}
      BY <2>1, <2>4, CheckLeadsTo
    <3>2. pc'[a] \in Elsewhere
      BY <3>1 DEF Elsewhere, Lines, Dumping, Read, Verified
    <3> QED
      BY <1>4, <3>2
  <2> QED
    BY <2>1, <2>2, <2>3, <2>4 DEF CheckPoints
<1>9. CASE Verify(a) \/ Shutdown(a) \/ WaitStopped(a)
  <2>1. UNCHANGED <<snap, got, lock>>
    BY <1>9 DEF Verify, Shutdown, WaitStopped
  <2>2. CASE pc[a] \in Read
    <3>1. pc'[a] \in Read
      BY <1>9, <2>2 DEF Verify, Shutdown, WaitStopped, Goto, TypeOK, Read, Verified
    <3> QED
      BY <1>1, <1>3, <2>1, <2>2, <3>1 DEF SnapshotOf, Dumping, Read, Verified
  <2>3. CASE pc[a] \notin Read
    <3>1. pc'[a] \in Elsewhere
      BY <1>9, <2>3 DEF Verify, Shutdown, WaitStopped, Goto, TypeOK, Read, Verified, Elsewhere, Lines, CheckPoints, Dumping
    <3> QED
      BY <1>4, <3>1
  <2> QED
    BY <2>2, <2>3
<1>10. CASE \/ CreateSourceHelper(a) \/ Identify(a) \/ HoldDDL(a) \/ InspectConsumers(a) \/ InspectClaim(a)
            \/ InspectReceipt(a) \/ Redump(a) \/ ProvisionConsumers(a) \/ CreateClaim(a)
  <2>1. pc'[a] \in {"identify", "hold", "checkProvision", "unwind", "inspectClaim", "provision", "inspectReceipt",
                    "mkResume", "stopResume", "create", "mkTarget"}
    BY <1>10 DEF CreateSourceHelper, Identify, HoldDDL, InspectConsumers, InspectClaim, InspectReceipt,
       Redump, ProvisionConsumers, CreateClaim, Goto, TypeOK
  <2>2. pc'[a] \in Elsewhere
    BY <2>1 DEF Elsewhere, Lines, CheckPoints, Dumping, Read, Verified
  <2> QED
    BY <1>4, <2>2
<1>11. CASE \/ CreateTargetPod(a) \/ WaitSQL(a) \/ Commit(a)
            \/ Release(a) \/ Cleanup(a) \/ Fail(a) \/ Unwind(a) \/ Die(a)
  <2>1. pc'[a] \in {"waitSQL", "waitResume", "checkTransfer", "redump", "release", "unwind", "cleanup",
                    "done", "failed", "dead"}
    BY <1>11 DEF CreateTargetPod, WaitSQL, Commit, Release, Cleanup, Fail, Unwind, Die, Goto, TypeOK
  <2>2. pc'[a] \in Elsewhere
    BY <2>1 DEF Elsewhere, Lines, CheckPoints, Ended, Dumping, Read, Verified
  <2> QED
    BY <1>4, <2>2
<1> QED
  BY <1>5, <1>6, <1>7, <1>8, <1>9, <1>10, <1>11 DEF ExecuteDomain

-----------------------------------------------------------------------------
(* Whose the claim is. *)

\* A step that leaves the claim and what an execution holds, and creates no Pod.
LEMMA OwnershipKept ==
    ASSUME NEW a \in Attempts, OwnershipOf(a), UNCHANGED <<claim, maker>>,
           pc'[a] = pc[a], pin'[a] = pin[a], got'[a] = got[a],
           tpod'[a] # "none" => tpod[a] # "none"
    PROVE  OwnershipOf(a)'
  BY DEF OwnershipOf

\* A claim under a new UID takes the place of none.
LEMMA OwnershipFresh ==
    ASSUME TypeOK, NEW a \in Attempts, OwnershipOf(a), claim = 0, claim' = uids + 1,
           pc'[a] = pc[a], pin'[a] = pin[a], got'[a] = got[a], tpod'[a] = tpod[a]
    PROVE  OwnershipOf(a)'
<1>1. pin[a] \in Nat /\ pin[a] # uids + 1
  BY DEF TypeOK
<1> QED
  BY <1>1 DEF OwnershipOf, Filling, Dumping

\* The client in a target Pod finds its own claim.
LEMMA RowsAtHome ==
    ASSUME TypeOK, Ownership, NEW a \in Attempts, NEW t \in Tables, RestoreTable(a, t)
    PROVE  claim = pin[a] /\ maker = a /\ claim # 0
<1>1. OwnershipOf(a) /\ got[a] # Nothing /\ tpod[a] # "none"
  BY DEF Ownership, RestoreTable, Nothing
<1> QED
  BY <1>1 DEF OwnershipOf

\* Claims that others delete and create, and Pods that fill or leave the claim.
LEMMA OwnershipOutside ==
    ASSUME TypeOK, Ownership, Outside \/ \E b \in Attempts : Pods(b)
    PROVE  Ownership'
<1> USE DEF source, client, volume, cluster, locals
<1> USE RestoreAssumption
<1>1. UNCHANGED <<pc, pin, got>>
  BY LocalsKept
<1>2. CASE ForeignDelete
  <2>1. claim' = 0 /\ maker' = "nobody" /\ data' = Nothing /\ UNCHANGED tpod /\ \A a \in Attempts : tpod[a] = "none"
    BY <1>2 DEF ForeignDelete, NoConsumer
  <2>2. ASSUME NEW a \in Attempts PROVE OwnershipOf(a)'
    BY <1>1, <2>1, <2>2 DEF Ownership, OwnershipOf
  <2> QED
    BY <2>1, <2>2 DEF Ownership, RowsOnlyInOwnClaim
<1>3. CASE ForeignCreate
  <2>1. claim = 0 /\ claim' = uids + 1 /\ maker' = "other" /\ UNCHANGED <<data, tpod>> /\ uids \in Nat
    BY <1>3 DEF ForeignCreate, TypeOK
  <2>2. data = Nothing
    BY <2>1 DEF Ownership, RowsOnlyInOwnClaim
  <2>3. ASSUME NEW a \in Attempts PROVE OwnershipOf(a)'
    BY <1>1, <2>1, OwnershipFresh DEF Ownership
  <2> QED
    BY <2>1, <2>2, <2>3 DEF Ownership, RowsOnlyInOwnClaim
<1>4. CASE ~ForeignDelete /\ ~ForeignCreate
  <2>1. /\ UNCHANGED <<claim, maker>>
        /\ \A a \in Attempts : tpod'[a] # "none" => tpod[a] # "none"
    BY <1>4, ZenonT(60) DEF Outside, DML, DDL, IdentityChanges, SourceHelperGone, Pods, TargetInit, ServerStarts, ServerExits,
       TargetDies, TargetGone, HelperDeadline, SessionLost, RestoreTable, TypeOK
  <2>2. data' # Nothing => maker \in Attempts
    <3>1. CASE \E b \in Attempts, t \in Tables : RestoreTable(b, t)
      BY <3>1, RowsAtHome
    <3>2. CASE ~\E b \in Attempts, t \in Tables : RestoreTable(b, t)
      <4>1. UNCHANGED data
        BY <1>4, <3>2 DEF Outside, DML, DDL, IdentityChanges, SourceHelperGone, Pods, TargetInit, ServerStarts,
           ServerExits, TargetDies, TargetGone, HelperDeadline, SessionLost
      <4> QED
        BY <4>1 DEF Ownership, RowsOnlyInOwnClaim
    <3> QED
      BY <3>1, <3>2
  <2>3. ASSUME NEW a \in Attempts PROVE OwnershipOf(a)'
    BY <1>1, <2>1, OwnershipKept DEF Ownership
  <2> QED
    BY <2>1, <2>2, <2>3 DEF Ownership, RowsOnlyInOwnClaim
<1> QED
  BY <1>2, <1>3, <1>4

\* An execution pins the claim it created or inspected before it fills it.
LEMMA OwnershipExecutor ==
    ASSUME TypeOK, Ownership, NEW a \in Attempts, ExecuteDomain(a)
    PROVE  Ownership'
<1> USE DEF source, client, volume, cluster, locals
<1> USE RestoreAssumption
<1>1. OwnershipOf(a)
  BY DEF Ownership
<1>2. CASE CreateClaim(a)
  <2>1. /\ claim = 0 /\ claim' = uids + 1 /\ maker' = a /\ data' = Nothing /\ uids \in Nat
        /\ pc[a] = "create" /\ pc'[a] = "mkTarget" /\ pin'[a] = uids + 1 /\ got'[a] = got[a]
    BY <1>2 DEF CreateClaim, Goto, TypeOK
  <2>2. OwnershipOf(a)'
    <3>0. "create" \notin Dumping \cup Read \cup {"release", "cleanup", "unwind"} \cup Ended
      BY DEF Dumping, Read, Verified, Ended
    <3>1. got[a] = Nothing
      BY <1>1, <2>1, <3>0 DEF OwnershipOf
    <3>3. uids + 1 # 0
      BY <2>1
    <3>2. pin'[a] # 0 /\ claim' = pin'[a] /\ maker' = a /\ got'[a] = Nothing /\ pc'[a] # "transfer"
      BY <2>1, <3>1, <3>3
    <3> QED
      BY <3>2 DEF OwnershipOf
  <2>3. ASSUME NEW b \in Attempts \ {a} PROVE OwnershipOf(b)'
    <3>1. OwnershipOf(b) /\ pc'[b] = pc[b] /\ pin'[b] = pin[b] /\ got'[b] = got[b] /\ tpod'[b] = tpod[b]
      BY <2>3, OthersKept DEF Ownership
    <3> QED
      BY <2>1, <3>1, OwnershipFresh
  <2>4. (claim = 0 <=> maker = "nobody")'
    BY <2>1
  <2>5. RowsOnlyInOwnClaim'
    BY <2>1 DEF RowsOnlyInOwnClaim
  <2>6. ASSUME NEW b \in Attempts PROVE OwnershipOf(b)'
    BY <2>2, <2>3
  <2> QED
    BY <2>4, <2>5, <2>6 DEF Ownership
<1>3. CASE ~CreateClaim(a)
  <2>1. UNCHANGED <<claim, maker, data>>
    BY <1>3 DEF ExecuteDomain, CreateSourceHelper, Identify, HoldDDL, Check, InspectConsumers, InspectClaim,
     InspectReceipt, Redump, ProvisionConsumers, CreateTargetPod, WaitSQL, BeginTransfer,
     Transferred, Verify, Shutdown, WaitStopped, Commit, Release, Cleanup, Fail, Unwind, Die, DumpTable
  <2>2. ASSUME NEW b \in Attempts \ {a} PROVE OwnershipOf(b)'
    <3>1. OwnershipOf(b) /\ pc'[b] = pc[b] /\ pin'[b] = pin[b] /\ got'[b] = got[b] /\ tpod'[b] = tpod[b]
      BY <2>2, OthersKept DEF Ownership
    <3> QED
      BY <2>1, <3>1, OwnershipKept
  <2> SUFFICES OwnershipOf(a)'
    BY <2>1, <2>2 DEF Ownership, RowsOnlyInOwnClaim
  <2>3. CASE InspectClaim(a)
    <3>1. got'[a] = got[a] /\ pc[a] = "inspectClaim" /\ pc'[a] \in {"provision", "inspectReceipt"}
          /\ (pc'[a] = "inspectReceipt" => pin'[a] # 0)
      BY <2>3 DEF InspectClaim, Goto, TypeOK, Ownership
    <3> QED
      BY <1>1, <3>1 DEF OwnershipOf, Filling, Resuming, Dumping, Read, Verified, Ended
  <2>4. CASE BeginTransfer(a)
    <3>1. /\ pc[a] = "dump" /\ pc'[a] = "transfer" /\ got'[a] = got[a] /\ pin'[a] = pin[a]
          /\ UNCHANGED tpod /\ claim = pin[a]
      BY <2>4 DEF BeginTransfer, TargetValid, Goto, TypeOK
    <3> QED
      BY <1>1, <2>1, <3>1 DEF OwnershipOf, Filling, Resuming, Dumping, Read, Verified, Ended
  <2>5. CASE \E t \in Tables : DumpTable(a, t)
    <3>1. pc[a] = "transfer" /\ pc'[a] = "transfer" /\ pin'[a] = pin[a] /\ UNCHANGED tpod
      BY <2>5 DEF DumpTable
    <3> QED
      BY <1>1, <2>1, <3>1 DEF OwnershipOf, Filling, Resuming, Dumping, Read, Verified, Ended
  <2>6. CASE CreateTargetPod(a)
    <3>1. /\ got'[a] = got[a] /\ pin'[a] = pin[a]
          /\ \/ pc[a] = "mkTarget" /\ pc'[a] = "waitSQL"
             \/ pc[a] = "mkResume" /\ pc'[a] = "waitResume"
      BY <2>6 DEF CreateTargetPod, Goto, TypeOK
    <3> QED
      BY <1>1, <2>1, <3>1 DEF OwnershipOf, Filling, Resuming, Dumping, Read, Verified, Ended
  <2>7. ASSUME got'[a] = got[a], pin'[a] = pin[a], tpod'[a] # "none" => tpod[a] # "none",
               pc'[a] \in Filling => pc[a] \in Filling, pc'[a] \in Resuming => pc[a] \in Resuming \cup {"inspectReceipt"},
               pc'[a] \notin {"transfer", "inspectReceipt"},
               got[a] # Nothing => pc'[a] \in Dumping \cup Read \cup {"release", "cleanup", "unwind"} \cup Ended
        PROVE  OwnershipOf(a)'
    BY <1>1, <2>1, <2>7 DEF OwnershipOf
  <2>8. CASE Check(a)
    <3>1. pc[a] \in CheckPoints /\ pc'[a] = AfterCheck[pc[a]] /\ UNCHANGED <<got, pin, tpod>>
      BY <2>8 DEF Check, Goto, TypeOK
    <3>2. /\ pc'[a] \in {"inspect", "dump", "verify", "stop", "commit", "release"}
          /\ pc'[a] \in Filling => pc[a] \in Filling
          /\ pc[a] \in Read \cup Dumping => pc'[a] \in Read
      BY <3>1, CheckLeadsTo DEF CheckPoints, Filling, Read, Verified, Dumping
    <3>3. got[a] # Nothing => pc[a] \in Read \cup Dumping
      BY <1>1, <3>1 DEF OwnershipOf, CheckPoints, Ended
    <3> QED
      BY <2>7, <3>1, <3>2, <3>3 DEF Resuming
  <2>9. CASE \/ CreateSourceHelper(a) \/ Identify(a) \/ HoldDDL(a) \/ InspectConsumers(a)
             \/ InspectReceipt(a) \/ Redump(a) \/ ProvisionConsumers(a) \/ WaitSQL(a)
    <3>0. got'[a] = got[a] /\ pin'[a] = pin[a] /\ tpod' = tpod
      BY <2>9 DEF CreateSourceHelper, Identify, HoldDDL, InspectConsumers, InspectReceipt, Redump, ProvisionConsumers,
         WaitSQL
    <3>3. \/ pc'[a] \in {"identify", "hold", "checkProvision", "unwind", "inspectClaim", "stopResume", "create"}
          \/ pc[a] = "inspectReceipt" /\ pc'[a] = "mkResume"
          \/ pc[a] = "waitSQL" /\ pc'[a] = "checkTransfer"
          \/ pc[a] = "waitResume" /\ pc'[a] = "redump"
      BY <2>9 DEF CreateSourceHelper, Identify, HoldDDL, InspectConsumers, InspectReceipt, Redump, ProvisionConsumers,
         WaitSQL, Goto, TypeOK
    <3>1. /\ pc'[a] \in Filling => pc[a] \in Filling
          /\ pc'[a] \in Resuming => pc[a] \in Resuming \cup {"inspectReceipt"}
          /\ pc'[a] \notin {"transfer", "inspectReceipt"}
      BY <3>3 DEF Filling, Resuming, Dumping, Read, Verified
    <3>2. got[a] = Nothing
      BY <1>1, <2>9 DEF OwnershipOf, CreateSourceHelper, Identify, HoldDDL, InspectConsumers, InspectReceipt, Redump,
         ProvisionConsumers, WaitSQL, Dumping, Read, Verified, Ended
    <3> QED
      BY <2>7, <3>0, <3>1, <3>2
  <2>10. CASE Transferred(a) \/ Verify(a) \/ Shutdown(a) \/ WaitStopped(a) \/ Commit(a)
    <3>1. /\ got'[a] = got[a] /\ pin'[a] = pin[a] /\ (tpod'[a] # "none" => tpod[a] # "none")
      <4>1. CASE Transferred(a) \/ Verify(a) \/ Commit(a)
        BY <4>1 DEF Transferred, Verify, Commit, Goto, TypeOK
      <4>2. CASE Shutdown(a) \/ WaitStopped(a)
        BY <4>2 DEF Shutdown, WaitStopped, Goto, TypeOK
      <4> QED
        BY <2>10, <4>1, <4>2
    <3>3. /\ pc'[a] \in Filling => pc[a] \in Filling
          /\ pc'[a] \notin {"transfer", "inspectReceipt"} \cup Resuming
      <4>1. CASE Transferred(a) \/ Verify(a) \/ Commit(a)
        BY <4>1 DEF Transferred, Verify, Commit, Goto, TypeOK, Filling, Resuming, Dumping, Read, Verified
      <4>2. CASE Shutdown(a) \/ WaitStopped(a)
        BY <4>2, SMTT(20) DEF Shutdown, WaitStopped, Goto, TypeOK, Filling, Resuming, Dumping, Read, Verified
      <4> QED
        BY <2>10, <4>1, <4>2
    <3>2. got[a] # Nothing => pc'[a] \in Dumping \cup Read \cup {"release", "cleanup", "unwind"} \cup Ended
      BY <1>1, <2>10 DEF OwnershipOf, Transferred, Verify, Shutdown, WaitStopped, Commit, Goto, TypeOK,
         Dumping, Read, Verified, Ended
    <3> QED
      BY <2>7, <3>1, <3>2, <3>3
  <2>11. CASE Release(a) \/ Cleanup(a) \/ Fail(a) \/ Unwind(a) \/ Die(a)
    <3>1. /\ got'[a] = got[a] /\ pin'[a] = pin[a] /\ tpod' = tpod
          /\ pc'[a] \in {"cleanup", "unwind"} \cup Ended
      BY <2>11 DEF Release, Cleanup, Fail, Unwind, Die, Goto, TypeOK, Ended
    <3> QED
      BY <2>7, <3>1 DEF Filling, Resuming, Dumping, Read, Verified, Ended
  <2> QED
    BY <1>3, <2>3, <2>4, <2>5, <2>6, <2>8, <2>9, <2>10, <2>11 DEF ExecuteDomain
<1> QED
  BY <1>2, <1>3

-----------------------------------------------------------------------------
(* What was verified, and what the receipt says. *)

\* Nothing is restored into a volume that holds a whole database.
LEMMA WholeIsLeft ==
    ASSUME NEW b \in Attempts, NEW t \in Tables, RestoreTable(b, t)
    PROVE  data \notin Contents
<1>1. None \notin Cells
  BY RestoreAssumption DEF None, Cells
<1> QED
  BY <1>1 DEF RestoreTable, Contents

\* Pods and others change the volume by a restored table, or with the claim.
LEMMA VolumeOutside ==
    ASSUME TypeOK, Outside \/ \E b \in Attempts : Pods(b)
    PROVE  \/ claim' = 0
           \/ claim = 0 /\ claim' = uids + 1
           \/ UNCHANGED <<claim, data>>
           \/ UNCHANGED claim /\ data \notin Contents
<1> USE DEF source, client, volume, cluster, locals
<1>1. CASE \E b \in Attempts, t \in Tables : RestoreTable(b, t)
  BY <1>1, WholeIsLeft DEF RestoreTable
<1>2. CASE ~\E b \in Attempts, t \in Tables : RestoreTable(b, t)
  BY <1>2 DEF Outside, DML, DDL, IdentityChanges, SourceHelperGone, ForeignDelete, ForeignCreate, Pods, TargetInit,
     ServerStarts, ServerExits, TargetDies, TargetGone, HelperDeadline, SessionLost
<1> QED
  BY <1>1, <1>2

\* An execution changes the volume only by creating the claim.
LEMMA VolumeExecutor ==
    ASSUME TypeOK, NEW a \in Attempts, ExecuteDomain(a)
    PROVE  \/ CreateClaim(a) /\ claim = 0 /\ claim' = uids + 1 /\ pc'[a] = "mkTarget" /\ pc[a] = "create"
           \/ ~CreateClaim(a) /\ UNCHANGED <<claim, data>>
<1> USE DEF source, client, volume, cluster, locals
<1>1. CASE CreateClaim(a)
  BY <1>1 DEF CreateClaim, Goto, TypeOK
<1>2. CASE ~CreateClaim(a)
  BY <1>2 DEF ExecuteDomain, CreateSourceHelper, Identify, HoldDDL, Check, InspectConsumers, InspectClaim,
     InspectReceipt, Redump, ProvisionConsumers, CreateTargetPod, WaitSQL, BeginTransfer,
     Transferred, Verify, Shutdown, WaitStopped, Commit, Release, Cleanup, Fail, Unwind, Die, DumpTable
<1> QED
  BY <1>1, <1>2

\* An execution that has verified holds a database the source was in.
LEMMA VerifiedIsWhole ==
    ASSUME TypeOK, Snapshot, Ownership, NEW a \in Attempts, pc[a] \in Verified
    PROVE  got[a] \in hist /\ got[a] \in Contents /\ pin[a] \in Nat /\ pin[a] # 0 /\ pin[a] # uids + 1
<1>1. got[a] \in hist
  BY DEF Snapshot, SnapshotOf, Read
<1>2. pin[a] # 0
  BY DEF Ownership, OwnershipOf, Filling, Read
<1>3. pin[a] \in 0..uids /\ uids \in Nat
  BY DEF TypeOK
<1> QED
  BY <1>1, <1>2, <1>3 DEF TypeOK

\* The volume stays as it was verified while Pods and others step.
LEMMA VerificationOutside ==
    ASSUME TypeOK, Snapshot, Ownership, Verification, Outside \/ \E b \in Attempts : Pods(b)
    PROVE  Verification'
<1>1. UNCHANGED <<pc, pin, got>>
  BY LocalsKept
<1> SUFFICES ASSUME NEW a \in Attempts, pc[a] \in Verified, claim' = pin[a]
             PROVE  data' = got[a]
  BY <1>1 DEF Verification
<1>2. got[a] \in Contents /\ pin[a] # 0 /\ pin[a] # uids + 1
  BY VerifiedIsWhole
<1> QED
  BY <1>2, VolumeOutside DEF Verification

\* The volume stays as it was verified while executions step.
LEMMA VerificationExecutor ==
    ASSUME TypeOK, Snapshot, Ownership, Verification, NEW a \in Attempts, ExecuteDomain(a)
    PROVE  Verification'
<1> USE DEF source, client, volume, cluster, locals
<1>1. ASSUME NEW b \in Attempts, pc'[b] = pc[b], pin'[b] = pin[b], got'[b] = got[b], pc'[b] \in Verified, claim' = pin'[b]
      PROVE  data' = got'[b]
  <2>1. got[b] \in Contents /\ pin[b] # 0 /\ pin[b] # uids + 1
    BY <1>1, VerifiedIsWhole
  <2> QED
    BY <1>1, <2>1, VolumeExecutor DEF Verification
<1>2. ASSUME NEW b \in Attempts \ {a}, pc'[b] \in Verified, claim' = pin'[b] PROVE data' = got'[b]
  BY <1>1, <1>2, OthersKept
<1> SUFFICES ASSUME pc'[a] \in Verified, claim' = pin'[a] PROVE data' = got'[a]
  BY <1>2 DEF Verification
<1>3. ~CreateClaim(a) /\ UNCHANGED <<claim, data>>
  BY VolumeExecutor DEF Verified
<1>4. CASE Verify(a)
  BY <1>4 DEF Verify
<1>5. ASSUME pc[a] \in Verified, UNCHANGED <<pin, got>> PROVE data' = got'[a]
  BY <1>3, <1>5 DEF Verification
<1>6. CASE Check(a)
  <2>1. pc[a] \in CheckPoints /\ pc'[a] = AfterCheck[pc[a]] /\ UNCHANGED <<pin, got>>
    BY <1>6 DEF Check, Goto, TypeOK
  <2>2. pc[a] \in Verified
    BY <2>1, CheckLeadsTo DEF CheckPoints, Verified
  <2> QED
    BY <1>5, <2>1, <2>2
<1>7. CASE Shutdown(a) \/ WaitStopped(a)
  BY <1>5, <1>7 DEF Shutdown, WaitStopped, Goto, TypeOK, Verified
<1>8. ~(Verify(a) \/ Check(a) \/ Shutdown(a) \/ WaitStopped(a)) => pc'[a] \notin Verified
  <2>1. ASSUME CreateSourceHelper(a) \/ Identify(a) \/ HoldDDL(a) \/ InspectConsumers(a) \/ InspectClaim(a)
               \/ InspectReceipt(a) \/ Redump(a) \/ ProvisionConsumers(a) \/ CreateTargetPod(a) \/ WaitSQL(a)
        PROVE  pc'[a] \notin Verified
    BY <2>1, ZenonT(60) DEF CreateSourceHelper, Identify, HoldDDL, InspectConsumers, InspectClaim, InspectReceipt, Redump,
       ProvisionConsumers, CreateTargetPod, WaitSQL, Goto, TypeOK, Verified
  <2>2. ASSUME BeginTransfer(a) \/ Transferred(a) \/ Commit(a) \/ Release(a) \/ Cleanup(a) \/ Fail(a) \/ Unwind(a)
               \/ Die(a) \/ \E t \in Tables : DumpTable(a, t)
        PROVE  pc'[a] \notin Verified
    BY <2>2 DEF BeginTransfer, Transferred, Commit, Release, Cleanup, Fail, Unwind, Die, DumpTable, Goto, TypeOK, Verified, Ended
  <2> QED
    BY <1>3, <2>1, <2>2 DEF ExecuteDomain
<1> QED
  BY <1>4, <1>6, <1>7, <1>8

\* A true receipt stays true when the volume does, or goes with its claim.
LEMMA ReceiptKept ==
    ASSUME TypeOK, Receipts, UNCHANGED receipt, hist \subseteq hist',
           \/ claim' = 0
           \/ claim = 0 /\ claim' = uids + 1
           \/ UNCHANGED <<claim, data>>
           \/ UNCHANGED claim /\ data \notin Contents
    PROVE  (receipt # NoReceipt => receipt.uid # 0)' /\ ReceiptIsTrue'
<1>1. receipt.uid \in 0..uids /\ uids \in Nat /\ receipt.uid # uids + 1
  BY DEF TypeOK
<1>2. receipt # NoReceipt => receipt.proof \in Contents /\ receipt.uid # 0
  BY DEF Receipts, ReceiptIsTrue, TypeOK
<1> QED
  BY <1>1, <1>2 DEF Receipts, ReceiptIsTrue

\* Pods and others leave the receipt, and what it says stays true.
LEMMA ReceiptsOutside ==
    ASSUME TypeOK, Receipts, Outside \/ \E b \in Attempts : Pods(b)
    PROVE  Receipts'
<1>1. UNCHANGED <<pc, pin, result, receipt>> /\ hist \subseteq hist'
  BY LocalsKept
<1>2. (receipt # NoReceipt => receipt.uid # 0)' /\ ReceiptIsTrue'
  BY <1>1, ReceiptKept, VolumeOutside
<1> QED
  BY <1>1, <1>2 DEF Receipts

\* The receipt is created once, for what was verified; an execution that found
\* one returns it after reading the same database back.
LEMMA ReceiptsExecutor ==
    ASSUME TypeOK, Snapshot, Ownership, Verification, Receipts, NEW a \in Attempts, ExecuteDomain(a)
    PROVE  Receipts'
<1> USE DEF source, client, volume, cluster, locals
<1>1. CASE Commit(a)
  <2>1. /\ receipt = NoReceipt /\ receipt' = [uid |-> pin[a], proof |-> got[a]] /\ UNCHANGED <<claim, data, pin, got, hist>>
        /\ pc[a] \in Verified
        /\ \/ pc'[a] = "release" /\ result'[a] = got[a]
           \/ pc'[a] = "unwind"
    BY <1>1 DEF Commit, Goto, TypeOK, Verified
  <2>2. got[a] \in hist /\ pin[a] # 0
    BY <2>1, VerifiedIsWhole
  <2>3. receipt' # NoReceipt /\ receipt'.uid = pin[a] /\ receipt'.proof = got[a]
    BY <2>1, <2>2 DEF NoReceipt
  <2>4. ReceiptIsTrue'
    BY <2>1, <2>2, <2>3 DEF ReceiptIsTrue, Verification
  <2>5. ASSUME NEW b \in Attempts
        PROVE  /\ pc'[b] \in Resuming => receipt'.uid = pin'[b]
               /\ pc'[b] \in Reporting => receipt' # NoReceipt /\ result'[b] = receipt'.proof
    <3>1. CASE b = a
      BY <2>1, <2>3, <3>1 DEF Resuming, Reporting
    <3>2. CASE b # a
      <4>1. pc'[b] = pc[b]
        BY <3>2, OthersKept
      <4>2. pc[b] \notin Resuming
        <5>1. pc[b] \in Resuming => receipt.uid = pin[b] /\ pin[b] # 0
          BY DEF Receipts, Ownership, OwnershipOf
        <5> QED
          BY <2>1, <5>1 DEF NoReceipt
      <4>3. pc[b] \notin Reporting
        BY <2>1 DEF Receipts
      <4> QED
        BY <4>1, <4>2, <4>3
    <3> QED
      BY <3>1, <3>2
  <2> QED
    BY <2>2, <2>3, <2>4, <2>5 DEF Receipts
<1>2. CASE ~Commit(a)
  <2>1. UNCHANGED receipt
    BY <1>2 DEF ExecuteDomain, CreateSourceHelper, Identify, HoldDDL, Check, InspectConsumers, InspectClaim,
     InspectReceipt, Redump, ProvisionConsumers, CreateClaim, CreateTargetPod, WaitSQL, BeginTransfer,
     Transferred, Verify, Shutdown, WaitStopped, Release, Cleanup, Fail, Unwind, Die, DumpTable
  <2>2. (receipt # NoReceipt => receipt.uid # 0)' /\ ReceiptIsTrue'
    <3>1. hist' = hist
      BY SourceKept
    <3> QED
      BY <2>1, <3>1, ReceiptKept, VolumeExecutor
  <2>3. ASSUME NEW b \in Attempts \ {a}
        PROVE  /\ pc'[b] \in Resuming => receipt.uid = pin'[b]
               /\ pc'[b] \in Reporting => receipt # NoReceipt /\ result'[b] = receipt.proof
    BY <2>3, OthersKept DEF Receipts
  <2> SUFFICES /\ pc'[a] \in Resuming => receipt.uid = pin'[a]
               /\ pc'[a] \in Reporting => receipt # NoReceipt /\ result'[a] = receipt.proof
    BY <2>1, <2>2, <2>3 DEF Receipts
  <2>4. ASSUME UNCHANGED <<pin, result>>,
               pc'[a] \in Resuming => pc[a] \in Resuming, pc'[a] \in Reporting => pc[a] \in Reporting
        PROVE  /\ pc'[a] \in Resuming => receipt.uid = pin'[a]
               /\ pc'[a] \in Reporting => receipt # NoReceipt /\ result'[a] = receipt.proof
    BY <2>4 DEF Receipts
  <2>5. CASE InspectReceipt(a)
    BY <2>5 DEF InspectReceipt, Goto, TypeOK, Resuming, Reporting
  <2>6. CASE Redump(a)
    <3>1. pc[a] = "redump" /\ pc'[a] = "stopResume" /\ result'[a] = receipt.proof
      BY <2>6 DEF Redump, Goto, TypeOK
    <3>2. receipt.uid = pin[a] /\ pin[a] # 0
      BY <3>1 DEF Receipts, Resuming, Ownership, OwnershipOf
    <3> QED
      BY <3>1, <3>2 DEF NoReceipt, Resuming
  <2>7. CASE Check(a)
    <3>1. pc[a] \in CheckPoints /\ pc'[a] = AfterCheck[pc[a]] /\ UNCHANGED <<pin, result>>
      BY <2>7 DEF Check, Goto, TypeOK
    <3>2. pc'[a] \notin Resuming /\ (pc'[a] \in Reporting => pc[a] \in Reporting)
      BY <3>1, CheckLeadsTo DEF CheckPoints, Resuming, Reporting
    <3> QED
      BY <2>4, <3>1, <3>2
  <2>8. CASE CreateTargetPod(a) \/ WaitSQL(a) \/ Shutdown(a) \/ WaitStopped(a) \/ Release(a) \/ Cleanup(a)
    <3>1. UNCHANGED <<pin, result>>
      BY <2>8 DEF CreateTargetPod, WaitSQL, Shutdown, WaitStopped, Release, Cleanup
    <3>2. (pc'[a] \in Resuming => pc[a] \in Resuming) /\ (pc'[a] \in Reporting => pc[a] \in Reporting)
      BY <2>8 DEF CreateTargetPod, WaitSQL, Shutdown, WaitStopped, Release, Cleanup, Goto, TypeOK, Resuming, Reporting
    <3> QED
      BY <2>4, <3>1, <3>2
  <2>9. ASSUME \/ CreateSourceHelper(a) \/ Identify(a) \/ HoldDDL(a) \/ InspectConsumers(a) \/ InspectClaim(a)
               \/ ProvisionConsumers(a) \/ CreateClaim(a)
        PROVE  pc'[a] \notin Resuming \cup Reporting
    BY <2>9 DEF CreateSourceHelper, Identify, HoldDDL, InspectConsumers, InspectClaim, ProvisionConsumers, CreateClaim,
       Goto, TypeOK, Resuming, Reporting
  <2>10. ASSUME \/ BeginTransfer(a) \/ Transferred(a) \/ Verify(a) \/ Fail(a) \/ Unwind(a) \/ Die(a)
                \/ \E t \in Tables : DumpTable(a, t)
         PROVE  pc'[a] \notin Resuming \cup Reporting
    BY <2>10 DEF BeginTransfer, Transferred, Verify, Fail, Unwind, Die, DumpTable, Goto, TypeOK, Resuming, Reporting
  <2> QED
    BY <1>2, <2>5, <2>6, <2>7, <2>8, <2>9, <2>10 DEF ExecuteDomain
<1> QED
  BY <1>1, <1>2

-----------------------------------------------------------------------------
(* The invariance theorem and what follows from it. *)

\* Nothing is claimed, read, verified or published at the start.
LEMMA Initially == Init => IInv
<1> SUFFICES ASSUME Init PROVE IInv
  OBVIOUS
<1> USE RestoreAssumption
<1>1. db \in Contents /\ hist = {db}
  BY DEF Init, Contents, Cells
<1>2. TypeOK
  <2>1. ddls \in 0..MaxDDL /\ dmls \in 0..MaxDML /\ ident \in 0..MaxChanges /\ seen \in [Attempts -> 0..MaxChanges]
        /\ swaps \in 0..MaxSwaps
    BY DEF Init
  <2>2. srcPod \in Attempts \cup {"nobody"} /\ srcUp \in BOOLEAN /\ lock \in [Attempts -> {"none", "held", "lost"}]
    BY DEF Init
  <2>3. uids \in Nat /\ claim \in 0..uids /\ claimFile \in 0..uids /\ maker \in Attempts \cup {"nobody", "other"}
        /\ pin \in [Attempts -> 0..uids]
    BY DEF Init
  <2>4. data \in Partials /\ snap \in [Attempts -> Partials] /\ got \in [Attempts -> Partials]
        /\ result \in [Attempts -> Partials] /\ receipt \in [uid: 0..uids, proof: Partials]
    BY <2>3, PartialContents DEF Init, NoReceipt
  <2>5. tpod \in [Attempts -> PodStates] /\ pc \in [Attempts -> Lines]
    BY DEF Init, PodStates, Lines
  <2> QED
    BY <1>1, <2>1, <2>2, <2>3, <2>4, <2>5 DEF TypeOK
<1>3. \A a \in Attempts : pc[a] = "start" /\ got[a] = Nothing
  BY DEF Init
<1>4. Snapshot
  BY <1>1, <1>3 DEF Snapshot, SnapshotOf, Dumping, Read, Verified
<1>5. Ownership
  BY <1>3 DEF Init, Ownership, OwnershipOf, RowsOnlyInOwnClaim, Filling, Resuming, Dumping, Read, Verified
<1>6. Verification /\ Receipts
  BY <1>3 DEF Init, Verification, Receipts, ReceiptIsTrue, Verified, Resuming, Reporting
<1> QED
  BY <1>2, <1>4, <1>5, <1>6 DEF IInv

\* Every step keeps the inductive invariant.
LEMMA InductiveStep == IInv /\ [Next]_vars => IInv'
<1> SUFFICES ASSUME IInv, [Next]_vars PROVE IInv'
  OBVIOUS
<1>1. TypeOK /\ Snapshot /\ Ownership /\ Verification /\ Receipts
  BY DEF IInv
<1>2. CASE Next
  <2>1. TypeOK'
    BY <1>1, <1>2, TypeStep
  <2>2. CASE Outside \/ \E b \in Attempts : Pods(b)
    BY <1>1, <2>1, <2>2, SnapshotOutside, OwnershipOutside, VerificationOutside, ReceiptsOutside DEF IInv
  <2>3. ASSUME NEW a \in Attempts, ExecuteDomain(a) PROVE IInv'
    BY <1>1, <2>1, <2>3, SnapshotExecutor, OwnershipExecutor, VerificationExecutor, ReceiptsExecutor DEF IInv
  <2> QED
    BY <1>2, <2>2, <2>3 DEF Next
<1>3. CASE UNCHANGED vars
  <2> USE DEF vars, source, client, volume, cluster, locals
  <2>1. TypeOK'
    BY <1>1, <1>3 DEF TypeOK
  <2>2. Snapshot'
    BY <1>1, <1>3 DEF Snapshot, SnapshotOf
  <2>3. Ownership' /\ Verification'
    BY <1>1, <1>3 DEF Ownership, OwnershipOf, RowsOnlyInOwnClaim, Verification
  <2>4. Receipts'
    BY <1>1, <1>3 DEF Receipts, ReceiptIsTrue
  <2> QED
    BY <2>1, <2>2, <2>3, <2>4 DEF IInv
<1> QED
  BY <1>2, <1>3

\* The inductive invariant holds throughout.
THEOREM Invariance == Spec => []IInv
  BY Initially, InductiveStep, PTL DEF Spec

\* Every variable keeps its type, every execution is at a line of ExecuteDomain.
THEOREM TypeCorrect == Spec => []TypeOK
<1>1. IInv => TypeOK
  BY DEF IInv
<1> QED
  BY <1>1, Invariance, PTL

\* A receipt is one state the source was in and what the claim it names holds.
THEOREM TrueReceipt == Spec => []ReceiptIsTrue
<1>1. IInv => ReceiptIsTrue
  BY DEF IInv, Receipts
<1> QED
  BY <1>1, Invariance, PTL

\* Rows go only to a claim that an execution of the plan created.
THEOREM OwnRows == Spec => []RowsOnlyInOwnClaim
<1>1. IInv => RowsOnlyInOwnClaim
  BY DEF IInv, Ownership
<1> QED
  BY <1>1, Invariance, PTL

\* A claim whose execution has ended, and whose Pod is gone, gets no more rows:
\* the rows of an execution go to the claim that the same execution created.
THEOREM PartialStays == Spec => PartialIsLeftAlone
<1>1. IInv /\ [Next]_vars =>
        [(maker \in Attempts /\ pc[maker] \in Ended /\ tpod[maker] = "none" /\ claim' = claim) => data' = data]_vars
  <2> SUFFICES ASSUME IInv, Next, maker \in Attempts, tpod[maker] = "none", claim' = claim
               PROVE  data' = data
    OBVIOUS
  <2>1. TypeOK /\ Ownership
    BY DEF IInv
  <2>2. claim \in Nat /\ claim # 0 /\ uids \in Nat /\ claim # uids + 1
    BY <2>1, RestoreAssumption DEF Ownership, TypeOK
  <2>3. ASSUME NEW a \in Attempts, ExecuteDomain(a) PROVE data' = data
    BY <2>1, <2>2, <2>3, VolumeExecutor
  <2>4. ASSUME NEW b \in Attempts, NEW t \in Tables, RestoreTable(b, t) PROVE FALSE
    <3>1. maker = b
      BY <2>1, <2>4, RowsAtHome
    <3> QED
      BY <2>4, <3>1 DEF RestoreTable
  <2>5. CASE Outside \/ \E b \in Attempts : Pods(b)
    <3> USE DEF source, client, volume, cluster, locals
    <3> QED
      BY <2>2, <2>4, <2>5 DEF Outside, DML, DDL, IdentityChanges, SourceHelperGone, ForeignDelete, ForeignCreate, Pods,
         TargetInit, ServerStarts, ServerExits, TargetDies, TargetGone, HelperDeadline, SessionLost
  <2> QED
    BY <2>3, <2>5 DEF Next
<1> QED
  BY <1>1, Invariance, PTL DEF Spec, PartialIsLeftAlone

\* Commit publishes, Cleanup reports, a change of the source is seen, and
\* nothing else shows.
LEMMA PromiseStep ==
    ASSUME IInv, [Next]_vars
    PROVE  [Promise!SpecNext]_(Promise!specVars)
<1> DEFINE rep == [a \in Attempts |-> IF pc[a] = "done" THEN result[a] ELSE Nothing]
<1> USE DEF source, client, volume, cluster, locals
<1>1. TypeOK /\ Snapshot /\ Ownership /\ Receipts
  BY DEF IInv
<1>2. ASSUME NEW a \in Attempts, Commit(a) PROVE [Promise!SpecNext]_(Promise!specVars)
  <2>1. receipt = NoReceipt /\ receipt' = [uid |-> pin[a], proof |-> got[a]] /\ UNCHANGED hist /\ pc[a] = "commit"
    BY <1>2 DEF Commit
  <2>2. got[a] \in hist
    BY <1>1, <2>1, VerifiedIsWhole DEF Verified
  <2>3. rep' = rep
    <3>1. \A b \in Attempts : (pc'[b] = "done") = (pc[b] = "done") /\ (pc[b] = "done" => result'[b] = result[b])
      BY <1>1, <1>2 DEF Commit, Goto, TypeOK
    <3> QED
      BY <3>1
  <2> QED
    BY <2>1, <2>2, <2>3 DEF Promise!SpecNext, Promise!Publish, NoReceipt
<1>3. ASSUME NEW a \in Attempts, Cleanup(a) PROVE [Promise!SpecNext]_(Promise!specVars)
  <2>1. pc[a] = "cleanup" /\ pc' = [pc EXCEPT ![a] = "done"] /\ UNCHANGED <<receipt, hist, result>>
    BY <1>3 DEF Cleanup, Goto
  <2>2. result[a] = receipt.proof
    BY <1>1, <2>1 DEF Receipts, Reporting
  <2>3. rep[a] = Nothing /\ rep' = [rep EXCEPT ![a] = receipt.proof]
    BY <1>1, <2>1, <2>2 DEF TypeOK
  <2>4. receipt.proof # Nothing
    BY <1>1, <2>1, PartialContents DEF Receipts, ReceiptIsTrue, Reporting, TypeOK
  <2> QED
    BY <2>1, <2>3, <2>4 DEF Promise!SpecNext, Promise!Report
<1>4. ASSUME NEW t \in Tables, DML(t) \/ DDL(t) PROVE [Promise!SpecNext]_(Promise!specVars)
  <2>1. db' \in Contents /\ hist' = hist \cup {db'}
    BY <1>1, <1>4, SourceStep
  <2>2. UNCHANGED <<receipt, rep>>
    BY <1>4 DEF DML, DDL
  <2> QED
    BY <2>1, <2>2 DEF Promise!SpecNext, Promise!SourceChanges
<1>5. ASSUME UNCHANGED <<hist, receipt>>,
             \A a \in Attempts : (pc'[a] = "done") = (pc[a] = "done") /\ (pc[a] = "done" => result'[a] = result[a])
      PROVE  [Promise!SpecNext]_(Promise!specVars)
  <2>1. rep' = rep
    BY <1>5
  <2> QED
    BY <1>5, <2>1 DEF Promise!specVars
<1>6. ASSUME NEW a \in Attempts, ExecuteDomain(a), ~Commit(a), ~Cleanup(a) PROVE [Promise!SpecNext]_(Promise!specVars)
  <2>1. UNCHANGED hist
    BY <1>6, SourceKept
  <2>2. UNCHANGED receipt
    BY <1>6 DEF ExecuteDomain, CreateSourceHelper, Identify, HoldDDL, Check, InspectConsumers, InspectClaim,
     InspectReceipt, Redump, ProvisionConsumers, CreateClaim, CreateTargetPod, WaitSQL, BeginTransfer,
     Transferred, Verify, Shutdown, WaitStopped, Release, Fail, Unwind, Die, DumpTable
  <2>3. pc'[a] # "done" /\ pc[a] # "done"
    <3>1. CASE Check(a)
      BY <1>1, <3>1, CheckLeadsTo DEF Check, CheckPoints, Goto, TypeOK
    <3>2. CASE ~Check(a)
      BY <1>1, <1>6, <3>2 DEF ExecuteDomain, CreateSourceHelper, Identify, HoldDDL, InspectConsumers, InspectClaim,
       InspectReceipt, Redump, ProvisionConsumers, CreateClaim, CreateTargetPod, WaitSQL, BeginTransfer,
       Transferred, Verify, Shutdown, WaitStopped, Release, Fail, Unwind, Die, DumpTable, Goto, TypeOK, Ended
    <3> QED
      BY <3>1, <3>2
  <2>4. \A b \in Attempts \ {a} : pc'[b] = pc[b] /\ result'[b] = result[b]
    BY <1>1, <1>6, OthersKept
  <2> QED
    BY <1>5, <2>1, <2>2, <2>3, <2>4
<1>7. CASE (Outside /\ ~\E t \in Tables : DML(t) \/ DDL(t)) \/ \E b \in Attempts : Pods(b)
  <2>1. UNCHANGED <<pc, result, receipt>>
    BY <1>1, <1>7, LocalsKept
  <2>2. UNCHANGED hist
    BY <1>7, SourceKept DEF Outside, IdentityChanges, SourceHelperGone, ForeignDelete, ForeignCreate
  <2> QED
    BY <1>5, <2>1, <2>2
<1>8. CASE UNCHANGED vars
  BY <1>5, <1>8 DEF vars
<1> QED
  BY <1>2, <1>3, <1>4, <1>6, <1>7, <1>8 DEF Next, Outside

\* The restore keeps the promise: one state of the source is published, for
\* good, and it is what every successful execution returns.
THEOREM Refinement == Spec => ImplementsVerifiedCopy
<1>1. Init => Promise!SpecInit
  <2> SUFFICES ASSUME Init PROVE Promise!SpecInit
    OBVIOUS
  <2>1. db \in Contents /\ hist = {db}
    BY RestoreAssumption DEF Init, Contents, Cells
  <2>2. receipt.proof = Nothing
    BY DEF Init, NoReceipt
  <2>3. [a \in Attempts |-> IF pc[a] = "done" THEN result[a] ELSE Nothing] = [a \in Attempts |-> Nothing]
    BY DEF Init
  <2> QED
    BY <2>1, <2>2, <2>3 DEF Promise!SpecInit
<1>2. IInv /\ [Next]_vars => [Promise!SpecNext]_(Promise!specVars)
  BY PromiseStep
<1> QED
  BY <1>1, <1>2, Invariance, PTL DEF Spec, ImplementsVerifiedCopy, Promise!CopySpec

-----------------------------------------------------------------------------
(* The backup lock. *)

\* The backup lock is held by at most one execution, and never without the client
\* container that carries its session, so that the deadline of that container is
\* an end of the lock for an execution that has ended or died.
HoldIsCarried == \A a \in Attempts : lock[a] = "held" => ClientRuns(a)

\* Every step keeps each held lock with the client container of its execution.
LEMMA HoldStep ==
    ASSUME TypeOK, HoldIsCarried, [Next]_vars
    PROVE  HoldIsCarried'
<1> USE DEF source, client, volume, cluster, locals
<1>0. lock \in [Attempts -> {"none", "held", "lost"}] /\ "nobody" \notin Attempts
  BY RestoreAssumption DEF TypeOK
<1>1. CASE UNCHANGED <<srcPod, srcUp>> /\ \A a \in Attempts : lock'[a] = "held" => lock[a] = "held"
  BY <1>1 DEF HoldIsCarried, ClientRuns
<1>2. CASE IdentityChanges
  <2>1. UNCHANGED <<srcPod, srcUp>> /\ (LoseLocks(Attempts) \/ UNCHANGED lock)
    BY <1>2 DEF IdentityChanges
  <2> QED
    BY <1>1, <2>1, LocksLost
<1>3. CASE ForeignDelete \/ ForeignCreate \/ \E t \in Tables : DML(t) \/ DDL(t)
  <2>1. UNCHANGED <<srcPod, srcUp, lock>>
    BY <1>3 DEF ForeignDelete, ForeignCreate, DML, DDL
  <2> QED
    BY <1>1, <2>1
<1>4. CASE SourceHelperGone
  <2>1. lock' = [a \in Attempts |-> IF a \in {srcPod} /\ lock[a] = "held" THEN "lost" ELSE lock[a]]
    BY <1>4 DEF SourceHelperGone, LoseLocks
  <2>2. \A a \in Attempts : lock'[a] # "held"
    BY <2>1 DEF HoldIsCarried, ClientRuns
  <2> QED
    BY <2>2 DEF HoldIsCarried
<1>5. ASSUME NEW a \in Attempts, ExecuteDomain(a) PROVE HoldIsCarried'
  <2>1. CASE CreateSourceHelper(a)
    <3>1. srcPod = "nobody" /\ UNCHANGED lock
      BY <2>1 DEF CreateSourceHelper
    <3>2. \A b \in Attempts : lock'[b] # "held"
      BY <1>0, <3>1 DEF HoldIsCarried, ClientRuns
    <3> QED
      BY <3>2 DEF HoldIsCarried
  <2>2. CASE HoldDDL(a)
    <3>1. ClientRuns(a) /\ UNCHANGED <<srcPod, srcUp>> /\ lock' = [lock EXCEPT ![a] = "held"]
      BY <2>2 DEF HoldDDL
    <3>2. \A b \in Attempts \ {a} : lock'[b] = lock[b]
      BY <1>0, <3>1
    <3> QED
      BY <3>1, <3>2 DEF HoldIsCarried, ClientRuns
  <2>3. CASE Release(a) \/ Unwind(a)
    <3>1. UNCHANGED <<srcPod, srcUp>> /\ (UNCHANGED lock \/ lock' = [lock EXCEPT ![a] = "none"])
      BY <2>3 DEF Release, Unwind
    <3>2. \A b \in Attempts : lock'[b] = "held" => lock[b] = "held"
      BY <1>0, <3>1
    <3> QED
      BY <1>1, <3>1, <3>2
  <2>4. CASE \/ Identify(a) \/ Check(a) \/ InspectConsumers(a) \/ InspectClaim(a) \/ InspectReceipt(a)
             \/ Redump(a) \/ ProvisionConsumers(a) \/ CreateClaim(a) \/ CreateTargetPod(a) \/ WaitSQL(a)
    <3>1. UNCHANGED <<srcPod, srcUp, lock>>
      BY <2>4 DEF Identify, Check, InspectConsumers, InspectClaim, InspectReceipt, Redump,
         ProvisionConsumers, CreateClaim, CreateTargetPod, WaitSQL
    <3> QED
      BY <1>1, <3>1
  <2>5. CASE \/ BeginTransfer(a) \/ Transferred(a) \/ Verify(a) \/ Shutdown(a) \/ WaitStopped(a)
             \/ Commit(a) \/ Cleanup(a) \/ Fail(a) \/ Die(a) \/ \E t \in Tables : DumpTable(a, t)
    <3>1. UNCHANGED <<srcPod, srcUp, lock>>
      BY <2>5 DEF BeginTransfer, Transferred, Verify, Shutdown, WaitStopped, Commit, Cleanup, Fail, Die,
         DumpTable
    <3> QED
      BY <1>1, <3>1
  <2> QED
    BY <1>5, <2>1, <2>2, <2>3, <2>4, <2>5 DEF ExecuteDomain
<1>6. ASSUME NEW a \in Attempts, Pods(a) PROVE HoldIsCarried'
  <2>1. CASE HelperDeadline(a)
    <3>1. /\ srcPod = a
          /\ lock' = [b \in Attempts |-> IF b \in {a} /\ lock[b] = "held" THEN "lost" ELSE lock[b]]
      BY <2>1 DEF HelperDeadline, ClientRuns, LoseLocks
    <3>2. \A b \in Attempts : lock'[b] # "held"
      BY <3>1 DEF HoldIsCarried, ClientRuns
    <3> QED
      BY <3>2 DEF HoldIsCarried
  <2>2. CASE SessionLost(a)
    <3>1. UNCHANGED <<srcPod, srcUp>> /\ LoseLocks({a})
      BY <2>2 DEF SessionLost
    <3> QED
      BY <1>1, <3>1, LocksLost
  <2>3. CASE \/ TargetInit(a) \/ ServerStarts(a) \/ ServerExits(a) \/ TargetDies(a) \/ TargetGone(a)
             \/ \E t \in Tables : RestoreTable(a, t)
    <3>1. UNCHANGED <<srcPod, srcUp, lock>>
      BY <2>3 DEF TargetInit, ServerStarts, ServerExits, TargetDies, TargetGone, RestoreTable
    <3> QED
      BY <1>1, <3>1
  <2> QED
    BY <1>6, <2>1, <2>2, <2>3 DEF Pods
<1>7. CASE UNCHANGED vars
  BY <1>1, <1>7 DEF vars
<1> QED
  BY <1>2, <1>3, <1>4, <1>5, <1>6, <1>7 DEF Next, Outside

\* The lock on the production database is never held without the one container
\* that has a deadline, so at most one execution holds it.
THEOREM HoldsAreCarried == Spec => []HoldIsCarried
<1>1. Init => HoldIsCarried
  BY DEF Init, HoldIsCarried
<1>2. TypeOK /\ HoldIsCarried /\ [Next]_vars => HoldIsCarried'
  BY HoldStep
<1> QED
  BY <1>1, <1>2, TypeCorrect, PTL DEF Spec

=============================================================================
