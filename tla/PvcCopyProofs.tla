--------------------------- MODULE PvcCopyProofs ---------------------------
(***************************************************************************)
(* Proofs about PvcCopy for any number of executions, files, workload      *)
(* writes and power losses: one helper process at work at a time, what a   *)
(* completion marker and a reported success stand for, and that an         *)
(* execution's own marker is durable.                                      *)
(***************************************************************************)
EXTENDS PvcCopy, TLAPS

(* The inductive invariant, in four parts. *)

Before == {"check0", "mkSource", "check1", "mkTarget"}
Past == ExecutorStates \ (Before \cup Ended \cup {"check2"})

\* The execution has once been alone on the target and its helper may work.
Cleared(a) == pc[a] \in Past \/ AtWork(a)

\* Of two target helpers at most one belongs to a cleared execution.
Exclusion ==
    /\ \A a \in Attempts : AtWork(a) => a \in tgtPod
    /\ \A a \in Attempts : pc[a] \in Before => a \notin tgtPod /\ hp[a] = "idle"
    /\ \A a \in Attempts : pc[a] = "check2" => ~AtWork(a)
    /\ \A a, b \in Attempts :
          a \in tgtPod /\ b \in tgtPod /\ Cleared(a) /\ Cleared(b) => a = b

Recorded == {"recording", "received", "verifying", "syncing", "synced", "completing", "completed"}
Verifying == {"verifying", "syncing", "synced", "completing", "completed"}

Full(f) == \A c \in Chunks : f[c] # 0

\* Contents only grow, so a content that lies between the first reading and the
\* source, and below the second reading, is a state of the source; when the
\* readings agree they are that state.
Between(a) ==
    \E h \in hist : \A c \in Chunks :
        /\ got[a][c] <= h[c] /\ h[c] <= src[c]
        /\ again[a][c] # 0 => h[c] <= again[a][c]

Snapshot ==
    /\ src \in hist
    /\ \A c \in Chunks : src[c] <= writes + 1
    /\ \A a \in Attempts, c \in Chunks : got[a][c] <= src[c]
    /\ \A a \in Attempts :
          /\ pc[a] \in Before \cup {"check2", "check3", "inspect", "check5", "stream", "check6"}
                => again[a] = Blank
          /\ pc[a] \in {"check6", "reread"} => Full(got[a]) /\ Between(a)
          /\ pc[a] \in {"check7", "complete"} => Full(got[a]) /\ got[a] \in hist
          /\ hp[a] \in Recorded => Full(got[a])
          /\ hp[a] \in Verifying => got[a] \in hist

\* Nothing is on the target without the state directory, and nothing but the
\* claim without both being durable.
Layout ==
    /\ ~vol.state => ~vol.claim
    /\ vol.payload # Blank \/ vol.received # Blank \/ vol.complete # Blank =>
          vol.state /\ vol.claim /\ {"state", "claim"} \subseteq dur
    /\ "state" \in dur => vol.state
    /\ "claim" \in dur => vol.claim
    /\ "payload" \in dur => vol.payload # Blank
    /\ "received" \in dur => vol.received # Blank
    /\ "complete" \in dur => vol.complete # Blank

\* What a helper process finds on the target in each of its states.
View(a) ==
    /\ hp[a] \in {"importing", "inspected", "claiming", "claimed"} => got[a] = Blank
    /\ AtWork(a) /\ hp[a] \notin {"importing", "inspected"} => vol.state
    /\ hp[a] \in {"claiming", "claimed", "receiving"} =>
          vol.payload = got[a] /\ vol.received = Blank /\ vol.complete = Blank
    /\ hp[a] = "claimed" => vol.claim
    /\ hp[a] \in {"receiving"} \cup Recorded => {"state", "claim"} \subseteq dur
    /\ hp[a] \in Recorded => vol.payload = got[a] /\ vol.received = got[a]
    /\ hp[a] \in Recorded \ {"recording"} => "received" \in dur
    /\ hp[a] \in Recorded \ {"completing", "completed"} => vol.complete = Blank
    /\ hp[a] \in {"synced", "completing", "completed"} => "payload" \in dur
    /\ hp[a] \in {"completing", "completed"} => vol.complete = got[a]

\* Before its import starts an execution has received nothing.
Unstarted(a) ==
    (\/ pc[a] \in Before \cup {"check2", "check3", "inspect", "check5"}
     \/ pc[a] = "stream" /\ hp[a] = "idle") => got[a] = Blank

\* All but the completion marker is on stable storage.
Synced == Parts \ {"complete"} \subseteq dur

\* The copy that an execution has in hand is a state of the source, and synced.
Holds(a) ==
    /\ Synced
    /\ result[a] # Blank /\ vol.payload = result[a] /\ vol.received = result[a]
    /\ result[a] \in hist

Volume ==
    /\ Layout
    /\ \A a \in Attempts : View(a) /\ Unstarted(a)

Markers ==
    /\ vol.complete # Blank => CompleteIsFaithful /\ Synced
    /\ \A a \in Attempts : pc[a] \in {"check4", "check8", "return", "done"} => Holds(a)

IInv == TypeOK /\ Exclusion /\ Snapshot /\ Volume /\ Markers

-----------------------------------------------------------------------------
(* The type invariant. *)

VolumeType == [state: BOOLEAN, claim: BOOLEAN, payload: Partials,
               received: Partials, complete: Partials]

\* The receipt of an empty volume is a partial content.
LEMMA BlankIsPartial == Blank \in Partials
  BY CopyAssumption DEF Blank, Partials, Chunks

\* Every step keeps every variable in its type.
LEMMA TypeStep ==
    ASSUME TypeOK, [Next]_vars
    PROVE  TypeOK'
<1> USE DEF TypeOK, source, target, pods, locals, ExecutorStates, HelperStates, CheckPoints, Ended, Goto
<1>1. ASSUME NEW a \in Attempts, Executor(a) PROVE TypeOK'
  <2>1. CASE Check(a)
    BY <2>1 DEF Check, AfterCheck, CheckPoints
  <2>2. CASE CreateSourceHelper(a)
    BY <2>2 DEF CreateSourceHelper
  <2>3. CASE CreateTargetHelper(a)
    BY <2>3 DEF CreateTargetHelper
  <2>4. CASE Inspect(a)
    BY <2>4 DEF Inspect
  <2>5. CASE Streamed(a)
    BY <2>5 DEF Streamed
  <2>6. CASE SourceUnchanged(a)
    BY <2>6 DEF SourceUnchanged
  <2>7. CASE Completed(a)
    BY <2>7 DEF Completed
  <2>8. CASE Return(a)
    BY <2>8 DEF Return
  <2>9. ASSUME NEW c \in Chunks, Transfer(a, c) PROVE TypeOK'
    <3>1. src[c] \in 0..(MaxWrites + 1)
      BY CopyAssumption DEF Contents
    <3>2. got' \in [Attempts -> Partials]
      BY <2>9, <3>1 DEF Transfer, Partials
    <3>3. vol' \in VolumeType
      BY <2>9, <3>1 DEF Transfer, VolumeType, Partials
    <3> QED
      BY <2>9, <3>2, <3>3 DEF Transfer, VolumeType
  <2>10. ASSUME NEW c \in Chunks, Reread(a, c) PROVE TypeOK'
    <3>1. src[c] \in 0..(MaxWrites + 1)
      BY CopyAssumption DEF Contents
    <3>2. again' \in [Attempts -> Partials]
      BY <2>10, <3>1 DEF Reread, Partials
    <3> QED
      BY <2>10, <3>2 DEF Reread
  <2> QED
    BY <1>1, <2>1, <2>2, <2>3, <2>4, <2>5, <2>6, <2>7, <2>8, <2>9, <2>10 DEF Executor
<1>2. ASSUME NEW a \in Attempts, HelperCLI(a) PROVE TypeOK'
  <2>1. hp' \in [Attempts -> HelperStates] /\ UNCHANGED <<source, pods, pc, locals, losses>>
    BY <1>2 DEF HelperCLI, Helper, ImportStarts, ReceiveInspects, ReceiveClaims, ReceiveWritesClaim, ReceiveSyncsClaim, ReceiveTruncated, ReceiveRecords, ReceiveReturns, CompleteStarts, CompleteVerifies, CompleteSyncsTree, CompleteMarks, CompleteReturns
  <2>2. dur' \subseteq Parts
    BY <1>2 DEF HelperCLI, Parts, ImportStarts, ReceiveInspects, ReceiveClaims, ReceiveWritesClaim, ReceiveSyncsClaim, ReceiveTruncated, ReceiveRecords, ReceiveReturns, CompleteStarts, CompleteVerifies, CompleteSyncsTree, CompleteMarks, CompleteReturns
  <2>3. vol' \in VolumeType
    <3>1. CASE UNCHANGED vol
      BY <3>1 DEF VolumeType
    <3>2. CASE ReceiveClaims(a)
      BY <3>2 DEF ReceiveClaims, VolumeType
    <3>3. CASE ReceiveWritesClaim(a)
      BY <3>3 DEF ReceiveWritesClaim, VolumeType
    <3>4. CASE ReceiveRecords(a)
      BY <3>4 DEF ReceiveRecords, VolumeType
    <3>5. CASE CompleteMarks(a)
      BY <3>5 DEF CompleteMarks, VolumeType
    <3> QED
      BY <1>2, <3>1, <3>2, <3>3, <3>4, <3>5 DEF HelperCLI, ImportStarts, ReceiveInspects, ReceiveSyncsClaim, ReceiveTruncated, ReceiveReturns, CompleteStarts, CompleteVerifies, CompleteSyncsTree, CompleteReturns
  <2> QED
    BY <2>1, <2>2, <2>3 DEF VolumeType
<1>3. CASE WorkloadStarts \/ WorkloadStops
  BY <1>3 DEF WorkloadStarts, WorkloadStops
<1>4. ASSUME NEW c \in Chunks, WorkloadWrites(c) PROVE TypeOK'
  <2>1. src' \in Contents
    BY <1>4, CopyAssumption DEF WorkloadWrites, Contents
  <2>2. hist' \subseteq Contents
    BY <1>4, <2>1 DEF WorkloadWrites
  <2>3. writes' \in 0..MaxWrites
    BY <1>4, CopyAssumption DEF WorkloadWrites
  <2> QED
    BY <1>4, <2>1, <2>2, <2>3 DEF WorkloadWrites
<1>5. CASE PowerLoss
  <2>1. vol' \in VolumeType
    <3>1. PICK kept \in SUBSET Present, files \in SUBSET Chunks : vol' = AfterLoss(kept, files)
      BY <1>5 DEF PowerLoss
    <3>2. [c \in Chunks |-> IF "payload" \in kept \/ c \in files THEN vol.payload[c] ELSE 0] \in Partials
      BY CopyAssumption DEF Partials
    <3>3. /\ (IF "received" \in kept THEN vol.received ELSE Blank) \in Partials
          /\ (IF "complete" \in kept THEN vol.complete ELSE Blank) \in Partials
      BY BlankIsPartial
    <3> QED
      BY <3>1, <3>2, <3>3 DEF AfterLoss, VolumeType
  <2>2. dur' \subseteq Parts
    BY <1>5 DEF PowerLoss, Present, Parts
  <2> QED
    BY <1>5, <2>1, <2>2, CopyAssumption DEF PowerLoss, VolumeType
<1>6. CASE SourceHelperGone
  BY <1>6 DEF SourceHelperGone
<1>7. ASSUME NEW a \in Attempts, Fail(a) \/ TargetHelperGone(a) PROVE TypeOK'
  BY <1>7, BlankIsPartial DEF Fail, TargetHelperGone
<1>8. CASE UNCHANGED vars
  BY <1>8 DEF vars
<1> QED
  BY <1>1, <1>2, <1>3, <1>4, <1>5, <1>6, <1>7, <1>8 DEF Next, Cluster

-----------------------------------------------------------------------------
(* One helper process at a time. *)

\* Every step keeps cleared executions with a target helper apart: check2, which
\* clears an execution, is passed only by one that is alone on the target.
LEMMA ExclusionStep ==
    ASSUME TypeOK, Exclusion, [Next]_vars
    PROVE  Exclusion'
<1> USE DEF Exclusion, Cleared, AtWork, Past, Before, ExecutorStates, CheckPoints, Ended, TypeOK
<1>1. CASE UNCHANGED <<pc, hp, tgtPod>>
  BY <1>1
<1>2. ASSUME NEW a \in Attempts, Executor(a) PROVE Exclusion'
  <2>1. CASE Check(a)
    <3>1. /\ UNCHANGED <<hp, tgtPod>> /\ tgtPod \subseteq {a}
          /\ pc' = [pc EXCEPT ![a] = AfterCheck[pc[a]]] /\ pc[a] \in CheckPoints
      BY <2>1 DEF Check, Goto, NoForeignConsumer, pods
    <3>2. pc[a] \in Before => AfterCheck[pc[a]] \in Before
      BY <3>1 DEF AfterCheck
    <3>3. AfterCheck[pc[a]] \in Before => pc[a] \in Before
      BY <3>1 DEF AfterCheck
    <3>4. AfterCheck[pc[a]] # "check2"
      BY <3>1 DEF AfterCheck
    <3> QED
      BY <3>1, <3>2, <3>3, <3>4
  <2>2. CASE CreateSourceHelper(a)
    BY <2>2 DEF CreateSourceHelper, Goto
  <2>3. CASE CreateTargetHelper(a)
    BY <2>3 DEF CreateTargetHelper, Goto
  <2>4. CASE Inspect(a) \/ Streamed(a) \/ SourceUnchanged(a) \/ Completed(a) \/ Return(a)
    BY <2>4 DEF Inspect, Streamed, SourceUnchanged, Completed, Return, Goto, pods
  <2>5. ASSUME NEW c \in Chunks, Transfer(a, c) \/ Reread(a, c) PROVE Exclusion'
    BY <2>5, <1>1 DEF Transfer, Reread, pods
  <2> QED
    BY <1>2, <2>1, <2>2, <2>3, <2>4, <2>5 DEF Executor
<1>3. ASSUME NEW a \in Attempts, HelperCLI(a) PROVE Exclusion'
  <2>1. CASE ImportStarts(a)
    BY <2>1 DEF ImportStarts, Helper, pods
  <2>2. CASE ~ImportStarts(a)
    <3>1. /\ UNCHANGED <<pc, tgtPod>> /\ AtWork(a) /\ \E w : hp' = [hp EXCEPT ![a] = w]
      BY <1>3, <2>2 DEF HelperCLI, Helper, pods, ReceiveInspects, ReceiveClaims, ReceiveWritesClaim,
         ReceiveSyncsClaim, ReceiveTruncated, ReceiveRecords, ReceiveReturns, CompleteStarts,
         CompleteVerifies, CompleteSyncsTree, CompleteMarks, CompleteReturns
    <3> QED
      BY <3>1
  <2> QED
    BY <2>1, <2>2
<1>4. CASE PowerLoss
  BY <1>4 DEF PowerLoss
<1>5. ASSUME NEW a \in Attempts, Fail(a) PROVE Exclusion'
  BY <1>5 DEF Fail, Goto, pods
<1>6. ASSUME NEW a \in Attempts, TargetHelperGone(a) PROVE Exclusion'
  BY <1>6 DEF TargetHelperGone
<1>7. CASE WorkloadStarts \/ WorkloadStops \/ SourceHelperGone \/ \E c \in Chunks : WorkloadWrites(c)
  BY <1>7, <1>1 DEF WorkloadStarts, WorkloadStops, SourceHelperGone, WorkloadWrites, pods
<1>8. CASE UNCHANGED vars
  BY <1>8, <1>1 DEF vars, pods
<1> QED
  BY <1>2, <1>3, <1>4, <1>5, <1>6, <1>7, <1>8 DEF Next, Cluster

-----------------------------------------------------------------------------
(* The two readings of the source. *)

\* Two readings that agree are a state the source was in.
LEMMA AgreementIsSnapshot ==
    ASSUME TypeOK, NEW a \in Attempts, Full(got[a]), Between(a), again[a] = got[a]
    PROVE  got[a] \in hist
<1>1. PICK h \in hist : \A c \in Chunks :
          /\ got[a][c] <= h[c] /\ h[c] <= src[c]
          /\ again[a][c] # 0 => h[c] <= again[a][c]
  BY DEF Between
<1>2. h \in Contents /\ got[a] \in Partials
  BY DEF TypeOK
<1>3. \A c \in Chunks : got[a][c] = h[c]
  BY <1>1, <1>2, CopyAssumption DEF Full, Contents, Partials
<1>4. got[a] = h
  BY <1>2, <1>3 DEF Contents, Partials
<1> QED
  BY <1>4

\* Every step keeps a state of the source between the two readings.
LEMMA SnapshotStep ==
    ASSUME TypeOK, Exclusion, Snapshot, [Next]_vars
    PROVE  Snapshot'
<1> USE DEF source, pods, locals
<1>0. /\ writes \in Nat /\ \A c \in Chunks : src[c] \in Nat
      /\ \A a \in Attempts, c \in Chunks : got[a][c] \in Nat /\ again[a][c] \in Nat
      /\ \A h \in hist, c \in Chunks : h[c] \in Nat
  BY CopyAssumption DEF TypeOK, Contents, Partials
<1>1. ASSUME UNCHANGED <<source, got, again>>,
             \A b \in Attempts :
                /\ pc'[b] \in Before \cup {"check2", "check3", "inspect", "check5", "stream", "check6"}
                      => again[b] = Blank
                /\ pc'[b] \in {"check6", "reread"} => Full(got[b]) /\ Between(b)
                /\ pc'[b] \in {"check7", "complete"} => Full(got[b]) /\ got[b] \in hist
                /\ hp'[b] \in Recorded => Full(got[b])
                /\ hp'[b] \in Verifying => got[b] \in hist
      PROVE  Snapshot'
  BY <1>1 DEF Snapshot, Full, Between
<1>2. ASSUME NEW a \in Attempts, Executor(a) PROVE Snapshot'
  <2>1. CASE Check(a)
    <3>1. /\ UNCHANGED <<source, got, again, hp>>
          /\ pc' = [pc EXCEPT ![a] = AfterCheck[pc[a]]] /\ pc[a] \in CheckPoints
      BY <2>1 DEF Check, Goto
    <3>2. /\ AfterCheck[pc[a]] \in Before \cup {"check2", "check3", "inspect", "check5", "stream", "check6"}
                => pc[a] \in Before \cup {"check2", "check3", "inspect", "check5", "stream", "check6"}
          /\ AfterCheck[pc[a]] \in {"check6", "reread"} => pc[a] = "check6"
          /\ AfterCheck[pc[a]] \in {"check7", "complete"} => pc[a] = "check7"
      BY <3>1 DEF AfterCheck, CheckPoints, Before
    <3> QED
      BY <1>1, <3>1, <3>2 DEF Snapshot, TypeOK
  <2>2. CASE CreateSourceHelper(a) \/ CreateTargetHelper(a) \/ Inspect(a) \/ Return(a) \/ Completed(a)
    <3>1. UNCHANGED <<source, got, again, hp>>
      BY <2>2 DEF CreateSourceHelper, CreateTargetHelper, Inspect, Return, Completed
    <3>2. \E l \in {"check1", "check2", "check4", "check5", "check8", "done"} :
             /\ pc' = [pc EXCEPT ![a] = l]
             /\ l \in {"check1", "check2", "check5"} => pc[a] \in {"mkSource", "mkTarget", "inspect"}
      BY <2>2 DEF CreateSourceHelper, CreateTargetHelper, Inspect, Return, Completed, Goto
    <3> QED
      BY <1>1, <3>1, <3>2 DEF Snapshot, TypeOK, Before
  <2>3. CASE Streamed(a)
    <3>1. /\ UNCHANGED <<source, got, again, hp>> /\ pc' = [pc EXCEPT ![a] = "check6"]
          /\ pc[a] = "stream" /\ hp[a] = "received"
      BY <2>3 DEF Streamed, Goto
    <3>2. again[a] = Blank /\ Full(got[a])
      BY <3>1 DEF Snapshot, Recorded
    <3>3. Between(a)
      BY <1>0, <3>2 DEF Between, Snapshot, Blank
    <3> QED
      BY <1>1, <3>1, <3>2, <3>3 DEF Snapshot, TypeOK
  <2>4. CASE SourceUnchanged(a)
    <3>1. /\ UNCHANGED <<source, got, again, hp>> /\ pc' = [pc EXCEPT ![a] = "check7"]
          /\ pc[a] = "reread" /\ again[a] = got[a]
      BY <2>4 DEF SourceUnchanged, Goto
    <3>2. Full(got[a]) /\ got[a] \in hist
      BY <3>1, AgreementIsSnapshot DEF Snapshot
    <3> QED
      BY <1>1, <3>1, <3>2 DEF Snapshot, TypeOK, Before
  <2>5. ASSUME NEW c \in Chunks, Transfer(a, c) PROVE Snapshot'
    <3>1. /\ UNCHANGED <<source, again, pc, hp>> /\ pc[a] = "stream" /\ hp[a] = "receiving"
          /\ got' = [got EXCEPT ![a][c] = src[c]]
      BY <2>5 DEF Transfer
    <3>2. \A b \in Attempts : b # a => got'[b] = got[b]
      BY <3>1 DEF TypeOK
    <3>3. \A b \in Attempts, d \in Chunks : got'[b][d] <= src[d]
      BY <1>0, <3>1 DEF TypeOK, Partials, Snapshot
    <3> QED
      BY <3>1, <3>2, <3>3 DEF Snapshot, Full, Between, Recorded, Verifying
  <2>6. ASSUME NEW c \in Chunks, Reread(a, c) PROVE Snapshot'
    <3>1. /\ UNCHANGED <<source, got, pc, hp>> /\ pc[a] = "reread"
          /\ again' = [again EXCEPT ![a][c] = src[c]]
      BY <2>6 DEF Reread
    <3>2. \A b \in Attempts : b # a => again'[b] = again[b]
      BY <3>1 DEF TypeOK
    <3>3. \A d \in Chunks : again'[a][d] = IF d = c THEN src[c] ELSE again[a][d]
      BY <3>1 DEF TypeOK, Partials
    <3>4. Between(a)'
      BY <3>1, <3>3 DEF Between, Snapshot
    <3>5. \A b \in Attempts : pc[b] \in {"check6", "reread"} => Between(b)'
      BY <3>1, <3>2, <3>4 DEF Between, Snapshot
    <3> QED
      BY <3>1, <3>2, <3>5 DEF Snapshot, Full, Before
  <2> QED
    BY <1>2, <2>1, <2>2, <2>3, <2>4, <2>5, <2>6 DEF Executor
<1>3. ASSUME NEW a \in Attempts, HelperCLI(a) PROVE Snapshot'
  <2>1. UNCHANGED <<source, got, again, pc>>
    BY <1>3 DEF HelperCLI, Helper, ImportStarts, ReceiveInspects, ReceiveClaims, ReceiveWritesClaim,
         ReceiveSyncsClaim, ReceiveTruncated, ReceiveRecords, ReceiveReturns, CompleteStarts,
         CompleteVerifies, CompleteSyncsTree, CompleteMarks, CompleteReturns
  <2>2. CASE ReceiveRecords(a)
    BY <1>1, <2>1, <2>2 DEF ReceiveRecords, Helper, Snapshot, TypeOK, Full, Recorded, Verifying
  <2>3. CASE CompleteStarts(a)
    BY <1>1, <2>1, <2>3 DEF CompleteStarts, Helper, Snapshot, TypeOK, Recorded, Verifying
  <2>4. CASE ~ReceiveRecords(a) /\ ~CompleteStarts(a)
    <3>1. \E w \in HelperStates : /\ hp' = [hp EXCEPT ![a] = w]
                                  /\ w \in Recorded => hp[a] \in Recorded
                                  /\ w \in Verifying => hp[a] \in Verifying
      BY <1>3, <2>4 DEF HelperCLI, Helper, Recorded, Verifying, HelperStates, ImportStarts, ReceiveInspects, ReceiveClaims, ReceiveWritesClaim,
         ReceiveSyncsClaim, ReceiveTruncated, ReceiveRecords, ReceiveReturns, CompleteStarts,
         CompleteVerifies, CompleteSyncsTree, CompleteMarks, CompleteReturns
    <3> QED
      BY <1>1, <2>1, <3>1 DEF Snapshot, TypeOK
  <2> QED
    BY <2>2, <2>3, <2>4
<1>4. CASE PowerLoss
  BY <1>1, <1>4 DEF PowerLoss, Snapshot, Recorded, Verifying
<1>5. ASSUME NEW a \in Attempts, Fail(a) \/ TargetHelperGone(a) PROVE Snapshot'
  BY <1>1, <1>5, SMTT(20) DEF Fail, Goto, TargetHelperGone, Snapshot, TypeOK, Recorded, Verifying, Before
<1>6. CASE WorkloadStarts \/ WorkloadStops \/ SourceHelperGone \/ UNCHANGED vars
  <2>1. UNCHANGED <<src, writes, hist, got, again, pc, hp>>
    BY <1>6 DEF WorkloadStarts, WorkloadStops, SourceHelperGone, vars
  <2> QED
    BY <2>1 DEF Snapshot, Full, Between
<1>7. ASSUME NEW c \in Chunks, WorkloadWrites(c) PROVE Snapshot'
  <2>1. /\ src' = [src EXCEPT ![c] = writes + 2] /\ writes' = writes + 1 /\ hist' = hist \cup {src'}
        /\ UNCHANGED <<got, again, pc, hp>>
    BY <1>7 DEF WorkloadWrites
  <2>2. \A d \in Chunks : src[d] <= src'[d] /\ src'[d] <= writes' + 1 /\ src'[d] \in Nat
    BY <1>0, <2>1 DEF TypeOK, Contents, Snapshot
  <2>3. \A a \in Attempts, d \in Chunks : got'[a][d] <= src'[d]
    BY <1>0, <2>1, <2>2 DEF Snapshot
  <2>4. \A a \in Attempts : Between(a) => Between(a)'
    <3> SUFFICES ASSUME NEW a \in Attempts, Between(a) PROVE Between(a)'
      OBVIOUS
    <3>1. PICK h \in hist : \A d \in Chunks :
              /\ got[a][d] <= h[d] /\ h[d] <= src[d]
              /\ again[a][d] # 0 => h[d] <= again[a][d]
      BY DEF Between
    <3>2. \A d \in Chunks : h[d] <= src'[d]
      BY <1>0, <2>2, <3>1, SMTT(20)
    <3> QED
      BY <2>1, <3>1, <3>2 DEF Between
  <2> QED
    BY <2>1, <2>2, <2>3, <2>4 DEF Snapshot, Full
<1> QED
  BY <1>2, <1>3, <1>4, <1>5, <1>6, <1>7 DEF Next, Cluster

-----------------------------------------------------------------------------
(* The target volume. *)

\* Cleared executions with a target helper being apart, so are helper processes.
LEMMA OneAtWork == Exclusion => SingleHelperAtWork
  BY DEF Exclusion, SingleHelperAtWork, Cleared

\* A receipt of every file is not the receipt of none.
LEMMA FullIsNotBlank == ASSUME NEW f, Full(f) PROVE f # Blank
  BY CopyAssumption DEF Full, Blank, Chunks

\* A step that leaves the target alone, and lets helpers only stop, keeps Volume.
LEMMA Steady ==
    ASSUME TypeOK, Volume, UNCHANGED <<vol, dur, got>>,
           \A b \in Attempts : hp'[b] \in {hp[b], "error"},
           \A b \in Attempts : Unstarted(b)'
    PROVE  Volume'
<1>1. Layout'
  BY DEF Volume, Layout
<1>2. \A b \in Attempts : View(b)'
  BY DEF Volume, View, AtWork, Recorded
<1> QED
  BY <1>1, <1>2 DEF Volume

\* What a step of a helper process leaves as it is: no other helper is at work.
LEMMA Alone ==
    ASSUME TypeOK, Exclusion, Volume, NEW a \in Attempts, NEW from, NEW to \in HelperStates,
           Helper(a, from, to), from # "error", to # "idle", from # "idle" \/ pc[a] = "stream"
    PROVE  /\ hp'[a] = to /\ hp[a] = from /\ a \in tgtPod
           /\ UNCHANGED <<pc, got, again, result, hist>>
           /\ \A b \in Attempts : Unstarted(b)'
           /\ \A b \in Attempts \ {a} : View(b)' /\ hp'[b] = hp[b]
<1>1. /\ UNCHANGED <<pc, got, again, result, hist, tgtPod>>
      /\ hp' = [hp EXCEPT ![a] = to] /\ hp[a] = from /\ a \in tgtPod
  BY DEF Helper, source, pods, locals
<1>2. \A b \in Attempts \ {a} : hp[b] \in {"idle", "error"} /\ hp'[b] = hp[b]
  BY <1>1 DEF TypeOK, Exclusion, Cleared, AtWork, Past, ExecutorStates, CheckPoints, Before, Ended
<1>3. \A b \in Attempts \ {a} : View(b)'
  BY <1>2 DEF View, AtWork, Recorded
<1>4. \A b \in Attempts : Unstarted(b)'
  BY <1>1, <1>2 DEF TypeOK, Volume, Unstarted
<1> QED
  BY <1>1, <1>2, <1>3, <1>4 DEF TypeOK

\* Every step of a helper process keeps the layout of the volume and its view of it.
LEMMA HelperVolume ==
    ASSUME TypeOK, Exclusion, Volume, NEW a \in Attempts, HelperCLI(a), TypeOK', Snapshot
    PROVE  Volume'
<1> USE DEF Recorded
<1>0. View(a) /\ Layout
  BY DEF Volume
<1>1. CASE ImportStarts(a)
  <2>1. Helper(a, "idle", "importing") /\ UNCHANGED <<vol, dur>> /\ pc[a] = "stream"
    BY <1>1 DEF ImportStarts, target
  <2>2. got[a] = Blank
    BY <2>1 DEF Helper, Volume, Unstarted
  <2>3. /\ hp'[a] = "importing" /\ UNCHANGED got
        /\ \A b \in Attempts : Unstarted(b)'
        /\ \A b \in Attempts \ {a} : View(b)'
    BY <2>1, Alone DEF HelperStates
  <2> QED
    BY <1>0, <2>1, <2>2, <2>3 DEF Volume, View, Layout, AtWork
<1>2. CASE ReceiveInspects(a)
  <2>1. Helper(a, "importing", "inspected") /\ UNCHANGED <<vol, dur>>
    BY <1>2 DEF ReceiveInspects, target
  <2>2. /\ hp'[a] = "inspected" /\ hp[a] = "importing" /\ UNCHANGED got
        /\ \A b \in Attempts : Unstarted(b)'
        /\ \A b \in Attempts \ {a} : View(b)'
    BY <2>1, Alone DEF HelperStates
  <2> QED
    BY <1>0, <2>1, <2>2 DEF Volume, View, Layout, AtWork
<1>3. CASE ReceiveClaims(a)
  <2>1. Helper(a, "inspected", "claiming") /\ UNCHANGED dur /\ ~vol.state
    BY <1>3 DEF ReceiveClaims
  <2>2. /\ vol'.state = TRUE /\ vol'.claim = vol.claim /\ vol'.payload = vol.payload
        /\ vol'.received = vol.received /\ vol'.complete = vol.complete
    BY <1>3 DEF ReceiveClaims, TypeOK
  <2>3. /\ hp'[a] = "claiming" /\ hp[a] = "inspected" /\ UNCHANGED got
        /\ \A b \in Attempts : Unstarted(b)'
        /\ \A b \in Attempts \ {a} : View(b)'
    BY <2>1, Alone DEF HelperStates
  <2>4. View(a)'
    BY <1>0, <2>1, <2>2, <2>3 DEF View, Layout, AtWork
  <2>5. Layout'
    BY <1>0, <2>1, <2>2 DEF Layout
  <2> QED
    BY <2>3, <2>4, <2>5 DEF Volume
<1>4. CASE ReceiveWritesClaim(a)
  <2>1. Helper(a, "claiming", "claimed") /\ UNCHANGED dur
    BY <1>4 DEF ReceiveWritesClaim, target
  <2>2. /\ vol'.state = vol.state /\ vol'.claim = TRUE /\ vol'.payload = vol.payload
        /\ vol'.received = vol.received /\ vol'.complete = vol.complete
    BY <1>4 DEF ReceiveWritesClaim, TypeOK
  <2>3. /\ hp'[a] = "claimed" /\ hp[a] = "claiming" /\ UNCHANGED got
        /\ \A b \in Attempts : Unstarted(b)'
        /\ \A b \in Attempts \ {a} : View(b)'
    BY <2>1, Alone DEF HelperStates
  <2>4. View(a)'
    BY <1>0, <2>1, <2>2, <2>3 DEF View, AtWork, Layout
  <2>5. Layout'
    BY <1>0, <2>1, <2>2, <2>3 DEF Layout, View, AtWork
  <2> QED
    BY <2>3, <2>4, <2>5 DEF Volume
<1>5. CASE ReceiveSyncsClaim(a)
  <2>1. Helper(a, "claimed", "receiving") /\ UNCHANGED vol /\ dur' = dur \cup {"state", "claim"}
    BY <1>5 DEF ReceiveSyncsClaim, target
  <2>2. /\ hp'[a] = "receiving" /\ hp[a] = "claimed" /\ UNCHANGED got
        /\ \A b \in Attempts : Unstarted(b)'
        /\ \A b \in Attempts \ {a} : View(b)'
    BY <2>1, Alone DEF HelperStates
  <2>3. View(a)'
    BY <1>0, <2>1, <2>2 DEF View, AtWork, Layout
  <2>4. Layout'
    BY <1>0, <2>1, <2>2 DEF Layout, View, AtWork
  <2> QED
    BY <2>2, <2>3, <2>4 DEF Volume
<1>6. CASE ReceiveTruncated(a)
  <2>1. Helper(a, "receiving", "error") /\ UNCHANGED vol /\ UNCHANGED dur
    BY <1>6 DEF ReceiveTruncated, target
  <2>2. /\ hp'[a] = "error" /\ hp[a] = "receiving" /\ UNCHANGED got
        /\ \A b \in Attempts : Unstarted(b)'
        /\ \A b \in Attempts \ {a} : View(b)'
    BY <2>1, Alone DEF HelperStates
  <2>3. View(a)'
    BY <1>0, <2>1, <2>2 DEF View, AtWork, Layout
  <2>4. Layout'
    BY <1>0, <2>1, <2>2 DEF Layout, View, AtWork
  <2> QED
    BY <2>2, <2>3, <2>4 DEF Volume
<1>7. CASE ReceiveRecords(a)
  <2>1. Helper(a, "receiving", "recording") /\ UNCHANGED dur /\ vol.payload = got[a] /\ Full(got[a])
    BY <1>7 DEF ReceiveRecords, target, Full
  <2>2. /\ vol'.state = vol.state /\ vol'.claim = vol.claim /\ vol'.payload = vol.payload
        /\ vol'.received = got[a] /\ vol'.complete = vol.complete
    BY <1>7 DEF ReceiveRecords, TypeOK
  <2>3. /\ hp'[a] = "recording" /\ hp[a] = "receiving" /\ UNCHANGED got
        /\ \A b \in Attempts : Unstarted(b)'
        /\ \A b \in Attempts \ {a} : View(b)'
    BY <2>1, Alone DEF HelperStates
  <2>4. View(a)'
    BY <1>0, <2>1, <2>2, <2>3 DEF View, AtWork, Layout
  <2>5. Layout'
    BY <1>0, <2>1, <2>2, <2>3 DEF Layout, View, AtWork
  <2> QED
    BY <2>3, <2>4, <2>5 DEF Volume
<1>8. CASE ReceiveReturns(a)
  <2>1. Helper(a, "recording", "received") /\ UNCHANGED vol /\ dur' = dur \cup {"received"}
    BY <1>8 DEF ReceiveReturns, target
  <2>2. /\ hp'[a] = "received" /\ hp[a] = "recording" /\ UNCHANGED got
        /\ \A b \in Attempts : Unstarted(b)'
        /\ \A b \in Attempts \ {a} : View(b)'
    BY <2>1, Alone DEF HelperStates
  <2>3. got[a] # Blank
    BY <2>2, FullIsNotBlank DEF Snapshot
  <2>4. View(a)'
    BY <1>0, <2>1, <2>3, <2>2 DEF View, AtWork, Layout
  <2>5. Layout'
    BY <1>0, <2>1, <2>3, <2>2 DEF Layout, View, AtWork
  <2> QED
    BY <2>2, <2>4, <2>5 DEF Volume
<1>9. CASE CompleteStarts(a)
  <2>1. Helper(a, "received", "verifying") /\ UNCHANGED vol /\ UNCHANGED dur
    BY <1>9 DEF CompleteStarts, target
  <2>2. /\ hp'[a] = "verifying" /\ hp[a] = "received" /\ UNCHANGED got
        /\ \A b \in Attempts : Unstarted(b)'
        /\ \A b \in Attempts \ {a} : View(b)'
    BY <2>1, Alone DEF HelperStates
  <2>3. View(a)'
    BY <1>0, <2>1, <2>2 DEF View, AtWork, Layout
  <2>4. Layout'
    BY <1>0, <2>1, <2>2 DEF Layout, View, AtWork
  <2> QED
    BY <2>2, <2>3, <2>4 DEF Volume
<1>10. CASE CompleteVerifies(a)
  <2>1. Helper(a, "verifying", "syncing") /\ UNCHANGED vol /\ UNCHANGED dur
    BY <1>10 DEF CompleteVerifies, target
  <2>2. /\ hp'[a] = "syncing" /\ hp[a] = "verifying" /\ UNCHANGED got
        /\ \A b \in Attempts : Unstarted(b)'
        /\ \A b \in Attempts \ {a} : View(b)'
    BY <2>1, Alone DEF HelperStates
  <2>3. View(a)'
    BY <1>0, <2>1, <2>2 DEF View, AtWork, Layout
  <2>4. Layout'
    BY <1>0, <2>1, <2>2 DEF Layout, View, AtWork
  <2> QED
    BY <2>2, <2>3, <2>4 DEF Volume
<1>11. CASE CompleteSyncsTree(a)
  <2>1. Helper(a, "syncing", "synced") /\ UNCHANGED vol /\ dur' = dur \cup {"payload"}
    BY <1>11 DEF CompleteSyncsTree, target
  <2>2. /\ hp'[a] = "synced" /\ hp[a] = "syncing" /\ UNCHANGED got
        /\ \A b \in Attempts : Unstarted(b)'
        /\ \A b \in Attempts \ {a} : View(b)'
    BY <2>1, Alone DEF HelperStates
  <2>3. got[a] # Blank
    BY <2>2, FullIsNotBlank DEF Snapshot
  <2>4. View(a)'
    BY <1>0, <2>1, <2>3, <2>2 DEF View, AtWork, Layout
  <2>5. Layout'
    BY <1>0, <2>1, <2>3, <2>2 DEF Layout, View, AtWork
  <2> QED
    BY <2>2, <2>4, <2>5 DEF Volume
<1>12. CASE CompleteMarks(a)
  <2>1. Helper(a, "synced", "completing") /\ UNCHANGED dur
    BY <1>12 DEF CompleteMarks, target
  <2>2. /\ vol'.state = vol.state /\ vol'.claim = vol.claim /\ vol'.payload = vol.payload
        /\ vol'.received = vol.received /\ vol'.complete = got[a]
    BY <1>12 DEF CompleteMarks, TypeOK
  <2>3. /\ hp'[a] = "completing" /\ hp[a] = "synced" /\ UNCHANGED got
        /\ \A b \in Attempts : Unstarted(b)'
        /\ \A b \in Attempts \ {a} : View(b)'
    BY <2>1, Alone DEF HelperStates
  <2>4. View(a)'
    BY <1>0, <2>1, <2>2, <2>3 DEF View, AtWork, Layout
  <2>5. Layout'
    BY <1>0, <2>1, <2>2, <2>3 DEF Layout, View, AtWork
  <2> QED
    BY <2>3, <2>4, <2>5 DEF Volume
<1>13. CASE CompleteReturns(a)
  <2>1. Helper(a, "completing", "completed") /\ UNCHANGED vol /\ dur' = dur \cup {"complete"}
    BY <1>13 DEF CompleteReturns, target
  <2>2. /\ hp'[a] = "completed" /\ hp[a] = "completing" /\ UNCHANGED got
        /\ \A b \in Attempts : Unstarted(b)'
        /\ \A b \in Attempts \ {a} : View(b)'
    BY <2>1, Alone DEF HelperStates
  <2>3. got[a] # Blank
    BY <2>2, FullIsNotBlank DEF Snapshot
  <2>4. View(a)'
    BY <1>0, <2>1, <2>3, <2>2 DEF View, AtWork, Layout
  <2>5. Layout'
    BY <1>0, <2>1, <2>3, <2>2 DEF Layout, View, AtWork
  <2> QED
    BY <2>2, <2>4, <2>5 DEF Volume
<1> QED
  BY <1>1, <1>2, <1>3, <1>4, <1>5, <1>6, <1>7, <1>8, <1>9, <1>10, <1>11, <1>12, <1>13 DEF HelperCLI

\* Every step keeps the layout of the target and the view each helper has of it.
LEMMA VolumeStep ==
    ASSUME TypeOK, TypeOK', Exclusion, Snapshot, Volume, [Next]_vars
    PROVE  Volume'
<1> USE DEF source, target, pods, locals
<1>1. ASSUME NEW a \in Attempts, Executor(a) PROVE Volume'
  <2>1. CASE Check(a)
    <3>1. /\ UNCHANGED <<vol, dur, got, hp>>
          /\ pc' = [pc EXCEPT ![a] = AfterCheck[pc[a]]] /\ pc[a] \in CheckPoints
      BY <2>1 DEF Check, Goto
    <3>2. AfterCheck[pc[a]] \in Before \cup {"check2", "check3", "inspect", "check5", "stream"}
                => pc[a] \in Before \cup {"check2", "check3", "inspect", "check5"}
      BY <3>1 DEF AfterCheck, CheckPoints, Before
    <3>3. \A b \in Attempts : Unstarted(b)'
      BY <3>1, <3>2 DEF TypeOK, Volume, Unstarted
    <3> QED
      BY <3>1, <3>3, Steady
  <2>2. CASE CreateSourceHelper(a) \/ CreateTargetHelper(a) \/ Inspect(a) \/ Return(a)
             \/ Completed(a) \/ Streamed(a) \/ SourceUnchanged(a)
    <3>1. UNCHANGED <<vol, dur, got, hp>>
      BY <2>2 DEF CreateSourceHelper, CreateTargetHelper, Inspect, Return, Completed, Streamed, SourceUnchanged
    <3>2. \E l \in {"check1", "check2", "check4", "check5", "check6", "check7", "check8", "done"} :
             /\ pc' = [pc EXCEPT ![a] = l]
             /\ l \in {"check1", "check2", "check5"} => pc[a] \in {"mkSource", "mkTarget", "inspect"}
      BY <2>2 DEF CreateSourceHelper, CreateTargetHelper, Inspect, Return, Completed, Streamed, SourceUnchanged, Goto
    <3>3. \A b \in Attempts : Unstarted(b)'
      BY <3>1, <3>2 DEF TypeOK, Volume, Unstarted, Before
    <3> QED
      BY <3>1, <3>3, Steady
  <2>3. ASSUME NEW c \in Chunks, Transfer(a, c) PROVE Volume'
    <3>1. /\ UNCHANGED <<pc, hp, dur>> /\ pc[a] = "stream" /\ hp[a] = "receiving" /\ a \in tgtPod
          /\ got' = [got EXCEPT ![a][c] = src[c]]
      BY <2>3 DEF Transfer
    <3>2. /\ vol'.state = vol.state /\ vol'.claim = vol.claim
          /\ vol'.payload = [vol.payload EXCEPT ![c] = src[c]]
          /\ vol'.received = vol.received /\ vol'.complete = vol.complete
      BY <2>3 DEF Transfer, TypeOK
    <3>3. /\ got'[a] = [got[a] EXCEPT ![c] = src[c]]
          /\ \A b \in Attempts \ {a} : got'[b] = got[b]
      BY <3>1 DEF TypeOK
    <3>4. View(a) /\ Layout /\ \A b \in Attempts : Unstarted(b)
      BY DEF Volume
    <3>5. View(a)'
      BY <3>1, <3>2, <3>3, <3>4, SMTT(20) DEF View, AtWork, Recorded
    <3>6. \A b \in Attempts \ {a} : hp[b] \in {"idle", "error"}
      BY <3>1 DEF Exclusion, Cleared, AtWork
    <3>7. \A b \in Attempts \ {a} : View(b)'
      BY <3>1, <3>6 DEF View, AtWork, Recorded
    <3>8. \A b \in Attempts : Unstarted(b)'
      BY <3>1, <3>3, <3>4 DEF Unstarted, Before
    <3>9. Layout'
      <4>1. /\ vol.state /\ vol.claim /\ {"state", "claim"} \subseteq dur
            /\ vol.received = Blank /\ vol.complete = Blank
        BY <3>1, <3>4 DEF View, Layout, AtWork, Recorded
      <4>2. "payload" \in dur => vol'.payload # Blank
        <5>1. src[c] # 0 /\ c \in DOMAIN vol.payload
          BY CopyAssumption DEF TypeOK, Contents, Partials
        <5> QED
          BY <3>2, <5>1 DEF Blank
      <4> QED
        BY <3>1, <3>2, <3>4, <4>1, <4>2 DEF Layout
    <3> QED
      BY <3>5, <3>7, <3>8, <3>9 DEF Volume
  <2>4. ASSUME NEW c \in Chunks, Reread(a, c) PROVE Volume'
    <3>1. UNCHANGED <<vol, dur, got, hp, pc>>
      BY <2>4 DEF Reread
    <3> QED
      BY <3>1, Steady DEF Volume, Unstarted
  <2> QED
    BY <1>1, <2>1, <2>2, <2>3, <2>4 DEF Executor
<1>2. ASSUME NEW a \in Attempts, HelperCLI(a) PROVE Volume'
  BY <1>2, HelperVolume
<1>3. CASE PowerLoss
  <2>1. PICK kept \in SUBSET Present, files \in SUBSET Chunks :
            /\ dur \subseteq kept
            /\ "state" \in kept \/ kept \subseteq {"payload"}
            /\ vol' = AfterLoss(kept, files)
            /\ dur' = IF vol'.payload # Blank THEN kept \cup {"payload"} ELSE kept \ {"payload"}
    BY <1>3 DEF PowerLoss
  <2>2. UNCHANGED <<pc, got>> /\ \A b \in Attempts : hp'[b] = IF b \in tgtPod THEN "error" ELSE hp[b]
    BY <1>3 DEF PowerLoss
  <2>3. \A b \in Attempts : Unstarted(b)'
    BY <2>2 DEF Volume, Unstarted
  <2>4. \A b \in Attempts : hp'[b] \in {"idle", "error"}
    BY <2>2 DEF Exclusion, AtWork
  <2>5. \A b \in Attempts : View(b)'
    BY <2>4 DEF View, AtWork, Recorded
  <2>6. Layout'
    <3>1. /\ vol'.state = ("state" \in kept) /\ vol'.claim = ("claim" \in kept)
          /\ vol'.received = (IF "received" \in kept THEN vol.received ELSE Blank)
          /\ vol'.complete = (IF "complete" \in kept THEN vol.complete ELSE Blank)
      BY <2>1 DEF AfterLoss
    <3>2. vol.payload = Blank => vol'.payload = Blank
      BY <2>1 DEF AfterLoss, Blank
    <3>3. /\ "received" \in kept => vol.received # Blank
          /\ "complete" \in kept => vol.complete # Blank
      BY <2>1 DEF Present, Parts
    <3>4. Layout
      BY DEF Volume
    <3> QED
      BY <2>1, <3>1, <3>2, <3>3, <3>4 DEF Layout
  <2> QED
    BY <2>3, <2>5, <2>6 DEF Volume
<1>4. ASSUME NEW a \in Attempts, Fail(a) \/ TargetHelperGone(a) PROVE Volume'
  <2>1. /\ UNCHANGED <<vol, dur, got>>
        /\ \A b \in Attempts : hp'[b] \in {hp[b], "error"}
        /\ \A b \in Attempts : pc'[b] \in {pc[b], "failed"}
    BY <1>4 DEF Fail, Goto, TargetHelperGone, TypeOK
  <2>2. \A b \in Attempts : Unstarted(b)'
    BY <2>1 DEF Volume, Unstarted, Before
  <2> QED
    BY <2>1, <2>2, Steady
<1>5. CASE WorkloadStarts \/ WorkloadStops \/ SourceHelperGone \/ (\E c \in Chunks : WorkloadWrites(c))
           \/ UNCHANGED vars
  <2>1. UNCHANGED <<vol, dur, got, hp, pc>>
    BY <1>5 DEF WorkloadStarts, WorkloadStops, SourceHelperGone, WorkloadWrites, vars
  <2> QED
    BY <2>1, Steady DEF Volume, Unstarted
<1> QED
  BY <1>1, <1>2, <1>3, <1>4, <1>5 DEF Next, Cluster

-----------------------------------------------------------------------------
(* Markers and results. *)

\* Nobody but Complete writes a marker.
LEMMA MarkerWriter ==
    ASSUME TypeOK, [Next]_vars
    PROVE  vol'.complete \in {vol.complete, Blank} \/ \E a \in Attempts : CompleteMarks(a)
<1> USE DEF source, target, pods, locals, TypeOK
<1>1. ASSUME NEW a \in Attempts, Executor(a) PROVE vol'.complete = vol.complete
  BY <1>1 DEF Executor, Check, CreateSourceHelper, CreateTargetHelper, Inspect, Streamed, SourceUnchanged,
     Completed, Return, Transfer, Reread
<1>2. ASSUME NEW a \in Attempts, HelperCLI(a), ~CompleteMarks(a) PROVE vol'.complete = vol.complete
  BY <1>2 DEF HelperCLI, ImportStarts, ReceiveInspects, ReceiveClaims, ReceiveWritesClaim,
     ReceiveSyncsClaim, ReceiveTruncated, ReceiveRecords, ReceiveReturns, CompleteStarts,
     CompleteVerifies, CompleteSyncsTree, CompleteReturns
<1>3. CASE PowerLoss
  <2>1. PICK kept \in SUBSET Present, files \in SUBSET Chunks : vol' = AfterLoss(kept, files)
    BY <1>3 DEF PowerLoss
  <2>2. vol'.complete = IF "complete" \in kept THEN vol.complete ELSE Blank
    BY <2>1 DEF AfterLoss
  <2> QED
    BY <2>2
<1>4. CASE ~PowerLoss /\ (Cluster \/ UNCHANGED vars)
  BY <1>4 DEF Cluster, WorkloadStarts, WorkloadStops, WorkloadWrites, SourceHelperGone, Fail, TargetHelperGone, vars
<1> QED
  BY <1>1, <1>2, <1>3, <1>4 DEF Next

\* A power loss leaves what is on stable storage as it is.
LEMMA LossKeeps ==
    ASSUME TypeOK, Volume, PowerLoss
    PROVE  /\ dur \ {"payload"} \subseteq dur'
           /\ "payload" \in dur => vol'.payload = vol.payload /\ "payload" \in dur'
           /\ "received" \in dur => vol'.received = vol.received
           /\ "complete" \in dur => vol'.complete = vol.complete
           /\ "state" \in dur => vol'.state = vol.state
           /\ "claim" \in dur => vol'.claim = vol.claim
<1>1. PICK kept \in SUBSET Present, files \in SUBSET Chunks :
          /\ dur \subseteq kept
          /\ vol' = AfterLoss(kept, files)
          /\ dur' = IF vol'.payload # Blank THEN kept \cup {"payload"} ELSE kept \ {"payload"}
  BY DEF PowerLoss
<1>2. /\ "payload" \in dur => vol.payload # Blank
      /\ "state" \in dur => vol.state
      /\ "claim" \in dur => vol.claim
  BY DEF Volume, Layout
<1>3. "payload" \in kept => vol'.payload = vol.payload
  BY <1>1 DEF AfterLoss, TypeOK, Partials
<1>4. /\ "received" \in kept => vol'.received = vol.received
      /\ "complete" \in kept => vol'.complete = vol.complete
      /\ vol'.state = ("state" \in kept) /\ vol'.claim = ("claim" \in kept)
  BY <1>1 DEF AfterLoss
<1>5. vol.state \in BOOLEAN /\ vol.claim \in BOOLEAN
  BY DEF TypeOK
<1>6. ("state" \in dur => vol'.state = vol.state) /\ ("claim" \in dur => vol'.claim = vol.claim)
  BY <1>1, <1>2, <1>4, <1>5
<1> QED
  BY <1>1, <1>2, <1>3, <1>4, <1>6

\* A synced copy stays as it is: the received receipt bars every further write.
LEMMA SyncedStays ==
    ASSUME TypeOK, Volume, Synced, [Next]_vars
    PROVE  Synced' /\ vol'.payload = vol.payload /\ vol'.received = vol.received
<1> USE DEF source, target, pods, locals, Synced
<1>1. vol.state /\ vol.received # Blank
  BY DEF Volume, Layout, Parts
<1>2. ASSUME NEW a \in Attempts, HelperCLI(a)
      PROVE  Synced' /\ vol'.payload = vol.payload /\ vol'.received = vol.received
  <2>1. View(a)
    BY DEF Volume
  <2>2. CASE ReceiveRecords(a) \/ ReceiveClaims(a)
    BY <1>1, <2>1, <2>2 DEF ReceiveRecords, ReceiveClaims, View
  <2>3. CASE ReceiveWritesClaim(a)
    BY <2>3 DEF ReceiveWritesClaim, TypeOK
  <2>4. CASE CompleteMarks(a)
    BY <2>4 DEF CompleteMarks, TypeOK
  <2> QED
    BY <1>2, <2>2, <2>3, <2>4 DEF HelperCLI, ImportStarts, ReceiveInspects, ReceiveSyncsClaim, ReceiveTruncated,
       ReceiveReturns, CompleteStarts, CompleteVerifies, CompleteSyncsTree, CompleteReturns
<1>3. ASSUME NEW a \in Attempts, Executor(a) PROVE UNCHANGED <<vol, dur>>
  <2>1. ASSUME NEW c \in Chunks, Transfer(a, c) PROVE FALSE
    BY <1>1, <2>1 DEF Transfer, Volume, View
  <2> QED
    BY <1>3, <2>1 DEF Executor, Check, CreateSourceHelper, CreateTargetHelper, Inspect, Streamed, SourceUnchanged,
       Completed, Return, Reread
<1>4. CASE PowerLoss
  BY <1>4, LossKeeps DEF Parts
<1>5. CASE ~PowerLoss /\ (Cluster \/ UNCHANGED vars)
  BY <1>5 DEF Cluster, WorkloadStarts, WorkloadStops, WorkloadWrites, SourceHelperGone, Fail, TargetHelperGone, vars
<1> QED
  BY <1>2, <1>3, <1>4, <1>5 DEF Next

\* Only a workload that writes adds to the history of the source.
LEMMA HistorySteps ==
    ASSUME [Next]_vars
    PROVE  hist' = hist \/ \E c \in Chunks : WorkloadWrites(c)
<1> USE DEF source
<1>1. ASSUME NEW a \in Attempts, Executor(a) PROVE hist' = hist
  BY <1>1 DEF Executor, Check, CreateSourceHelper, CreateTargetHelper, Inspect, Streamed,
     SourceUnchanged, Completed, Return, Reread, Transfer
<1>2. ASSUME NEW a \in Attempts, HelperCLI(a) PROVE hist' = hist
  BY <1>2 DEF HelperCLI, Helper, ImportStarts, ReceiveInspects, ReceiveClaims, ReceiveWritesClaim,
     ReceiveSyncsClaim, ReceiveTruncated, ReceiveRecords, ReceiveReturns, CompleteStarts,
     CompleteVerifies, CompleteSyncsTree, CompleteMarks, CompleteReturns
<1>3. CASE Cluster \/ UNCHANGED vars
  BY <1>3 DEF Cluster, WorkloadStarts, WorkloadStops, SourceHelperGone, Fail, TargetHelperGone, PowerLoss, vars
<1> QED
  BY <1>1, <1>2, <1>3 DEF Next

\* The source never forgets a state it was in.
LEMMA HistoryGrows == ASSUME [Next]_vars PROVE hist \subseteq hist'
  BY HistorySteps DEF WorkloadWrites

\* No check is followed by the end of Execute, and only the last two lead to its
\* return.
LEMMA CheckLeadsTo ==
    ASSUME NEW l \in CheckPoints
    PROVE  /\ AfterCheck[l] # "done"
           /\ l \notin {"check4", "check8"} => AfterCheck[l] \notin {"check4", "check8", "return", "done"}
<1>1. AfterCheck["check0"] = "mkSource"
  BY DEF AfterCheck
<1>2. AfterCheck["check1"] = "mkTarget"
  BY DEF AfterCheck
<1>3. AfterCheck["check2"] = "check3"
  BY DEF AfterCheck
<1>4. AfterCheck["check3"] = "inspect"
  BY DEF AfterCheck
<1>5. AfterCheck["check4"] = "return"
  BY DEF AfterCheck
<1>6. AfterCheck["check5"] = "stream"
  BY DEF AfterCheck
<1>7. AfterCheck["check6"] = "reread"
  BY DEF AfterCheck
<1>8. AfterCheck["check7"] = "complete"
  BY DEF AfterCheck
<1>9. AfterCheck["check8"] = "return"
  BY DEF AfterCheck
<1> QED
  BY <1>1, <1>2, <1>3, <1>4, <1>5, <1>6, <1>7, <1>8, <1>9 DEF CheckPoints

Holding == {"check4", "check8", "return", "done"}

\* An execution comes to hold a marker by Inspect or by Complete, and keeps it.
LEMMA HoldsStep ==
    ASSUME TypeOK, Exclusion, Snapshot, Volume, Markers, [Next]_vars, NEW a \in Attempts, pc'[a] \in Holding
    PROVE  Holds(a)'
<1> USE DEF source, target, pods, locals, Holding
<1>1. ASSUME Holds(a), result'[a] = result[a] PROVE Holds(a)'
  BY <1>1, SyncedStays, HistoryGrows DEF Holds
<1>2. ASSUME pc[a] \in Holding, result'[a] = result[a] PROVE Holds(a)'
  BY <1>1, <1>2 DEF Markers
<1>3. CASE Inspect(a)
  <2>1. pc'[a] = "check4" /\ VolumeComplete /\ result'[a] = vol.complete /\ UNCHANGED <<vol, dur, hist>>
    BY <1>3 DEF Inspect, Goto, TypeOK
  <2> QED
    BY <2>1 DEF Markers, CompleteIsFaithful, VolumeComplete, Holds, Synced
<1>4. CASE Completed(a)
  <2>1. hp[a] = "completed" /\ result'[a] = vol.complete /\ UNCHANGED <<vol, dur, hist>>
    BY <1>4 DEF Completed, TypeOK
  <2>2. vol.complete = got[a] /\ Full(got[a])
    BY <2>1 DEF Volume, View, Snapshot, Recorded
  <2>3. vol.complete # Blank
    BY <2>2, FullIsNotBlank
  <2> QED
    BY <2>1, <2>3 DEF Markers, CompleteIsFaithful, Holds, Synced
<1>5. CASE Check(a)
  <2>1. pc'[a] = AfterCheck[pc[a]] /\ pc[a] \in CheckPoints /\ UNCHANGED result
    BY <1>5 DEF Check, Goto, TypeOK
  <2>2. AfterCheck[pc[a]] \in Holding => pc[a] \in Holding
    BY <2>1, CheckLeadsTo
  <2> QED
    BY <1>2, <2>1, <2>2
<1>6. CASE Return(a)
  BY <1>2, <1>6 DEF Return
<1>7. CASE ~Inspect(a) /\ ~Completed(a) /\ ~Check(a) /\ ~Return(a)
  <2>1. pc'[a] = pc[a] /\ result'[a] = result[a]
    <3>1. ASSUME NEW b \in Attempts, Executor(b) PROVE pc'[a] = pc[a] /\ result'[a] = result[a]
      <4>1. CASE b = a
        BY <1>7, <3>1, <4>1 DEF Executor, CreateSourceHelper, CreateTargetHelper, Streamed, SourceUnchanged,
           Transfer, Reread, Goto, TypeOK
      <4>2. CASE b # a
        BY <3>1, <4>2 DEF Executor, Check, CreateSourceHelper, CreateTargetHelper, Inspect, Streamed, SourceUnchanged,
           Completed, Return, Transfer, Reread, Goto, TypeOK
      <4> QED
        BY <4>1, <4>2
    <3>2. ASSUME NEW b \in Attempts, HelperCLI(b) PROVE pc' = pc /\ result' = result
      BY <3>2 DEF HelperCLI, Helper, ImportStarts, ReceiveInspects, ReceiveClaims, ReceiveWritesClaim,
         ReceiveSyncsClaim, ReceiveTruncated, ReceiveRecords, ReceiveReturns, CompleteStarts,
         CompleteVerifies, CompleteSyncsTree, CompleteMarks, CompleteReturns
    <3>3. ASSUME NEW b \in Attempts, Fail(b) PROVE pc'[a] = pc[a] /\ result'[a] = result[a]
      BY <3>3 DEF Fail, Goto, TypeOK
    <3>4. CASE (Cluster /\ ~\E b \in Attempts : Fail(b)) \/ UNCHANGED vars
      BY <3>4 DEF Cluster, WorkloadStarts, WorkloadStops, WorkloadWrites, SourceHelperGone, PowerLoss, TargetHelperGone, vars
    <3> QED
      BY <3>1, <3>2, <3>3, <3>4 DEF Next
  <2> QED
    BY <1>2, <2>1
<1> QED
  BY <1>3, <1>4, <1>5, <1>6, <1>7

\* Every step keeps markers faithful and the results of executions synced.
LEMMA MarkersStep ==
    ASSUME TypeOK, Exclusion, Snapshot, Volume, Markers, [Next]_vars
    PROVE  Markers'
<1>1. ASSUME vol'.complete # Blank PROVE CompleteIsFaithful' /\ Synced'
  <2>1. CASE vol'.complete = vol.complete
    BY <1>1, <2>1, SyncedStays, HistoryGrows DEF Markers, CompleteIsFaithful
  <2>2. ASSUME NEW a \in Attempts, CompleteMarks(a) PROVE CompleteIsFaithful' /\ Synced'
    <3>1. /\ hp[a] = "synced" /\ UNCHANGED <<dur, hist>> /\ vol'.complete = got[a]
          /\ vol'.payload = vol.payload /\ vol'.received = vol.received
      BY <2>2 DEF CompleteMarks, Helper, source, TypeOK
    <3>2. /\ vol.payload = got[a] /\ vol.received = got[a] /\ got[a] \in hist
          /\ {"state", "claim", "received", "payload"} \subseteq dur
      BY <3>1 DEF Volume, View, Snapshot, Recorded, Verifying
    <3> QED
      BY <3>1, <3>2 DEF CompleteIsFaithful, Synced, Parts
  <2> QED
    BY <1>1, <2>1, <2>2, MarkerWriter
<1> QED
  BY <1>1, HoldsStep DEF Markers, Holding

\* The invariant holds in the initial state.
LEMMA Initially == Init => IInv
<1> SUFFICES ASSUME Init PROVE IInv
  OBVIOUS
<1>1. /\ src = [c \in Chunks |-> 1] /\ hist = {src} /\ writes = 0 /\ rogue = FALSE /\ losses = 0
      /\ vol = EmptyVolume /\ dur = {} /\ srcPod = "nobody" /\ tgtPod = {}
      /\ \A a \in Attempts : pc[a] = "check0" /\ got[a] = Blank /\ again[a] = Blank /\ hp[a] = "idle"
  BY DEF Init
<1>2. TypeOK
  <2>1. src \in Contents
    <3>1. 1 \in 1..(MaxWrites + 1)
      BY CopyAssumption
    <3> QED
      BY <1>1, <3>1 DEF Contents
  <2>2. /\ vol \in VolumeType /\ got \in [Attempts -> Partials] /\ again \in [Attempts -> Partials]
        /\ result \in [Attempts -> Partials]
    BY BlankIsPartial DEF Init, VolumeType, EmptyVolume
  <2>3. pc \in [Attempts -> ExecutorStates] /\ hp \in [Attempts -> HelperStates]
    BY DEF Init, ExecutorStates, CheckPoints, HelperStates
  <2>4. /\ hist \subseteq Contents /\ rogue \in BOOLEAN /\ dur \subseteq Parts
        /\ srcPod \in Attempts \cup {"nobody"} /\ tgtPod \subseteq Attempts
    BY <1>1, <2>1
  <2>5. writes \in 0..MaxWrites /\ losses \in 0..MaxPowerLoss
    BY <1>1, CopyAssumption
  <2> QED
    BY <2>1, <2>2, <2>3, <2>4, <2>5 DEF TypeOK, VolumeType
<1>3. Exclusion
  BY <1>1 DEF Exclusion, AtWork, Cleared
<1>4. Snapshot
  <2>1. src \in hist /\ \A c \in Chunks : src[c] <= writes + 1
    BY <1>1
  <2>2. \A a \in Attempts, c \in Chunks : got[a][c] <= src[c]
    BY <1>1 DEF Blank
  <2>3. ASSUME NEW a \in Attempts
        PROVE  /\ again[a] = Blank /\ hp[a] \notin Recorded \cup Verifying
               /\ pc[a] \notin {"check6", "reread", "check7", "complete"}
    BY <1>1 DEF Recorded, Verifying
  <2> QED
    BY <2>1, <2>2, <2>3 DEF Snapshot
<1>5. Volume
  BY <1>1 DEF Volume, Layout, View, Unstarted, EmptyVolume, AtWork, Recorded
<1>6. Markers
  BY <1>1 DEF Markers, EmptyVolume
<1> QED
  BY <1>2, <1>3, <1>4, <1>5, <1>6 DEF IInv

\* The four parts together are an invariant of the protocol.
THEOREM Invariance == Spec => []IInv
<1>1. IInv /\ [Next]_vars => IInv'
  BY TypeStep, ExclusionStep, SnapshotStep, VolumeStep, MarkersStep DEF IInv
<1> QED
  BY <1>1, Initially, PTL DEF Spec

\* Every variable keeps its type.
THEOREM TypeCorrect == Spec => []TypeOK
  BY Invariance, PTL DEF IInv

\* The executor's checks and the name of the source helper let one helper process
\* work on the target at a time, however executions overlap and Pods linger.
THEOREM SingleHelper == Spec => []SingleHelperAtWork
<1>1. IInv => SingleHelperAtWork
  BY OneAtWork DEF IInv
<1> QED
  BY <1>1, Invariance, PTL

\* A completion marker describes the payload beside it, and that payload is a
\* state the source was in, whatever workload wrote to the source meanwhile.
THEOREM Faithful == Spec => []CompleteIsFaithful
<1>1. IInv => CompleteIsFaithful
  BY DEF IInv, Markers, CompleteIsFaithful
<1> QED
  BY <1>1, Invariance, PTL

\* An execution that returned a marker told the truth, before and after any crash.
THEOREM Durable == Spec => []SuccessIsDurable
<1>1. IInv => SuccessIsDurable
  BY DEF IInv, Markers, SuccessIsDurable, Holds, Synced
<1> QED
  BY <1>1, Invariance, PTL

-----------------------------------------------------------------------------
(* What a step may never do, and the promise of VerifiedCopy. *)

\* A marker on stable storage freezes the target: no step changes it any more.
LEMMA MarkedStays ==
    ASSUME IInv, [Next]_vars, "complete" \in dur
    PROVE  vol' = vol /\ "complete" \in dur'
<1> USE DEF source, target, pods, locals
<1>1. vol.complete # Blank /\ Synced /\ vol.state /\ vol.claim /\ TypeOK /\ Volume
  BY DEF IInv, Markers, Synced, Volume, Layout, Parts
<1>2. vol.received # Blank
  BY <1>1 DEF IInv, Markers, CompleteIsFaithful
<1>3. ASSUME NEW a \in Attempts, HelperCLI(a) PROVE vol' = vol /\ dur \subseteq dur'
  BY <1>1, <1>2, <1>3 DEF Volume, View, HelperCLI, Helper, ImportStarts, ReceiveInspects, ReceiveClaims,
     ReceiveWritesClaim, ReceiveSyncsClaim, ReceiveTruncated, ReceiveRecords, ReceiveReturns, CompleteStarts,
     CompleteVerifies, CompleteSyncsTree, CompleteMarks, CompleteReturns
<1>4. ASSUME NEW a \in Attempts, Executor(a) PROVE UNCHANGED <<vol, dur>>
  <2>1. ASSUME NEW c \in Chunks, Transfer(a, c) PROVE FALSE
    BY <1>1, <1>2, <2>1 DEF Transfer, Volume, View
  <2> QED
    BY <1>4, <2>1 DEF Executor, Check, CreateSourceHelper, CreateTargetHelper, Inspect, Streamed, SourceUnchanged,
       Completed, Return, Reread
<1>5. CASE PowerLoss
  <2>1. vol' \in VolumeType /\ vol \in VolumeType
    BY <1>1, TypeStep DEF TypeOK, VolumeType
  <2>2. /\ vol'.state = vol.state /\ vol'.claim = vol.claim /\ vol'.payload = vol.payload
        /\ vol'.received = vol.received /\ vol'.complete = vol.complete /\ "complete" \in dur'
    BY <1>1, <1>5, LossKeeps DEF Synced, Parts
  <2> QED
    BY <2>1, <2>2 DEF VolumeType
<1>6. CASE ~PowerLoss /\ (Cluster \/ UNCHANGED vars)
  BY <1>6 DEF Cluster, WorkloadStarts, WorkloadStops, WorkloadWrites, SourceHelperGone, Fail, TargetHelperGone, vars
<1> QED
  BY <1>3, <1>4, <1>5, <1>6 DEF Next

\* A file that was received is lost or kept, never replaced: a transfer writes
\* the file its own receipt lacks, and the payload is what the receipt says.
LEMMA FilesStay ==
    ASSUME IInv, [Next]_vars, NEW c \in Chunks, vol.payload[c] # 0
    PROVE  vol'.payload[c] \in {0, vol.payload[c]}
<1> USE DEF source, target, pods, locals
<1>0. TypeOK /\ Volume
  BY DEF IInv
<1>1. ASSUME NEW a \in Attempts, HelperCLI(a) PROVE vol'.payload = vol.payload
  BY <1>0, <1>1 DEF TypeOK, HelperCLI, ImportStarts, ReceiveInspects, ReceiveClaims,
     ReceiveWritesClaim, ReceiveSyncsClaim, ReceiveTruncated, ReceiveRecords, ReceiveReturns, CompleteStarts,
     CompleteVerifies, CompleteSyncsTree, CompleteMarks, CompleteReturns
<1>2. ASSUME NEW a \in Attempts, Executor(a) PROVE vol'.payload[c] = vol.payload[c]
  <2>1. ASSUME NEW d \in Chunks, Transfer(a, d) PROVE vol'.payload[c] = vol.payload[c]
    <3>1. got[a][d] = 0 /\ vol.payload = got[a] /\ vol' = [vol EXCEPT !.payload[d] = src[d]]
      BY <1>0, <2>1 DEF Transfer, NextFile, Volume, View
    <3> QED
      BY <1>0, <3>1 DEF TypeOK, Partials
  <2> QED
    BY <1>2, <2>1 DEF Executor, Check, CreateSourceHelper, CreateTargetHelper, Inspect, Streamed, SourceUnchanged,
       Completed, Return, Reread
<1>3. CASE PowerLoss
  <2>1. PICK kept \in SUBSET Present, files \in SUBSET Chunks : vol' = AfterLoss(kept, files)
    BY <1>3 DEF PowerLoss
  <2>2. vol'.payload = [d \in Chunks |->
            IF "payload" \in kept \/ d \in files THEN vol.payload[d] ELSE 0]
    BY <2>1 DEF AfterLoss
  <2> QED
    BY <2>2
<1>4. CASE ~PowerLoss /\ (Cluster \/ UNCHANGED vars)
  BY <1>4 DEF Cluster, WorkloadStarts, WorkloadStops, WorkloadWrites, SourceHelperGone, Fail, TargetHelperGone, vars
<1> QED
  BY <1>1, <1>2, <1>3, <1>4 DEF Next

\* The target is never overwritten, whatever is retried.
THEOREM NothingOverwritten == Spec => NeverOverwritten
<1>1. IInv /\ [Next]_vars =>
        [/\ \A c \in Chunks : vol.payload[c] # 0 => vol'.payload[c] \in {0, vol.payload[c]}
         /\ "complete" \in dur => vol' = vol]_vars
  BY MarkedStays, FilesStay
<1> QED
  BY <1>1, Invariance, PTL DEF Spec, NeverOverwritten

\* A synced execution that ends publishes what it reports; a marker that reaches
\* stable storage is published with the payload beside it; nothing else shows.
LEMMA PromiseStep ==
    ASSUME IInv, IInv', [Next]_vars
    PROVE  [Promise!SpecNext]_(Promise!specVars)
<1> DEFINE rep == [a \in Attempts |-> IF pc[a] = "done" THEN result[a] ELSE Blank]
<1> USE DEF source, target, pods, locals
<1>1. TypeOK /\ Volume /\ Markers /\ TypeOK' /\ Markers'
  BY DEF IInv
<1>2. hist' = hist \/ \E c \in Chunks : WorkloadWrites(c)
  BY HistorySteps
<1>3. \/ \A a \in Attempts : (pc'[a] = "done") = (pc[a] = "done") /\ (pc[a] = "done" => result'[a] = result[a])
      \/ \E a \in Attempts : Return(a)
  <2> DEFINE Same(a) == (pc'[a] = "done") = (pc[a] = "done") /\ (pc[a] = "done" => result'[a] = result[a])
  <2>1. ASSUME NEW b \in Attempts, Check(b) PROVE \A a \in Attempts : Same(a)
    <3>1. AfterCheck[pc[b]] # "done" /\ pc[b] # "done"
      BY <2>1, CheckLeadsTo DEF Check, CheckPoints
    <3> QED
      BY <1>1, <2>1, <3>1 DEF Check, Goto, TypeOK
  <2>2. ASSUME NEW b \in Attempts, Executor(b), ~Check(b), ~Return(b) PROVE \A a \in Attempts : Same(a)
    BY <1>1, <2>2 DEF Executor, CreateSourceHelper, CreateTargetHelper, Inspect, Streamed, SourceUnchanged, Completed,
       Reread, Transfer, Goto, TypeOK
  <2>3. ASSUME NEW b \in Attempts, HelperCLI(b) PROVE UNCHANGED <<pc, result>>
    BY <2>3 DEF HelperCLI, Helper, ImportStarts, ReceiveInspects, ReceiveClaims, ReceiveWritesClaim,
       ReceiveSyncsClaim, ReceiveTruncated, ReceiveRecords, ReceiveReturns, CompleteStarts,
       CompleteVerifies, CompleteSyncsTree, CompleteMarks, CompleteReturns
  <2>4. ASSUME NEW b \in Attempts, Fail(b) PROVE \A a \in Attempts : Same(a)
    BY <1>1, <2>4 DEF Fail, Running, Ended, Goto, TypeOK
  <2>5. CASE (Cluster /\ ~\E b \in Attempts : Fail(b)) \/ UNCHANGED vars
    BY <2>5 DEF Cluster, WorkloadStarts, WorkloadStops, WorkloadWrites, SourceHelperGone, PowerLoss, TargetHelperGone, vars
  <2> QED
    BY <2>1, <2>2, <2>3, <2>4, <2>5 DEF Next
<1>4. CASE \E c \in Chunks : WorkloadWrites(c)
  <2>1. UNCHANGED <<vol, dur, pc, result>> /\ \E h \in Contents : hist' = hist \cup {h}
    BY <1>1, <1>4 DEF WorkloadWrites, TypeOK
  <2>2. UNCHANGED <<Published, rep>>
    BY <2>1 DEF Published
  <2> QED
    BY <2>1, <2>2 DEF Promise!SpecNext, Promise!SourceChanges
<1>5. ASSUME NEW a \in Attempts, Return(a) PROVE [Promise!SpecNext]_(Promise!specVars)
  <2>1. /\ UNCHANGED <<vol, dur, result, hist>> /\ pc[a] = "return" /\ pc' = [pc EXCEPT ![a] = "done"]
    BY <1>5 DEF Return, Goto
  <2>2. Holds(a)
    BY <1>1, <2>1 DEF Markers
  <2>3. rep[a] = Blank /\ rep' = [rep EXCEPT ![a] = result[a]]
    BY <1>1, <2>1 DEF TypeOK
  <2>4. "complete" \in dur => vol.complete = vol.payload /\ vol.complete # Blank
    BY <1>1 DEF Markers, CompleteIsFaithful, Volume, Layout
  <2>5. Published' = result[a]
    BY <1>1, <2>1, <2>2, <2>4 DEF Published, Holds, TypeOK
  <2>6. Published \in {Blank, result[a]}
    BY <2>2, <2>4 DEF Published, Holds
  <2> QED
    BY <2>1, <2>2, <2>3, <2>5, <2>6 DEF Promise!SpecNext, Promise!Report, Holds
<1>6. ASSUME hist' = hist,
             \A a \in Attempts : (pc'[a] = "done") = (pc[a] = "done") /\ (pc[a] = "done" => result'[a] = result[a])
      PROVE  [Promise!SpecNext]_(Promise!specVars)
  <2>1. rep' = rep
    BY <1>6
  <2>2. CASE "complete" \in dur
    <3>1. UNCHANGED Published
      BY <2>2, MarkedStays DEF Published
    <3> QED
      BY <1>6, <2>1, <3>1 DEF Promise!specVars
  <2>3. CASE "complete" \notin dur /\ \E a \in Attempts : pc[a] = "done"
    <3>1. Synced
      BY <1>1, <2>3 DEF Markers, Holds
    <3>2. vol'.payload = vol.payload
      BY <1>1, <3>1, SyncedStays
    <3>3. "complete" \in dur' => vol'.complete = vol'.payload
      BY <1>1 DEF IInv, Volume, Layout, Markers, CompleteIsFaithful
    <3>4. UNCHANGED Published
      BY <1>6, <2>3, <3>2, <3>3 DEF Published
    <3> QED
      BY <1>6, <2>1, <3>4 DEF Promise!specVars
  <2>4. CASE "complete" \notin dur /\ ~\E a \in Attempts : pc[a] = "done"
    <3>1. Published = Blank
      BY <2>4 DEF Published
    <3>2. CASE "complete" \in dur'
      <4>1. Published' = vol'.complete /\ vol'.complete \in hist'
        BY <3>2 DEF Published, IInv, Volume, Layout, Markers, CompleteIsFaithful
      <4> QED
        BY <1>6, <2>1, <3>1, <4>1 DEF Promise!SpecNext, Promise!Publish
    <3>3. CASE "complete" \notin dur'
      <4>1. Published' = Blank
        BY <1>6, <2>4, <3>3 DEF Published
      <4> QED
        BY <1>6, <2>1, <3>1, <4>1 DEF Promise!specVars
    <3> QED
      BY <3>2, <3>3
  <2> QED
    BY <2>2, <2>3, <2>4
<1> QED
  BY <1>2, <1>3, <1>4, <1>5, <1>6

\* The protocol keeps the promise: at most one state of the source is published
\* on the target, for good, and it is what every successful execution reports.
THEOREM Refinement == Spec => ImplementsVerifiedCopy
<1>1. Init => Promise!SpecInit
  <2> SUFFICES ASSUME Init PROVE Promise!SpecInit
    OBVIOUS
  <2>1. src \in Contents /\ hist = {src}
    BY CopyAssumption DEF Init, Contents
  <2>2. Published = Blank
    BY DEF Init, Published
  <2>3. [a \in Attempts |-> IF pc[a] = "done" THEN result[a] ELSE Blank] = [a \in Attempts |-> Blank]
    BY DEF Init
  <2> QED
    BY <2>1, <2>2, <2>3 DEF Promise!SpecInit
<1>2. IInv /\ IInv' /\ [Next]_vars => [Promise!SpecNext]_(Promise!specVars)
  BY PromiseStep
<1> QED
  BY <1>1, <1>2, Invariance, PTL DEF Spec, ImplementsVerifiedCopy, Promise!CopySpec

-----------------------------------------------------------------------------
(* The marker that an execution has had written. *)

\* An execution that found a marker has received nothing; one that received the
\* files comes to the end of Execute through a helper that synced the marker.
OwnMarker(a) ==
    /\ pc[a] = "check4" => got[a] = Blank
    /\ pc[a] \in {"check8", "return", "done"} /\ got[a] # Blank => "complete" \in dur
    /\ hp[a] = "completed" => "complete" \in dur

OwnMarkers == \A a \in Attempts : OwnMarker(a)

\* Every step keeps the markers of the executions that had them written.
LEMMA OwnMarkerStep ==
    ASSUME IInv, OwnMarkers, [Next]_vars, NEW a \in Attempts
    PROVE  OwnMarker(a)'
<1> USE DEF source, target, pods, locals
<1>0. TypeOK /\ Volume /\ OwnMarker(a) /\ pc[a] \in ExecutorStates
  BY DEF IInv, OwnMarkers, TypeOK
<1>1. "complete" \in dur => "complete" \in dur'
  BY MarkedStays
<1>2. CASE /\ pc'[a] = pc[a] \/ pc'[a] \notin {"check4", "check8", "return", "done"}
           /\ got'[a] = got[a] \/ pc[a] = "stream"
           /\ hp'[a] = hp[a] \/ hp'[a] # "completed"
  BY <1>0, <1>1, <1>2 DEF OwnMarker
<1>3. CASE Check(a)
  <2>1. /\ pc[a] \in CheckPoints /\ pc'[a] = AfterCheck[pc[a]] /\ UNCHANGED <<got, hp>>
    BY <1>0, <1>3 DEF Check, Goto, TypeOK
  <2>2. CASE pc[a] \notin {"check4", "check8"}
    BY <1>2, <2>1, <2>2, CheckLeadsTo
  <2>3. CASE pc[a] \in {"check4", "check8"}
    <3>1. pc'[a] = "return"
      BY <2>1, <2>3 DEF AfterCheck
    <3> QED
      BY <1>0, <1>1, <2>1, <2>3, <3>1 DEF OwnMarker
  <2> QED
    BY <2>2, <2>3
<1>4. CASE Inspect(a)
  <2>1. pc[a] = "inspect" /\ pc'[a] \in {"check4", "check5"} /\ UNCHANGED <<got, hp>>
    BY <1>0, <1>4 DEF Inspect, Goto, TypeOK
  <2>2. got[a] = Blank
    BY <1>0, <2>1 DEF Volume, Unstarted
  <2> QED
    BY <1>0, <1>1, <2>1, <2>2 DEF OwnMarker
<1>5. CASE Completed(a)
  <2>1. hp[a] = "completed" /\ pc'[a] = "check8" /\ UNCHANGED <<got, hp>>
    BY <1>0, <1>5 DEF Completed, Goto, TypeOK
  <2> QED
    BY <1>0, <1>1, <2>1 DEF OwnMarker
<1>6. CASE Return(a)
  <2>1. pc[a] = "return" /\ pc'[a] = "done" /\ UNCHANGED <<got, hp>>
    BY <1>0, <1>6 DEF Return, Goto, TypeOK
  <2> QED
    BY <1>0, <1>1, <2>1 DEF OwnMarker
<1>7. CASE CreateSourceHelper(a) \/ CreateTargetHelper(a) \/ Streamed(a) \/ SourceUnchanged(a)
  <2>1. pc'[a] \in {"check1", "check2", "check6", "check7"} /\ UNCHANGED <<got, hp>>
    BY <1>0, <1>7 DEF CreateSourceHelper, CreateTargetHelper, Streamed, SourceUnchanged, Goto, TypeOK
  <2> QED
    BY <1>2, <2>1
<1>8. CASE \E c \in Chunks : Transfer(a, c) \/ Reread(a, c)
  <2>1. UNCHANGED <<pc, hp>> /\ (UNCHANGED got \/ pc[a] = "stream")
    BY <1>8 DEF Transfer, Reread
  <2> QED
    BY <1>2, <2>1
<1>9. ASSUME NEW b \in Attempts \ {a}, Executor(b) PROVE OwnMarker(a)'
  <2>1. pc'[a] = pc[a] /\ got'[a] = got[a] /\ UNCHANGED hp
    BY <1>0, <1>9 DEF Executor, Check, CreateSourceHelper, CreateTargetHelper, Inspect, Streamed, SourceUnchanged,
       Completed, Return, Transfer, Reread, Goto, TypeOK
  <2> QED
    BY <1>2, <2>1
<1>10. ASSUME NEW b \in Attempts, HelperCLI(b) PROVE OwnMarker(a)'
  <2>1. UNCHANGED <<pc, got>>
    BY <1>10 DEF HelperCLI, Helper, ImportStarts, ReceiveInspects, ReceiveClaims, ReceiveWritesClaim,
       ReceiveSyncsClaim, ReceiveTruncated, ReceiveRecords, ReceiveReturns, CompleteStarts, CompleteVerifies,
       CompleteSyncsTree, CompleteMarks, CompleteReturns
  <2>2. CASE CompleteReturns(b)
    <3>1. "complete" \in dur'
      BY <2>2 DEF CompleteReturns
    <3> QED
      BY <1>0, <2>1, <3>1 DEF OwnMarker
  <2>3. CASE ~CompleteReturns(b)
    <3>1. hp'[a] = hp[a] \/ hp'[a] # "completed"
      BY <1>0, <1>10, <2>3 DEF HelperCLI, Helper, ImportStarts, ReceiveInspects, ReceiveClaims, ReceiveWritesClaim,
         ReceiveSyncsClaim, ReceiveTruncated, ReceiveRecords, ReceiveReturns, CompleteStarts, CompleteVerifies,
         CompleteSyncsTree, CompleteMarks, TypeOK
    <3> QED
      BY <1>2, <2>1, <3>1
  <2> QED
    BY <2>2, <2>3
<1>11. CASE Cluster
  <2>1. /\ pc'[a] = pc[a] \/ pc'[a] = "failed"
        /\ UNCHANGED got
        /\ hp'[a] = hp[a] \/ hp'[a] = "error"
    BY <1>0, <1>11 DEF Cluster, WorkloadStarts, WorkloadStops, WorkloadWrites, PowerLoss, SourceHelperGone, Fail,
       TargetHelperGone, Goto, TypeOK
  <2> QED
    BY <1>2, <2>1
<1>12. CASE UNCHANGED vars
  BY <1>2, <1>12 DEF vars
<1>13. CASE Executor(a)
  BY <1>3, <1>4, <1>5, <1>6, <1>7, <1>8, <1>13 DEF Executor
<1> QED
  BY <1>9, <1>10, <1>11, <1>12, <1>13 DEF Next

\* An execution that transferred the files itself returns only when the marker is
\* on stable storage: no power loss takes back what it reported.
THEOREM OwnMarkersAreDurable == Spec => []OwnMarkerIsDurable
<1>1. Init => OwnMarkers
  BY DEF Init, OwnMarkers, OwnMarker
<1>2. IInv /\ OwnMarkers /\ [Next]_vars => OwnMarkers'
  BY OwnMarkerStep DEF OwnMarkers
<1>3. OwnMarkers => OwnMarkerIsDurable
  BY DEF OwnMarkers, OwnMarker, OwnMarkerIsDurable
<1> QED
  BY <1>1, <1>2, <1>3, Invariance, PTL DEF Spec

=============================================================================
