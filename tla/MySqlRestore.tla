---------------------------- MODULE MySqlRestore ----------------------------
(***************************************************************************)
(* One item of a logical MySQL restore: ExecuteDomain of                   *)
(* internal/mysqlcopy/executor.go with KubeTransport (kube.go), the native *)
(* driver (driver.go) and the init container of the target Pod (helper.go).*)
(*                                                                         *)
(* Attempts are executions of the same item. A table is a pair of version  *)
(* numbers, its schema's and its rows'; None is a table that is not there. *)
(* A Proof is the content it is the hash of. mysqldump reads the rows of   *)
(* one snapshot but every schema as it is when it reaches the table, which *)
(* is why the source is held under LOCK INSTANCE FOR BACKUP.               *)
(***************************************************************************)
EXTENDS Naturals

CONSTANTS Attempts,   \* executions of the item
          NTables,    \* tables of the source database
          MaxDDL,     \* schema changes at the source
          MaxDML,     \* row changes at the source
          MaxChanges, \* replacements of the source Pod or of a credential
          MaxSwaps    \* target claims that others delete

ASSUME RestoreAssumption ==
    /\ NTables \in Nat \ {0} /\ MaxDDL \in Nat /\ MaxDML \in Nat
    /\ MaxChanges \in Nat /\ MaxSwaps \in Nat
    /\ {"nobody", "other"} \cap Attempts = {}

VARIABLES
    db, ddls, dmls, hist,    \* source: tables, changes, every state it was in
    ident,                   \* identity of source and credentials
    srcPod, srcUp,           \* source client Pod: its attempt; its container runs
    lock,                    \* the backup-lock session of each attempt
    claim, maker, uids,      \* target claim: UID (0: none), who created it
    claimFile, data,         \* target volume: .mysqlcopy-claim, tables
    tpod,                    \* target server Pod of each attempt
    receipt,                 \* the immutable ConfigMap
    pc, seen, pin, snap, got, result, \* the executors
    swaps

source == <<db, ddls, dmls, hist, ident>>
client == <<srcPod, srcUp, lock>>
volume == <<claim, maker, uids, claimFile, data>>
cluster == <<tpod, receipt, swaps>>
locals == <<seen, pin, snap, got, result>>
vars == <<source, client, volume, cluster, pc, locals>>

Tables == 1..NTables
None == <<0, 0>>
Cells == (1..(MaxDDL + 1)) \X (1..(MaxDML + 1))
Contents == [Tables -> Cells]
Partials == [Tables -> Cells \cup {None}]
Nothing == [t \in Tables |-> None]
NoReceipt == [uid |-> 0, proof |-> Nothing]

CheckPoints == {"checkProvision", "checkTransfer", "checkVerify", "checkComplete", "checkCommit", "checkExisting"}
Ended == {"done", "failed", "dead"}
Lines == CheckPoints \cup Ended \cup
    {"start", "identify", "hold", "inspect", "inspectClaim", "inspectReceipt", "mkResume", "waitResume", "redump",
     "stopResume", "waitResumed", "provision", "create", "mkTarget", "waitSQL", "dump", "transfer", "verify",
     "stop", "waitStop", "commit", "release", "cleanup", "unwind"}
PodStates == {"none", "claiming", "resuming", "starting", "serving", "stopping", "stopped", "dead"}

Goto(a, l) == pc' = [pc EXCEPT ![a] = l]

-----------------------------------------------------------------------------
(* The source database in production. *)

LockHeld == \E a \in Attempts : lock[a] = "held"

DML(t) ==
    /\ dmls < MaxDML
    /\ dmls' = dmls + 1
    /\ db' = [db EXCEPT ![t] = <<@[1], dmls + 2>>]
    /\ hist' = hist \cup {db'}
    /\ UNCHANGED <<ddls, ident, client, volume, cluster, pc, locals>>

\* A backup lock blocks schema changes.
DDL(t) ==
    /\ ddls < MaxDDL /\ ~LockHeld
    /\ ddls' = ddls + 1
    /\ db' = [db EXCEPT ![t] = <<ddls + 2, @[2]>>]
    /\ hist' = hist \cup {db'}
    /\ UNCHANGED <<dmls, ident, client, volume, cluster, pc, locals>>

\* A session that ends, for whatever reason, gives its lock up.
LoseLocks(S) == lock' = [a \in Attempts |-> IF a \in S /\ lock[a] = "held" THEN "lost" ELSE lock[a]]

\* The source Pod is replaced (its sessions end), or a Secret changes.
IdentityChanges ==
    /\ ident < MaxChanges
    /\ ident' = ident + 1
    /\ LoseLocks(Attempts) \/ UNCHANGED lock
    /\ UNCHANGED <<db, ddls, dmls, hist, srcPod, srcUp, volume, cluster, pc, locals>>

\* The connection breaks or is killed.
SessionLost(a) ==
    /\ lock[a] = "held"
    /\ LoseLocks({a})
    /\ UNCHANGED <<source, srcPod, srcUp, volume, cluster, pc, locals>>

-----------------------------------------------------------------------------
(* Identity, hold and checks. *)

ClientRuns(a) == srcPod = a /\ srcUp

\* CheckCredentials and sourceReadback, then the source client Pod, whose name
\* is a function of the source claim: one that exists is never adopted.
CreateSourceHelper(a) ==
    /\ pc[a] = "start"
    /\ srcPod = "nobody"
    /\ srcPod' = a /\ srcUp' = TRUE
    /\ Goto(a, "identify")
    /\ UNCHANGED <<source, lock, volume, cluster, locals>>

Identify(a) ==
    /\ pc[a] = "identify" /\ ClientRuns(a)
    /\ seen' = [seen EXCEPT ![a] = ident]
    /\ Goto(a, "hold")
    /\ UNCHANGED <<source, client, volume, cluster, pin, snap, got, result>>

\* The session takes the lock; if its first challenge is not answered, HoldDDL
\* fails and has no hold to release.
HoldDDL(a) ==
    /\ pc[a] = "hold" /\ ClientRuns(a)
    /\ lock' = [lock EXCEPT ![a] = "held"]
    /\ Goto(a, "checkProvision") \/ Goto(a, "unwind")
    /\ UNCHANGED <<source, srcPod, srcUp, volume, cluster, locals>>

\* Mutant: the session is not challenged.
HoldForgotten(a) == lock[a] # "none"

\* backupHold.Check: an answer on the very connection that took the lock.
HoldChecked(a) == lock[a] = "held"

AfterCheck == [checkProvision |-> "inspect", checkTransfer |-> "dump", checkVerify |-> "verify",
               checkComplete |-> "stop", checkCommit |-> "commit", checkExisting |-> "release"]

\* The closure check of ExecuteDomain.
Check(a) ==
    /\ pc[a] \in CheckPoints
    /\ HoldChecked(a)
    /\ ClientRuns(a) /\ ident = seen[a]
    /\ Goto(a, AfterCheck[pc[a]])
    /\ UNCHANGED <<source, client, volume, cluster, locals>>

-----------------------------------------------------------------------------
(* Inspect and Provision. *)

\* targetConsumers: a Pod counts until it is gone, whatever its phase.
NoConsumer(exempt) == \A b \in Attempts \ exempt : tpod[b] = "none"

\* Mutant: the UID of the claim is not compared.
TargetUnpinned(a) == tpod[a] # "none" /\ NoConsumer({a}) /\ claim # 0

\* Validate(target): the attempt's own Pod, alone on the claim it has pinned.
TargetValid(a) == tpod[a] # "none" /\ NoConsumer({a}) /\ claim = pin[a]

InspectConsumers(a) ==
    /\ pc[a] = "inspect" /\ NoConsumer({})
    /\ Goto(a, "inspectClaim")
    /\ UNCHANGED <<source, client, volume, cluster, locals>>

\* A claim without the digest of this plan is refused.
InspectClaim(a) ==
    /\ pc[a] = "inspectClaim"
    /\ \/ claim = 0 /\ Goto(a, "provision") /\ UNCHANGED pin
       \/ maker \in Attempts /\ Goto(a, "inspectReceipt") /\ pin' = [pin EXCEPT ![a] = claim]
    /\ UNCHANGED <<source, client, volume, cluster, seen, snap, got, result>>

\* Mutant: a claim without a receipt is filled again.
InspectRefills(a) ==
    /\ pc[a] = "inspectReceipt"
    /\ Goto(a, IF receipt.uid = pin[a] THEN "mkResume" ELSE "mkTarget")
    /\ UNCHANGED <<source, client, volume, cluster, locals>>

\* No receipt, or one for another claim, is ErrPartial.
InspectReceipt(a) ==
    /\ pc[a] = "inspectReceipt"
    /\ receipt.uid = pin[a]
    /\ Goto(a, "mkResume")
    /\ UNCHANGED <<source, client, volume, cluster, locals>>

ProvisionConsumers(a) ==
    /\ pc[a] = "provision" /\ NoConsumer({})
    /\ Goto(a, "create")
    /\ UNCHANGED <<source, client, volume, cluster, locals>>

\* create, never apply: a claim that exists makes it fail.
CreateClaim(a) ==
    /\ pc[a] = "create" /\ claim = 0
    /\ uids' = uids + 1 /\ claim' = uids' /\ maker' = a
    /\ claimFile' = 0 /\ data' = Nothing
    /\ pin' = [pin EXCEPT ![a] = uids']
    /\ Goto(a, "mkTarget")
    /\ UNCHANGED <<source, client, cluster, seen, snap, got, result>>

\* The Pod mounts the claim that has the name now.
CreateTargetPod(a) ==
    /\ claim # 0
    /\ \/ pc[a] = "mkTarget" /\ Goto(a, "waitSQL") /\ tpod' = [tpod EXCEPT ![a] = "claiming"]
       \/ pc[a] = "mkResume" /\ Goto(a, "waitResume") /\ tpod' = [tpod EXCEPT ![a] = "resuming"]
    /\ UNCHANGED <<source, client, volume, receipt, swaps, locals>>

\* waitRunning and waitSQL validate the target at every turn.
WaitSQL(a) ==
    /\ tpod[a] = "serving" /\ TargetValid(a)
    /\ \/ pc[a] = "waitSQL" /\ Goto(a, "checkTransfer")
       \/ pc[a] = "waitResume" /\ Goto(a, "redump")
    /\ UNCHANGED <<source, client, volume, cluster, locals>>

\* A completed target is dumped again before its receipt is returned.
Redump(a) ==
    /\ pc[a] = "redump" /\ tpod[a] = "serving" /\ TargetValid(a)
    /\ data = receipt.proof
    /\ result' = [result EXCEPT ![a] = receipt.proof]
    /\ Goto(a, "stopResume")
    /\ UNCHANGED <<source, client, volume, cluster, seen, pin, snap, got>>

-----------------------------------------------------------------------------
(* Transfer, verification, receipt. *)

\* mysqldump opens its snapshot; the restore client is connected to the target.
BeginTransfer(a) ==
    /\ pc[a] = "dump" /\ ClientRuns(a)
    /\ tpod[a] = "serving" /\ TargetValid(a)
    /\ snap' = [snap EXCEPT ![a] = db]
    /\ Goto(a, "transfer")
    /\ UNCHANGED <<source, client, volume, cluster, seen, pin, got, result>>

DumpTable(a, t) ==
    /\ pc[a] = "transfer" /\ ClientRuns(a)
    /\ got[a][t] = None /\ \A u \in 1..(t - 1) : got[a][u] # None
    /\ got' = [got EXCEPT ![a][t] = <<db[t][1], snap[a][t][2]>>]
    /\ UNCHANGED <<source, client, volume, cluster, pc, seen, pin, snap, result>>

\* The client in the target Pod works off what it was sent, also when its
\* executor is gone. CREATE TABLE fails on a table that exists.
RestoreTable(a, t) ==
    /\ tpod[a] = "serving" /\ got[a][t] # None
    /\ data[t] = None /\ \A u \in 1..(t - 1) : data[u] # None
    /\ data' = [data EXCEPT ![t] = got[a][t]]
    /\ UNCHANGED <<source, client, claim, maker, uids, claimFile, cluster, pc, locals>>

\* Mutant: the dump's error is not looked at, a stream cut short is a dump.
TransferredShort(a) ==
    /\ pc[a] = "transfer" /\ tpod[a] = "serving"
    /\ data = got[a]
    /\ Goto(a, "checkVerify")
    /\ UNCHANGED <<source, client, volume, cluster, locals>>

\* Both processes have ended with success, and the tracker has seen every table.
Transferred(a) ==
    /\ pc[a] = "transfer" /\ tpod[a] = "serving"
    /\ \A t \in Tables : got[a][t] # None /\ data[t] # None
    /\ Goto(a, "checkVerify")
    /\ UNCHANGED <<source, client, volume, cluster, locals>>

\* Mutant: the restore goes on at a line there is not.
VerifyCompletes(a) ==
    /\ pc[a] = "verify" /\ tpod[a] = "serving" /\ TargetValid(a)
    /\ Goto(a, "complete")
    /\ UNCHANGED <<source, client, volume, cluster, locals>>

Verify(a) ==
    /\ pc[a] = "verify" /\ tpod[a] = "serving" /\ TargetValid(a)
    /\ data = got[a]
    /\ Goto(a, "checkComplete")
    /\ UNCHANGED <<source, client, volume, cluster, locals>>

\* SIGTERM to the server.
Shutdown(a) ==
    /\ tpod[a] = "serving" /\ TargetValid(a)
    /\ \/ pc[a] = "stop" /\ Goto(a, "waitStop")
       \/ pc[a] = "stopResume" /\ Goto(a, "waitResumed")
    /\ tpod' = [tpod EXCEPT ![a] = "stopping"]
    /\ UNCHANGED <<source, client, volume, receipt, swaps, locals>>

\* The server has exited with code zero.
WaitStopped(a) ==
    /\ tpod[a] = "stopped" /\ TargetValid(a)
    /\ \/ pc[a] = "waitStop" /\ Goto(a, "checkCommit")
       \/ pc[a] = "waitResumed" /\ Goto(a, "checkExisting")
    /\ UNCHANGED <<source, client, volume, cluster, locals>>

\* The receipt is created, and the answer may be lost.
Commit(a) ==
    /\ pc[a] = "commit" /\ tpod[a] = "stopped" /\ NoConsumer({a})
    /\ receipt = NoReceipt
    /\ receipt' = [uid |-> pin[a], proof |-> got[a]]
    /\ \/ result' = [result EXCEPT ![a] = got[a]] /\ Goto(a, "release")
       \/ UNCHANGED result /\ Goto(a, "unwind")
    /\ UNCHANGED <<source, client, volume, tpod, swaps, seen, pin, snap, got>>

-----------------------------------------------------------------------------
(* The deferred calls. *)

\* Release accepts nothing but the acknowledgment of UNLOCK on the session.
Release(a) ==
    /\ pc[a] = "release" /\ lock[a] = "held"
    /\ lock' = [lock EXCEPT ![a] = "none"]
    /\ Goto(a, "cleanup")
    /\ UNCHANGED <<source, srcPod, srcUp, volume, cluster, locals>>

\* Cleanup deletes both Pods and waits until they are gone.
Cleanup(a) ==
    /\ pc[a] = "cleanup" /\ srcPod # a /\ tpod[a] = "none"
    /\ Goto(a, "done")
    /\ UNCHANGED <<source, client, volume, cluster, locals>>

\* An error, a refusal or the timeout, at any line.
Fail(a) ==
    /\ pc[a] \notin Ended \cup {"unwind"}
    /\ Goto(a, "unwind")
    /\ result' = [result EXCEPT ![a] = Nothing]
    /\ UNCHANGED <<source, client, volume, cluster, seen, pin, snap, got>>

\* Release and Cleanup on the way out; either may fail, and what it did not
\* undo stays. A Pod whose creation was not acknowledged is not deleted.
Unwind(a) ==
    /\ pc[a] = "unwind"
    /\ \/ UNCHANGED lock
       \/ lock[a] # "none" /\ lock' = [lock EXCEPT ![a] = "none"]
    /\ Goto(a, "failed")
    /\ UNCHANGED <<source, srcPod, srcUp, volume, cluster, locals>>

\* The runner is killed.
Die(a) ==
    /\ pc[a] \notin Ended
    /\ Goto(a, "dead")
    /\ result' = [result EXCEPT ![a] = Nothing]
    /\ UNCHANGED <<source, client, volume, cluster, seen, pin, snap, got>>

-----------------------------------------------------------------------------
(* Pods, claims and the cluster. *)

\* The init container: targetClaim on an empty volume, or on its own claim.
TargetInit(a) ==
    /\ \/ /\ tpod[a] = "claiming" /\ claimFile = 0
          /\ claimFile' = pin[a]
       \/ /\ tpod[a] = "resuming" /\ claimFile = pin[a] /\ pin[a] # 0
          /\ UNCHANGED claimFile
    /\ tpod' = [tpod EXCEPT ![a] = "starting"]
    /\ UNCHANGED <<source, client, claim, maker, uids, data, receipt, swaps, pc, locals>>

\* mysqld does not start on a data directory that another one has locked.
ServerStarts(a) ==
    /\ tpod[a] = "starting"
    /\ \A b \in Attempts : tpod[b] \notin {"serving", "stopping"}
    /\ tpod' = [tpod EXCEPT ![a] = "serving"]
    /\ UNCHANGED <<source, client, volume, receipt, swaps, pc, locals>>

ServerExits(a) ==
    /\ tpod[a] = "stopping"
    /\ tpod' = [tpod EXCEPT ![a] = "stopped"]
    /\ UNCHANGED <<source, client, volume, receipt, swaps, pc, locals>>

\* A refused init container, a server that crashed, an evicted Pod, a deadline.
TargetDies(a) ==
    /\ tpod[a] \notin {"none", "stopped", "dead"}
    /\ tpod' = [tpod EXCEPT ![a] = "dead"]
    /\ UNCHANGED <<source, client, volume, receipt, swaps, pc, locals>>

\* A Pod goes away: deleted by Cleanup or by its owner.
TargetGone(a) ==
    /\ tpod[a] # "none"
    /\ tpod' = [tpod EXCEPT ![a] = "none"]
    /\ UNCHANGED <<source, client, volume, receipt, swaps, pc, locals>>

SourceHelperGone ==
    /\ srcPod # "nobody"
    /\ srcPod' = "nobody" /\ srcUp' = FALSE
    /\ LoseLocks({srcPod})
    /\ UNCHANGED <<source, volume, cluster, pc, locals>>

\* Mutant: the source client Pod has no deadline.
HelperOutlives(a) == FALSE /\ UNCHANGED vars

\* The helper sleeps for the timeout of its attempt and has a deadline after it:
\* the client ends, the Pod stays until its owner removes it.
HelperDeadline(a) ==
    /\ ClientRuns(a) /\ pc[a] \in Ended
    /\ srcUp' = FALSE
    /\ LoseLocks({a})
    /\ UNCHANGED <<source, srcPod, volume, cluster, pc, locals>>

ForeignDelete ==
    /\ swaps < MaxSwaps /\ claim # 0 /\ NoConsumer({})
    /\ claim' = 0 /\ maker' = "nobody" /\ claimFile' = 0 /\ data' = Nothing
    /\ swaps' = swaps + 1
    /\ UNCHANGED <<source, client, uids, tpod, receipt, pc, locals>>

ForeignCreate ==
    /\ claim = 0
    /\ uids' = uids + 1 /\ claim' = uids' /\ maker' = "other"
    /\ UNCHANGED <<source, client, claimFile, data, cluster, pc, locals>>

-----------------------------------------------------------------------------
Init ==
    /\ db = [t \in Tables |-> <<1, 1>>] /\ ddls = 0 /\ dmls = 0 /\ hist = {db}
    /\ ident = 0
    /\ srcPod = "nobody" /\ srcUp = FALSE
    /\ lock = [a \in Attempts |-> "none"]
    /\ claim = 0 /\ maker = "nobody" /\ uids = 0 /\ claimFile = 0 /\ data = Nothing
    /\ tpod = [a \in Attempts |-> "none"]
    /\ receipt = NoReceipt
    /\ pc = [a \in Attempts |-> "start"]
    /\ seen = [a \in Attempts |-> 0] /\ pin = [a \in Attempts |-> 0]
    /\ snap = [a \in Attempts |-> Nothing] /\ got = [a \in Attempts |-> Nothing]
    /\ result = [a \in Attempts |-> Nothing]
    /\ swaps = 0

ExecuteDomain(a) ==
    \/ CreateSourceHelper(a) \/ Identify(a) \/ HoldDDL(a) \/ Check(a)
    \/ InspectConsumers(a) \/ InspectClaim(a) \/ InspectReceipt(a) \/ Redump(a)
    \/ ProvisionConsumers(a) \/ CreateClaim(a) \/ CreateTargetPod(a) \/ WaitSQL(a)
    \/ BeginTransfer(a) \/ Transferred(a) \/ Verify(a) \/ Shutdown(a) \/ WaitStopped(a) \/ Commit(a)
    \/ Release(a) \/ Cleanup(a) \/ Fail(a) \/ Unwind(a) \/ Die(a)
    \/ \E t \in Tables : DumpTable(a, t)

Pods(a) ==
    \/ TargetInit(a) \/ ServerStarts(a) \/ ServerExits(a) \/ TargetDies(a) \/ TargetGone(a)
    \/ HelperDeadline(a) \/ SessionLost(a)
    \/ \E t \in Tables : RestoreTable(a, t)

Outside ==
    \/ IdentityChanges \/ SourceHelperGone \/ ForeignDelete \/ ForeignCreate
    \/ \E t \in Tables : DML(t) \/ DDL(t)

Next == Outside \/ \E a \in Attempts : ExecuteDomain(a) \/ Pods(a)

Spec == Init /\ [][Next]_vars

\* The context of an execution times out, its deferred calls are bounded, and the
\* kubelet enforces deadlines. Nothing else is fair.
FairSpec ==
    /\ Spec
    /\ \A a \in Attempts : WF_vars(Fail(a)) /\ WF_vars(Unwind(a)) /\ WF_vars(HelperDeadline(a))

-----------------------------------------------------------------------------
(* Properties. *)

\* Types. Every execution is at a line of ExecuteDomain.
TypeOK ==
    /\ db \in Contents /\ ddls \in 0..MaxDDL /\ dmls \in 0..MaxDML /\ hist \subseteq Contents
    /\ ident \in 0..MaxChanges /\ seen \in [Attempts -> 0..MaxChanges]
    /\ srcPod \in Attempts \cup {"nobody"} /\ srcUp \in BOOLEAN
    /\ lock \in [Attempts -> {"none", "held", "lost"}]
    /\ uids \in Nat /\ claim \in 0..uids /\ claimFile \in 0..uids
    /\ maker \in Attempts \cup {"nobody", "other"}
    /\ data \in Partials /\ tpod \in [Attempts -> PodStates]
    /\ receipt \in [uid: 0..uids, proof: Partials]
    /\ pc \in [Attempts -> Lines] /\ pin \in [Attempts -> 0..uids]
    /\ snap \in [Attempts -> Partials] /\ got \in [Attempts -> Partials]
    /\ result \in [Attempts -> Partials] /\ swaps \in 0..MaxSwaps

\* A receipt tells the truth: its proof is one state the source was in, with no
\* schema change mixed into the rows of the snapshot although the lock session
\* may be lost at any moment, and it is what the claim it names holds.
ReceiptIsTrue ==
    receipt # NoReceipt =>
        /\ receipt.proof \in hist
        /\ claim = receipt.uid => data = receipt.proof

\* Rows go only to a claim that an execution of this plan created, although Pods
\* mount the claim by name and others may replace it.
RowsOnlyInOwnClaim == data # Nothing => maker \in Attempts

\* "Unknown outcomes remain partial": when the execution that created the claim
\* has ended and its target Pod is gone, no other execution adds a row to it.
PartialIsLeftAlone ==
    [][(maker \in Attempts /\ pc[maker] \in Ended /\ tpod[maker] = "none" /\ claim' = claim)
          => data' = data]_vars

\* The production database is not blocked for ever: a backup lock is released,
\* or ends with its session, even if the runner is killed.
HoldEnds == \A a \in Attempts : lock[a] = "held" ~> lock[a] # "held"

Promise == INSTANCE VerifiedCopy
    WITH NoContent <- Nothing, seen <- hist, published <- receipt.proof,
         reported <- [a \in Attempts |-> IF pc[a] = "done" THEN result[a] ELSE Nothing]

\* ExecuteDomain implements the promise of VerifiedCopy: the receipt is the
\* published copy, and every execution that succeeds returns it.
ImplementsVerifiedCopy == Promise!CopySpec

=============================================================================
