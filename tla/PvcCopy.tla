------------------------------ MODULE PvcCopy ------------------------------
(***************************************************************************)
(* One item of an offline PVC copy: internal/pvccopy/executor.go (Execute, *)
(* in the runner), kubectl.go (helper Pods) and local.go with archive.go   *)
(* (the helper binary that runs inside the target helper Pod).             *)
(*                                                                         *)
(* Attempts are executions of the same plan: retries after a crash of the  *)
(* runner, or two runner Pods that overlap during a rollout. A volume has  *)
(* NChunks files; the content of a file is the number of the write that    *)
(* made it, so no two writes leave the same bytes, and 0 is an absent      *)
(* file. A Receipt is the content it is the hash of; Blank is "no file".   *)
(* The helper process goes on when the executor that started it has gone.  *)
(***************************************************************************)
EXTENDS Naturals, FiniteSets

CONSTANTS Attempts,      \* executions of the plan
          NChunks,       \* files of the source volume
          MaxWrites,     \* writes by a workload that broke the offline fence
          MaxPowerLoss   \* crashes of the node that mounts the target

ASSUME CopyAssumption ==
    /\ NChunks \in Nat \ {0} /\ MaxWrites \in Nat /\ MaxPowerLoss \in Nat
    /\ "nobody" \notin Attempts

VARIABLES
    src, rogue, writes,   \* source volume; a workload Pod mounts it; its writes
    hist,                 \* history: every content the source has had
    vol, dur,             \* target volume; which of its parts are on stable storage
    srcPod, tgtPod,       \* helper Pods, by the attempt that created them
    pc, got, again, result, \* the executors
    hp,                   \* the helper process in each target Pod
    losses

source == <<src, rogue, writes, hist>>
target == <<vol, dur>>
pods == <<srcPod, tgtPod>>
locals == <<got, again, result>>
vars == <<source, target, pods, pc, locals, hp, losses>>

Chunks == 1..NChunks
Blank == [c \in Chunks |-> 0]
Contents == [Chunks -> 1..(MaxWrites + 1)]
Partials == [Chunks -> 0..(MaxWrites + 1)]
Parts == {"state", "claim", "payload", "received", "complete"}
EmptyVolume == [state |-> FALSE, claim |-> FALSE, payload |-> Blank,
                received |-> Blank, complete |-> Blank]

Ended == {"done", "failed"}
CheckPoints == {"check0", "check1", "check2", "check3", "check4", "check5", "check6", "check7", "check8"}
ExecutorStates == CheckPoints \cup Ended
    \cup {"mkSource", "mkTarget", "inspect", "stream", "reread", "complete", "return"}
HelperStates == {"idle", "importing", "inspected", "claiming", "claimed", "receiving", "recording", "received",
                 "verifying", "syncing", "synced", "completing", "completed", "error"}

Running(a) == pc[a] \notin Ended

-----------------------------------------------------------------------------
(* The source: an owner who declared it OFFLINE may still break the fence.   *)

WorkloadStarts ==
    /\ ~rogue /\ writes < MaxWrites
    /\ rogue' = TRUE
    /\ UNCHANGED <<src, writes, hist, target, pods, pc, locals, hp, losses>>

WorkloadStops ==
    /\ rogue
    /\ rogue' = FALSE
    /\ UNCHANGED <<src, writes, hist, target, pods, pc, locals, hp, losses>>

WorkloadWrites(c) ==
    /\ rogue /\ writes < MaxWrites
    /\ src' = [src EXCEPT ![c] = writes + 2]
    /\ writes' = writes + 1
    /\ hist' = hist \cup {src'}
    /\ UNCHANGED <<rogue, target, pods, pc, locals, hp, losses>>

-----------------------------------------------------------------------------
(* Executor.Execute. *)

\* The line that follows each call of Executor.check.
AfterCheck == [check0 |-> "mkSource", check1 |-> "mkTarget", check2 |-> "check3",
               check3 |-> "inspect",  check4 |-> "return",   check5 |-> "stream",
               check6 |-> "reread",   check7 |-> "complete", check8 |-> "return"]

\* Mutant: the Pods of the target namespace are not listed.
NoForeignSourceConsumer(a) == ~rogue /\ srcPod \in {"nobody", a}

\* Executor.check: no Pod but the attempt's own helpers consumes either claim.
NoForeignConsumer(a) ==
    /\ ~rogue
    /\ srcPod \in {"nobody", a}
    /\ tgtPod \subseteq {a}

Goto(a, l) == pc' = [pc EXCEPT ![a] = l]

Check(a) ==
    /\ pc[a] \in CheckPoints
    /\ NoForeignConsumer(a)
    /\ Goto(a, AfterCheck[pc[a]])
    /\ UNCHANGED <<source, target, pods, locals, hp, losses>>

\* The name of the source helper is a function of the claim: a Pod that has it
\* makes the create fail, and is never adopted.
CreateSourceHelper(a) ==
    /\ pc[a] = "mkSource"
    /\ srcPod = "nobody"
    /\ srcPod' = a
    /\ Goto(a, "check1")
    /\ UNCHANGED <<source, target, tgtPod, locals, hp, losses>>

CreateTargetHelper(a) ==
    /\ pc[a] = "mkTarget"
    /\ tgtPod' = tgtPod \cup {a}
    /\ Goto(a, "check2")
    /\ UNCHANGED <<source, target, srcPod, locals, hp, losses>>

VolumeEmpty == ~vol.state /\ vol.payload = Blank

\* Mutant: a target that was received counts as complete.
VolumeReceived == vol.state /\ vol.claim /\ vol.received # Blank /\ vol.payload = vol.received

\* Inspect accepts a completed target only after hashing it again.
VolumeComplete ==
    /\ vol.state /\ vol.claim
    /\ vol.complete # Blank
    /\ vol.received = vol.complete
    /\ vol.payload = vol.complete

\* pvc-verify. Every other state of the target is ErrPartial.
Inspect(a) ==
    /\ pc[a] = "inspect" /\ a \in tgtPod
    /\ \/ VolumeEmpty /\ Goto(a, "check5") /\ UNCHANGED result
       \/ VolumeComplete /\ Goto(a, "check4") /\ result' = [result EXCEPT ![a] = vol.complete]
    /\ UNCHANGED <<source, target, pods, got, again, hp, losses>>

\* export walks the files in sorted order.
NextFile(f, c) == f[c] = 0 /\ \A d \in 1..(c - 1) : f[d] # 0

\* Mutant: an archive entry may come twice, and replaces the file.
TransferTwice(a, c) ==
    /\ pc[a] = "stream" /\ srcPod = a /\ a \in tgtPod /\ hp[a] = "receiving"
    /\ got' = [got EXCEPT ![a][c] = src[c]]
    /\ vol' = [vol EXCEPT !.payload[c] = src[c]]
    /\ UNCHANGED <<source, dur, pods, pc, again, result, hp, losses>>

\* One file goes through export, Relay and consume.
Transfer(a, c) ==
    /\ pc[a] = "stream" /\ srcPod = a /\ a \in tgtPod /\ hp[a] = "receiving"
    /\ NextFile(got[a], c)
    /\ got' = [got EXCEPT ![a][c] = src[c]]
    /\ vol' = [vol EXCEPT !.payload[c] = src[c]]
    /\ UNCHANGED <<source, dur, pods, pc, again, result, hp, losses>>

\* The import has answered with the receipt the relay computed.
Streamed(a) ==
    /\ pc[a] = "stream" /\ hp[a] = "received" /\ a \in tgtPod
    /\ vol.received = got[a]
    /\ Goto(a, "check6")
    /\ UNCHANGED <<source, target, pods, locals, hp, losses>>

\* The second export of the source, file by file.
Reread(a, c) ==
    /\ pc[a] = "reread" /\ srcPod = a
    /\ NextFile(again[a], c)
    /\ again' = [again EXCEPT ![a][c] = src[c]]
    /\ UNCHANGED <<source, target, pods, pc, got, result, hp, losses>>

\* Mutant: the second receipt is not compared with the first.
SourceReread(a) ==
    /\ pc[a] = "reread"
    /\ \A c \in Chunks : again[a][c] # 0
    /\ Goto(a, "check7")
    /\ UNCHANGED <<source, target, pods, locals, hp, losses>>

SourceUnchanged(a) ==
    /\ pc[a] = "reread"
    /\ again[a] = got[a]
    /\ Goto(a, "check7")
    /\ UNCHANGED <<source, target, pods, locals, hp, losses>>

Completed(a) ==
    /\ pc[a] = "complete" /\ hp[a] = "completed" /\ a \in tgtPod
    /\ vol.complete = got[a]
    /\ result' = [result EXCEPT ![a] = vol.complete]
    /\ Goto(a, "check8")
    /\ UNCHANGED <<source, target, pods, got, again, hp, losses>>

\* The deferred deletion of the helpers has been accepted by the API server.
Return(a) ==
    /\ pc[a] = "return"
    /\ Goto(a, "done")
    /\ UNCHANGED <<source, target, pods, locals, hp, losses>>

\* A refused check, an error of any call, the timeout, a helper that could not
\* be deleted, or the death of the runner. A returning executor asks for its
\* helpers to be deleted, a dead one leaves them; either way they are there
\* until they are gone, and so is the helper process in the target Pod.
Fail(a) ==
    /\ Running(a)
    /\ Goto(a, "failed")
    /\ result' = [result EXCEPT ![a] = Blank]
    /\ UNCHANGED <<source, target, pods, got, again, hp, losses>>

\* A helper Pod goes away: at the end of its grace period, by its deadline, by
\* an eviction, or by the hand of its owner.
SourceHelperGone ==
    /\ srcPod # "nobody"
    /\ srcPod' = "nobody"
    /\ UNCHANGED <<source, target, tgtPod, pc, locals, hp, losses>>

TargetHelperGone(a) ==
    /\ a \in tgtPod
    /\ tgtPod' = tgtPod \ {a}
    /\ hp' = [hp EXCEPT ![a] = "error"]
    /\ UNCHANGED <<source, target, srcPod, pc, locals, losses>>

-----------------------------------------------------------------------------
(* Receive and Complete in the target helper, one durable effect per step.   *)

Helper(a, from, to) ==
    /\ a \in tgtPod /\ hp[a] = from
    /\ hp' = [hp EXCEPT ![a] = to]
    /\ UNCHANGED <<source, pods, pc, locals, losses>>

\* pvc-import: Receive inspects the target again, then takes the claim by an
\* exclusive Mkdir.
ImportStarts(a) ==
    /\ pc[a] = "stream"
    /\ Helper(a, "idle", "importing")
    /\ UNCHANGED target

ReceiveInspects(a) ==
    /\ VolumeEmpty
    /\ Helper(a, "importing", "inspected")
    /\ UNCHANGED target

ReceiveClaims(a) ==
    /\ ~vol.state
    /\ Helper(a, "inspected", "claiming")
    /\ vol' = [vol EXCEPT !.state = TRUE]
    /\ UNCHANGED dur

ReceiveWritesClaim(a) ==
    /\ Helper(a, "claiming", "claimed")
    /\ vol' = [vol EXCEPT !.claim = TRUE]
    /\ UNCHANGED dur

ReceiveSyncsClaim(a) ==
    /\ Helper(a, "claimed", "receiving")
    /\ dur' = dur \cup {"state", "claim"}
    /\ UNCHANGED vol

\* Mutant: the helper takes a state of the executor.
ReceiveFailed(a) ==
    /\ pc[a] # "stream"
    /\ Helper(a, "receiving", "failed")
    /\ UNCHANGED target

\* A stream that ends early has no end blocks: consume refuses it.
ReceiveTruncated(a) ==
    /\ pc[a] # "stream"
    /\ Helper(a, "receiving", "error")
    /\ UNCHANGED target

\* The payload is hashed again before its receipt is written.
ReceiveRecords(a) ==
    /\ \A c \in Chunks : got[a][c] # 0
    /\ vol.payload = got[a]
    /\ vol.received = Blank
    /\ Helper(a, "receiving", "recording")
    /\ vol' = [vol EXCEPT !.received = got[a]]
    /\ UNCHANGED dur

ReceiveReturns(a) ==
    /\ Helper(a, "recording", "received")
    /\ dur' = dur \cup {"received"}
    /\ UNCHANGED vol

\* pvc-complete with the runner's receipt.
CompleteStarts(a) ==
    /\ pc[a] = "complete"
    /\ Helper(a, "received", "verifying")
    /\ UNCHANGED target

CompleteVerifies(a) ==
    /\ vol.claim /\ vol.received = got[a] /\ vol.payload = got[a]
    /\ Helper(a, "verifying", "syncing")
    /\ UNCHANGED target

\* Mutant: the marker is written before the tree is synced.
CompleteSkipsTree(a) ==
    /\ Helper(a, "syncing", "synced")
    /\ UNCHANGED target

CompleteSyncsTree(a) ==
    /\ Helper(a, "syncing", "synced")
    /\ dur' = dur \cup {"payload"}
    /\ UNCHANGED vol

CompleteMarks(a) ==
    /\ vol.complete = Blank
    /\ Helper(a, "synced", "completing")
    /\ vol' = [vol EXCEPT !.complete = got[a]]
    /\ UNCHANGED dur

\* Mutant: the directory of the marker is not synced.
CompleteReturnsEarly(a) ==
    /\ Helper(a, "completing", "completed")
    /\ UNCHANGED target

CompleteReturns(a) ==
    /\ Helper(a, "completing", "completed")
    /\ dur' = dur \cup {"complete"}
    /\ UNCHANGED vol

\* The node loses power, and with it the helper processes and whatever was not
\* synced, file by file; what is left is on the disk. A file of the state
\* directory cannot outlive the directory.
Present ==
    {p \in Parts : [state |-> vol.state, claim |-> vol.claim,
                   payload |-> vol.payload # Blank, received |-> vol.received # Blank,
                   complete |-> vol.complete # Blank][p]}

AfterLoss(kept, files) ==
    [state |-> "state" \in kept,
     claim |-> "claim" \in kept,
     payload |-> [c \in Chunks |->
         IF "payload" \in kept \/ c \in files THEN vol.payload[c] ELSE 0],
     received |-> IF "received" \in kept THEN vol.received ELSE Blank,
     complete |-> IF "complete" \in kept THEN vol.complete ELSE Blank]

PowerLoss ==
    /\ losses < MaxPowerLoss
    /\ losses' = losses + 1
    /\ \E kept \in SUBSET Present : \E files \in SUBSET Chunks :
          /\ dur \subseteq kept
          /\ "state" \in kept \/ kept \subseteq {"payload"}
          /\ vol' = AfterLoss(kept, files)
          /\ dur' = IF vol'.payload # Blank THEN kept \cup {"payload"} ELSE kept \ {"payload"}
    /\ tgtPod' = {}
    /\ hp' = [a \in Attempts |-> IF a \in tgtPod THEN "error" ELSE hp[a]]
    /\ UNCHANGED <<source, srcPod, pc, locals>>

-----------------------------------------------------------------------------
Init ==
    /\ src = [c \in Chunks |-> 1] /\ rogue = FALSE /\ writes = 0 /\ hist = {src}
    /\ vol = EmptyVolume /\ dur = {}
    /\ srcPod = "nobody" /\ tgtPod = {}
    /\ pc = [a \in Attempts |-> "check0"]
    /\ got = [a \in Attempts |-> Blank]
    /\ again = [a \in Attempts |-> Blank]
    /\ result = [a \in Attempts |-> Blank]
    /\ hp = [a \in Attempts |-> "idle"]
    /\ losses = 0

Executor(a) ==
    \/ Check(a) \/ CreateSourceHelper(a) \/ CreateTargetHelper(a) \/ Inspect(a)
    \/ Streamed(a) \/ SourceUnchanged(a) \/ Completed(a) \/ Return(a)
    \/ \E c \in Chunks : Transfer(a, c) \/ Reread(a, c)

HelperCLI(a) ==
    \/ ImportStarts(a) \/ ReceiveInspects(a) \/ ReceiveClaims(a) \/ ReceiveWritesClaim(a) \/ ReceiveSyncsClaim(a)
    \/ ReceiveTruncated(a) \/ ReceiveRecords(a) \/ ReceiveReturns(a)
    \/ CompleteStarts(a) \/ CompleteVerifies(a) \/ CompleteSyncsTree(a) \/ CompleteMarks(a) \/ CompleteReturns(a)

Cluster ==
    \/ WorkloadStarts \/ WorkloadStops \/ PowerLoss
    \/ \E c \in Chunks : WorkloadWrites(c)
    \/ SourceHelperGone
    \/ \E a \in Attempts : Fail(a) \/ TargetHelperGone(a)

Next == Cluster \/ \E a \in Attempts : Executor(a) \/ HelperCLI(a)

Spec == Init /\ [][Next]_vars

-----------------------------------------------------------------------------
(* Properties. *)

\* Types. Executors and helper processes are at lines of their own programs.
TypeOK ==
    /\ src \in Contents /\ rogue \in BOOLEAN /\ writes \in 0..MaxWrites
    /\ hist \subseteq Contents
    /\ vol \in [state: BOOLEAN, claim: BOOLEAN, payload: Partials,
                received: Partials, complete: Partials]
    /\ dur \subseteq Parts
    /\ srcPod \in Attempts \cup {"nobody"} /\ tgtPod \subseteq Attempts
    /\ pc \in [Attempts -> ExecutorStates]
    /\ got \in [Attempts -> Partials] /\ again \in [Attempts -> Partials]
    /\ result \in [Attempts -> Partials]
    /\ hp \in [Attempts -> HelperStates]
    /\ losses \in 0..MaxPowerLoss

AtWork(a) == hp[a] \notin {"idle", "error"}

\* Never are two helper processes at work on the target, not even to inspect it:
\* an execution that starts while the Pods of another one exist, be it running,
\* orphaned or terminating, is stopped by the name of the source helper or by
\* Executor.check.
SingleHelperAtWork == \A a, b \in Attempts : AtWork(a) /\ AtWork(b) => a = b

\* A completion marker, whatever crash came before or after it, stands next to
\* the payload it describes, and that payload is a state the source really was
\* in, even if a workload wrote to the source during the transfer.
CompleteIsFaithful ==
    vol.complete # Blank =>
        /\ vol.payload = vol.complete /\ vol.received = vol.complete
        /\ vol.complete \in hist

\* An execution that returned a marker told the truth, and goes on telling it
\* after any crash: claim, payload and receipt cannot be lost any more, and the
\* payload is the one the marker describes.
SuccessIsDurable ==
    \A a \in Attempts : pc[a] = "done" =>
        /\ Parts \ {"complete"} \subseteq dur
        /\ result[a] # Blank /\ vol.payload = result[a] /\ vol.received = result[a]

\* "The durable marker": the marker an execution returned cannot be lost.
MarkerIsDurable == \A a \in Attempts : pc[a] = "done" => "complete" \in dur

\* The marker that an execution has had written itself cannot be lost once it has
\* returned; only one that was found and verified may be.
OwnMarkerIsDurable ==
    \A a \in Attempts : pc[a] = "done" /\ got[a] # Blank => "complete" \in dur

\* "It is never overwritten, even on a retry": a file that was received is never
\* replaced by another one, and a payload that was synced changes no more.
NeverOverwritten ==
    [][/\ \A c \in Chunks : vol.payload[c] # 0 => vol'.payload[c] \in {0, vol.payload[c]}
       /\ "complete" \in dur => vol' = vol]_vars

\* A copy is published when its marker is on stable storage, or an execution has
\* returned the marker.
Published ==
    IF "complete" \in dur THEN vol.complete
    ELSE IF \E a \in Attempts : pc[a] = "done" THEN vol.payload
    ELSE Blank

Promise == INSTANCE VerifiedCopy
    WITH NoContent <- Blank, seen <- hist, published <- Published,
         reported <- [a \in Attempts |-> IF pc[a] = "done" THEN result[a] ELSE Blank]

\* Execute and the helpers implement the promise of VerifiedCopy.
ImplementsVerifiedCopy == Promise!CopySpec

=============================================================================
