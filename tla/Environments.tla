---------------------------- MODULE Environments ----------------------------
(***************************************************************************)
(* The environment orchestrator: Create, Delete, Status and UpdateStatus   *)
(* of internal/orchestrator/orchestrator.go as concurrent calls, over the  *)
(* environment store (internal/store/store.go, sql_store.go) and the       *)
(* GitOps repository (internal/gitops), whose workspace on disk all        *)
(* environments of a repository and branch share. Branch strategy direct.  *)
(*                                                                         *)
(* A tree is the set of the environments whose manifests it holds. A       *)
(* record is its status and Cleanup.Verified. Where UpdatedAt is taken     *)
(* just before Save the two are one step; Create takes it when it begins.  *)
(***************************************************************************)
EXTENDS Naturals

CONSTANTS Envs, Calls,
          Retrier, Retried,  \* one caller asks for the deletion of one environment
                             \* again and again until it is done
          MaxStarts,         \* all other calls
          MaxFaults          \* failures of git, backend or store, and restarts

ASSUME EnvironmentsAssumption ==
    Retrier \in Calls /\ Retried \in Envs /\ MaxStarts \in Nat /\ MaxFaults \in Nat

VARIABLES
    backend, perOp, kind,     \* deployment backend; a writer per call; the store
    mem, file,                \* records: in memory, in the file
    work, idx, head, remote,  \* workspace, index, local branch, remote branch
    once,                     \* sync.Once of a writer that all calls share
    rel,                      \* environments with a Helm release
    call,                     \* the calls
    starts, faults, restarts

config == <<backend, perOp, kind>>
records == <<mem, file>>
trees == <<work, idx, head, remote>>
budget == <<starts, faults, restarts>>
vars == <<config, records, trees, once, rel, call, budget>>

DeleteFamily == {"deleteRequested", "deletePending", "deleteFailed", "terminated"}
Statuses == DeleteFamily \cup {"creating", "ready", "failed", "notFound"}
Record(st, verified) == [st |-> st, verified |-> verified]
NoRecord == Record("none", FALSE)
Lost == [e \in Envs |-> NoRecord]

\* ready: this call's writer is prepared; old: a later UpdatedAt has been stored
\* than the one Create holds; earlier: Creates whose UpdatedAt is before it;
\* alone: no other call has been in the workspace, and it held no unpushed commit.
Idle == [pc |-> "idle", op |-> "", e |-> Retried, rec |-> NoRecord, ready |-> FALSE,
         old |-> FALSE, earlier |-> {}, alone |-> FALSE]

Inside == {"edit", "apply", "commit", "push"}
Active(c) == call[c].pc # "idle"
At(c, pc) == call[c].pc = pc
Goto(c, pc) == call' = [call EXCEPT ![c].pc = pc, ![c].ready = @ /\ pc \in Inside,
                                    ![c].alone = @ /\ pc \in Inside]
Fault == faults < MaxFaults /\ faults' = faults + 1
NoFault == UNCHANGED faults
Fails(c) == Fault /\ Goto(c, "fail")

-----------------------------------------------------------------------------
(* The stores. *)

Creating(e) == {c \in Calls : Active(c) /\ call[c].op = "create" /\ call[c].e = e}

\* The calls after c has stored a record of its environment: c goes on as next,
\* and the Creates in "late" hold an UpdatedAt before the stored one from now on.
Stored(c, next, late) ==
    [d \in Calls |-> IF d = c THEN next
                     ELSE IF d \in late THEN [call[d] EXCEPT !.old = TRUE] ELSE call[d]]

\* Save refuses a record that is older than the stored one. JSONStore changes its
\* map and then rewrites the file, which a failure leaves as it was or, since
\* os.WriteFile truncates it first, empty. The upsert of SQLStore happens or not.
\* The call goes on as next: an error is ignored, or returned by a call that ends.
Save(c, e, rec, old, late, next) ==
    \/ /\ old /\ mem[e] # NoRecord
       /\ call' = [call EXCEPT ![c] = next]
       /\ NoFault /\ UNCHANGED records
    \/ /\ ~old \/ mem[e] = NoRecord
       /\ \/ /\ mem' = [mem EXCEPT ![e] = rec] /\ file' = mem'
             /\ call' = Stored(c, next, late)
             /\ NoFault
          \/ /\ kind = "json"
             /\ mem' = [mem EXCEPT ![e] = rec] /\ file' \in {file, Lost}
             /\ call' = Stored(c, next, late)
             /\ Fault
          \/ /\ kind = "sql"
             /\ call' = [call EXCEPT ![c] = next]
             /\ Fault /\ UNCHANGED records

\* Save of a record that has just got its UpdatedAt.
SaveNow(c, e, rec, next) == Save(c, e, rec, FALSE, Creating(e), next)

-----------------------------------------------------------------------------
(* RepositoryWriter. *)

Prepared(c) == IF perOp THEN call[c].ready ELSE once = "ready"

\* c enters the workspace.
Enter(c, clean) ==
    LET busy == \E d \in Calls \ {c} : call[d].pc \in Inside
    IN  call' = [d \in Calls |->
            IF d = c THEN [call[c] EXCEPT !.pc = "edit", !.ready = TRUE, !.alone = clean /\ ~busy]
                     ELSE [call[d] EXCEPT !.alone = FALSE]]

\* Mutant: the workspace is taken as an earlier call has left it.
PrepareKeeps(c) ==
    /\ At(c, "prepare")
    /\ Enter(c, head = remote)
    /\ UNCHANGED <<config, records, trees, once, rel, budget>>

\* ensure and prepare: fetch, checkout -f, reset --hard. What is not tracked
\* survives the reset. sync.Once keeps the error of a shared writer for good.
Prepare(c) ==
    /\ At(c, "prepare")
    /\ \/ /\ Prepared(c)
          /\ Enter(c, head = remote)
          /\ NoFault /\ UNCHANGED <<trees, once>>
       \/ /\ ~Prepared(c) /\ (perOp \/ once = "new")
          /\ head' = remote /\ idx' = remote /\ work' = remote \cup (work \ idx)
          /\ once' = IF perOp THEN once ELSE "ready"
          /\ Enter(c, TRUE)
          /\ NoFault /\ UNCHANGED remote
       \/ /\ ~Prepared(c) /\ (perOp \/ once = "new")
          /\ once' = IF perOp THEN once ELSE "broken"
          /\ Fails(c) /\ UNCHANGED trees
       \/ /\ ~perOp /\ once = "broken"
          /\ Goto(c, "fail")
          /\ NoFault /\ UNCHANGED <<trees, once>>
    /\ UNCHANGED <<config, records, rel, starts, restarts>>

\* WriteManifest of every manifest, or RemovePath.
Edit(c) ==
    /\ At(c, "edit")
    /\ \/ /\ work' = IF call[c].op = "create" THEN work \cup {call[c].e} ELSE work \ {call[c].e}
          /\ Goto(c, IF call[c].op = "create" /\ backend = "helm" THEN "apply" ELSE "commit")
          /\ NoFault
       \/ Fails(c) /\ UNCHANGED work
    /\ UNCHANGED <<config, records, idx, head, remote, once, rel, starts, restarts>>

\* Mutant: the commit is made of what the index held before.
CommitIndex(c) ==
    /\ At(c, "commit")
    /\ IF idx = head THEN UNCHANGED head /\ Goto(c, "save") ELSE head' = idx /\ Goto(c, "push")
    /\ UNCHANGED <<config, records, work, idx, remote, once, rel, budget>>

\* CommitService.Commit: add -A of the whole tree; without a change it succeeds
\* and nothing is pushed.
Commit(c) ==
    /\ At(c, "commit")
    /\ \/ /\ idx' = work
          /\ IF work = head THEN UNCHANGED head /\ Goto(c, "save") ELSE head' = work /\ Goto(c, "push")
          /\ NoFault
       \/ idx' \in {idx, work} /\ Fails(c) /\ UNCHANGED head
    /\ UNCHANGED <<config, records, work, remote, once, rel, starts, restarts>>

\* A push that fails may have reached the remote.
Push(c) ==
    /\ At(c, "push")
    /\ \/ remote' = head /\ Goto(c, "save") /\ NoFault
       \/ remote' \in {remote, head} /\ Fails(c)
    /\ UNCHANGED <<config, records, work, idx, head, once, rel, starts, restarts>>

-----------------------------------------------------------------------------
(* CreateWithWriterAndProjectConfig. *)

Start == starts < MaxStarts /\ starts' = starts + 1

\* Rendering, and the UpdatedAt of the record that is saved at the end.
StartCreate(c, e) ==
    /\ ~Active(c) /\ Start
    /\ \E pc \in {"prepare", "fail"} :
          /\ call' = [call EXCEPT ![c] = [Idle EXCEPT !.pc = pc, !.op = "create", !.e = e,
                                              !.rec = Record("creating", FALSE),
                                              !.earlier = Creating(e)]]
          /\ IF pc = "fail" THEN Fault ELSE NoFault
    /\ UNCHANGED <<config, records, trees, once, rel, restarts>>

\* HelmDirectBackend.Apply.
Apply(c) ==
    /\ At(c, "apply")
    /\ \/ rel' = rel \cup {call[c].e} /\ Goto(c, "commit") /\ NoFault
       \/ rel' \in {rel, rel \cup {call[c].e}} /\ Fails(c)
    /\ UNCHANGED <<config, records, trees, once, starts, restarts>>

\* Mutant: a record is stored whatever its UpdatedAt.
SaveCreatedAlways(c) ==
    /\ At(c, "save") /\ call[c].op = "create"
    /\ Save(c, call[c].e, call[c].rec, FALSE, call[c].earlier, Idle)
    /\ UNCHANGED <<config, trees, once, rel, starts, restarts>>

\* The final Save, with the UpdatedAt of the beginning; its error is returned.
SaveCreated(c) ==
    /\ At(c, "save") /\ call[c].op = "create"
    /\ Save(c, call[c].e, call[c].rec, call[c].old, call[c].earlier, Idle)
    /\ UNCHANGED <<config, trees, once, rel, starts, restarts>>

\* Mutant: the error is returned and not recorded.
FailUnrecorded(c) ==
    /\ At(c, "fail")
    /\ call' = [call EXCEPT ![c] = Idle]
    /\ UNCHANGED <<config, records, trees, once, rel, budget>>

\* Every error path of Create and Delete.
Fail(c) ==
    /\ At(c, "fail")
    /\ SaveNow(c, call[c].e, Record(IF call[c].op = "create" THEN "failed" ELSE "deleteFailed", FALSE), Idle)
    /\ UNCHANGED <<config, trees, once, rel, starts, restarts>>

-----------------------------------------------------------------------------
(* DeleteWithWriterAndProjectConfig. *)

\* Mutant: nothing is done either for an environment whose delete has failed.
StartDeleteOnce(c, e) ==
    /\ ~Active(c)
    /\ mem[e] # NoRecord /\ mem[e].st \notin {"terminated", "deleteFailed"}
    /\ IF c = Retrier /\ e = Retried THEN UNCHANGED starts ELSE Start
    /\ call' = [call EXCEPT ![c] = [Idle EXCEPT !.pc = "request", !.op = "delete", !.e = e]]
    /\ UNCHANGED <<config, records, trees, once, rel, faults, restarts>>

\* Get, and the early return for a terminated environment.
StartDelete(c, e) ==
    /\ ~Active(c)
    /\ mem[e] # NoRecord /\ mem[e].st # "terminated"
    /\ IF c = Retrier /\ e = Retried THEN UNCHANGED starts ELSE Start
    /\ call' = [call EXCEPT ![c] = [Idle EXCEPT !.pc = "request", !.op = "delete", !.e = e]]
    /\ UNCHANGED <<config, records, trees, once, rel, faults, restarts>>

Request(c) ==
    /\ At(c, "request")
    /\ SaveNow(c, call[c].e, Record("deleteRequested", FALSE), [call[c] EXCEPT !.pc = "pending"])
    /\ UNCHANGED <<config, trees, once, rel, starts, restarts>>

Pending(c) ==
    /\ At(c, "pending")
    /\ SaveNow(c, call[c].e, Record("deletePending", FALSE),
               [call[c] EXCEPT !.pc = IF backend = "helm" THEN "undeploy" ELSE "prepare"])
    /\ UNCHANGED <<config, trees, once, rel, starts, restarts>>

\* HelmDirectBackend.Delete.
Undeploy(c) ==
    /\ At(c, "undeploy")
    /\ \/ rel' = rel \ {call[c].e} /\ Goto(c, "prepare") /\ NoFault
       \/ rel' \in {rel, rel \ {call[c].e}} /\ Fails(c)
    /\ UNCHANGED <<config, records, trees, once, starts, restarts>>

SaveDeleted(c) ==
    /\ At(c, "save") /\ call[c].op = "delete"
    /\ SaveNow(c, call[c].e, Record("terminated", TRUE), Idle)
    /\ UNCHANGED <<config, trees, once, rel, starts, restarts>>

-----------------------------------------------------------------------------
(* Status and UpdateStatus. *)

\* Get.
StartStatus(c, e) ==
    /\ ~Active(c) /\ Start
    /\ mem[e] # NoRecord
    /\ \E pc \in {"ask", "update"} :
          call' = [call EXCEPT ![c] = [Idle EXCEPT !.pc = pc, !.op = "status", !.e = e, !.rec = mem[e]]]
    /\ UNCHANGED <<config, records, trees, once, rel, faults, restarts>>

\* Mutant: a status of Helm's own is passed on.
AnswersRaw(c) == {call[c].rec.st, "superseded"}

\* What the backend answers: Helm from the release and, without one, from the
\* status that was read; Flux and manifests from the record that was read.
Answers(c) ==
    CASE backend = "flux" -> {call[c].rec.st, "ready", "creating", "failed"}
      [] backend = "helm" /\ call[c].e \in rel -> {"ready", "creating", "failed"}
      [] OTHER -> {IF call[c].rec.st \in DeleteFamily THEN "terminated" ELSE "notFound"}

\* The record that was read is saved with the new status.
Ask(c) ==
    /\ At(c, "ask")
    /\ \/ \E st \in Answers(c) : SaveNow(c, call[c].e, Record(st, call[c].rec.verified), Idle)
       \/ Fault /\ call' = [call EXCEPT ![c] = Idle] /\ UNCHANGED records
    /\ UNCHANGED <<config, trees, once, rel, starts, restarts>>

\* The record that was read is saved with the status a reporter has observed.
UpdateStatus(c) ==
    /\ At(c, "update")
    /\ \E st \in {"ready", "failed"} : SaveNow(c, call[c].e, Record(st, call[c].rec.verified), Idle)
    /\ UNCHANGED <<config, trees, once, rel, starts, restarts>>

-----------------------------------------------------------------------------
\* The process ends at any point; the disk, the remote and the cluster stay.
Restart ==
    /\ Fault
    /\ restarts' = restarts + 1
    /\ call' = [c \in Calls |-> Idle]
    /\ mem' = file
    /\ once' = "new"
    /\ UNCHANGED <<config, file, trees, rel, starts>>

\* Retried is there and published; the others are not yet.
Init ==
    /\ backend \in {"helm", "flux"} /\ perOp \in BOOLEAN /\ kind \in {"json", "sql"}
    /\ mem = [Lost EXCEPT ![Retried] = Record("ready", FALSE)] /\ file = mem
    /\ remote = {Retried} /\ work = remote /\ idx = remote /\ head = remote
    /\ once = "new"
    /\ rel = IF backend = "helm" THEN {Retried} ELSE {}
    /\ call = [c \in Calls |-> Idle]
    /\ starts = 0 /\ faults = 0 /\ restarts = 0

Step(c) ==
    \/ Prepare(c) \/ Edit(c) \/ Commit(c) \/ Push(c)
    \/ Apply(c) \/ SaveCreated(c) \/ Fail(c)
    \/ Request(c) \/ Pending(c) \/ Undeploy(c) \/ SaveDeleted(c)
    \/ Ask(c) \/ UpdateStatus(c)

Next ==
    \/ \E c \in Calls : Step(c)
    \/ \E c \in Calls, e \in Envs : StartCreate(c, e) \/ StartDelete(c, e) \/ StartStatus(c, e)
    \/ Restart

Spec == Init /\ [][Next]_vars

\* A call that has begun goes on, and the deletion of Retried is asked for again
\* and again until its record says terminated.
FairSpec ==
    /\ Spec
    /\ \A c \in Calls : WF_vars(Step(c))
    /\ SF_vars(StartDelete(Retrier, Retried))

-----------------------------------------------------------------------------
Records == [st : Statuses \cup {"none"}, verified : BOOLEAN]

\* Every variable has its type.
TypeOK ==
    /\ backend \in {"helm", "flux"} /\ perOp \in BOOLEAN /\ kind \in {"json", "sql"}
    /\ mem \in [Envs -> Records] /\ file \in [Envs -> Records]
    /\ work \subseteq Envs /\ idx \subseteq Envs /\ head \subseteq Envs /\ remote \subseteq Envs
    /\ once \in {"new", "ready", "broken"}
    /\ rel \subseteq Envs
    /\ \A c \in Calls : call[c].rec \in Records /\ call[c].earlier \subseteq Calls \ {c}
    /\ starts \in 0 .. MaxStarts /\ faults \in 0 .. MaxFaults /\ restarts \in 0 .. faults

\* When Commit succeeds the remote branch holds the manifests of the environment a
\* Create wrote, and not those a Delete removed, provided no other call has been in
\* the shared workspace since the writer was ensured and the workspace held no
\* commit that an earlier push had failed to deliver (commit.go succeeds without a
\* push when the tree is clean).
SuccessIsPublished ==
    [][\A c \in Calls : (call[c].alone /\ call[c].pc \in Inside /\ call'[c].pc = "save")
          => (call[c].e \in remote' <=> call[c].op = "create")]_vars

\* A Create that began before the record said terminated does not bring the
\* environment back: its Save at the end is older and refused (store.go,
\* sql_store.go reject older state).
LateCreateLoses ==
    [][\A e \in Envs : (restarts' = restarts /\ mem[e].st = "terminated" /\ mem'[e].st = "creating")
          => \E c \in Calls : call[c].e = e /\ call'[c] = Idle
                               /\ (call[c].pc = "ask" \/ (call[c].pc = "save" /\ ~call[c].old))]_vars

\* Without a restart nothing is in the GitOps branch that the store does not know
\* of and no call is working on: Create records its failures too. (With the SQL
\* store the Save that records them may fail as well.)
NoOrphanWithoutRestart ==
    (kind = "json" /\ restarts = 0)
        => \A e \in remote : mem[e] # NoRecord \/ \E c \in Calls : Active(c) /\ call[c].e = e

\* A record that says terminated tells the truth when nothing but attempts to delete
\* the environment has been started: wherever they failed, whatever of a failed
\* step took effect and however often the process ended, neither the manifests in
\* the branch nor the release is left.
TerminatedIsClean ==
    (perOp /\ starts = 0 /\ mem[Retried].st = "terminated") => Retried \notin remote \cup rel

\* With a writer of its own for every call, a deletion that is asked for again
\* after every failure ends in the terminated record, whatever failed in between
\* and whatever the other calls did, unless the store lost the record.
RetriedDeleteEnds ==
    perOp => <>[](mem[Retried].st = "terminated" \/ mem[Retried] = NoRecord)

\* Nobody else is at work, and nobody asks for the status.
Undisturbed ==
    \A c \in Calls : Active(c) => c = Retrier /\ call[c].op = "delete" /\ call[c].e = Retried

\* When nobody interferes, the manifests are gone from the GitOps branch by then,
\* wherever earlier attempts failed or the process ended: in the backend, in the
\* workspace, between commit and push, or before the record was saved
\* (TestDeleteRetriesFromDeleteFailedIdempotently tries one of these places).
RetriedDeleteCleans ==
    (perOp /\ []Undisturbed)
        => <>[](mem[Retried] = NoRecord \/ (mem[Retried].st = "terminated" /\ Retried \notin remote \cup rel))
=============================================================================
