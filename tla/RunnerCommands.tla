--------------------------- MODULE RunnerCommands ---------------------------
(***************************************************************************)
(* Command delivery and execution: the body of one poll of                 *)
(* internal/runner/runtime.go (claim, lease, dispatch, result) around the  *)
(* Helm backend of internal/orchestrator/orchestrator.go, for the commands *)
(* of one environment. Several runner processes poll (a rollout, a         *)
(* partitioned node); each runs one command at a time. The control plane,  *)
(* which hands out the commands of an environment one after the other,     *)
(* Helm and the cluster are external.                                      *)
(*                                                                         *)
(* A command carries at most one flaw, which some guard of the dispatch    *)
(* may refuse. RunnerRuntime models how the poll loop ends; PvcCopyPlan    *)
(* and MySqlRestore what "copy" and "restore" do.                          *)
(***************************************************************************)
EXTENDS Naturals, FiniteSets

CONSTANTS Procs,        \* runner processes
          MaxCommands,  \* commands of the environment
          MaxFlawed,    \* commands among them with a flaw
          MaxCrashes,   \* deaths of a process while it runs a command
          MaxLosses,    \* expired leases of a running command, lost results, retargets
          MaxForeign    \* namespaces that others create under the same name

ASSUME CommandsAssumption ==
    /\ MaxCommands \in Nat \ {0} /\ MaxFlawed \in Nat
    /\ MaxCrashes \in Nat /\ MaxLosses \in Nat /\ MaxForeign \in Nat

VARIABLES
    shared,               \* the project's namespace mode
    cmd, answer,          \* control plane: the last command and its accepted result
    proc,                 \* the processes
    rel, ns,              \* the Helm release and the namespace
    overrun,              \* a lease has expired under a process that still runs
    flawed, crashes, losses, foreigners

budget == <<flawed, crashes, losses, foreigners>>
cluster == <<rel, ns>>
vars == <<shared, cmd, answer, proc, cluster, overrun, budget>>

\* "create" stands for recreate too, "delete" for force_cleanup, "flux" for
\* cleanup_flux_namespace, "chart" for validate_helm_chart.
HelmOps == {"create", "delete", "status"}
Ops == HelmOps \cup {"flux", "render", "chart", "restore", "copy", "unknown"}
Flaws == {"none", "plan", "secret", "contract", "inventory", "name", "host", "target", "namespace"}

\* The commands that carry the input a flaw is in.
Carries(flaw) ==
    CASE flaw = "plan" -> HelmOps
      [] flaw = "contract" -> {"restore", "copy"}
      [] flaw = "inventory" -> {"delete"}
      [] flaw = "name" -> {"flux"}
      [] flaw = "host" -> {"create", "chart"}
      [] flaw = "target" -> HelmOps \cup {"render"}
      [] flaw = "namespace" -> Ops \ {"chart", "unknown"}
      [] OTHER -> Ops

\* The guards before the first effect of each operation. The signed release plan.
PlanRefused(flaw, op) == flaw = "plan" /\ op \in HelmOps

\* Keys of the project configuration that are not on the allow list, such as secrets.
ConfigRefused(flaw) == flaw = "secret"

\* The contract version and the identity of a restore, and of a copy.
RestoreRefused(flaw, op) == flaw = "contract" /\ op = "restore"
CopyRefused(flaw, op) == flaw = "contract" /\ op = "copy"

\* The inventory a delete carries, the dedicated name of a Flux namespace, and an
\* operation without a case.
InventoryRefused(flaw, op) == flaw = "inventory" /\ op = "delete"
NameRefused(flaw, op) == flaw = "name" /\ op = "flux"
OperationRefused(op) == op = "unknown"

\* The host a chart is fetched from.
HostRefused(flaw, op) == flaw = "host" /\ op \in {"create", "chart"}

\* Namespace and release name have to be derived from the project's patterns.
TargetRefused(flaw, op) == flaw = "target" /\ op \in HelmOps \cup {"render"}

\* Mutant: the Flux branch does not ask whether the namespace is granted.
NamespaceRefusedButFlux(flaw, op) ==
    flaw = "namespace" /\ op \in HelmOps \cup {"restore", "copy"}

\* The namespaces the runner is granted.
NamespaceRefused(flaw, op) ==
    flaw = "namespace" /\ op \in HelmOps \cup {"flux", "restore", "copy"}

Refuses(flaw, op) ==
    \/ PlanRefused(flaw, op) \/ ConfigRefused(flaw)
    \/ RestoreRefused(flaw, op) \/ CopyRefused(flaw, op)
    \/ InventoryRefused(flaw, op) \/ NameRefused(flaw, op) \/ OperationRefused(op)
    \/ HostRefused(flaw, op) \/ TargetRefused(flaw, op) \/ NamespaceRefused(flaw, op)

Result(ok, env, verified) == [ok |-> ok, env |-> env, verified |-> verified]
FailedResult == Result(FALSE, "", FALSE)

Idle == [pc |-> "idle", n |-> 0, op |-> "", flaw |-> "none", deleting |-> FALSE,
         att |-> 0, gen |-> 0, inc |-> 0, seen |-> 0, res |-> FailedResult]

Absent == [st |-> "none", ver |-> 0, prev |-> 0]
NoAnswer == [op |-> "", n |-> 0, inc |-> 0, res |-> FailedResult]

-----------------------------------------------------------------------------
(* Control plane (external). *)

Issue(op, flaw) ==
    /\ cmd.st = "done" /\ cmd.n < MaxCommands
    /\ op \in Carries(flaw)
    /\ flaw # "none" => flawed < MaxFlawed
    /\ flawed' = IF flaw # "none" THEN flawed + 1 ELSE flawed
    /\ cmd' = [n |-> cmd.n + 1, op |-> op, flaw |-> flaw, st |-> "queued", att |-> 0,
               gen |-> 0,
               deleting |-> op \in {"delete", "flux"} \/ (cmd.deleting /\ op # "create")]
    /\ answer' = NoAnswer
    /\ UNCHANGED <<shared, proc, cluster, overrun, crashes, losses, foreigners>>

Runs(p) == proc[p].pc # "idle" /\ proc[p].n = cmd.n /\ proc[p].att = cmd.att

\* The lease of a command that nobody runs any more runs out.
LeaseExpires ==
    /\ cmd.st = "claimed" /\ ~\E p \in Procs : Runs(p)
    /\ cmd' = [cmd EXCEPT !.st = "queued"]
    /\ UNCHANGED <<shared, answer, proc, cluster, overrun, budget>>

\* The renewals of a running command fail, which is only logged.
RenewalsLost ==
    /\ losses < MaxLosses /\ losses' = losses + 1
    /\ cmd.st = "claimed" /\ \E p \in Procs : Runs(p)
    /\ cmd' = [cmd EXCEPT !.st = "queued"]
    /\ overrun' = TRUE
    /\ UNCHANGED <<shared, answer, proc, cluster, flawed, crashes, foreigners>>

\* Reconciliation gives the remote cluster a new generation.
Retarget ==
    /\ losses < MaxLosses /\ losses' = losses + 1
    /\ cmd.st = "claimed"
    /\ cmd' = [cmd EXCEPT !.gen = @ + 1]
    /\ UNCHANGED <<shared, answer, proc, cluster, overrun, flawed, crashes, foreigners>>

\* The management plane provisions the labelled namespace.
Provision ==
    /\ ns.st = "absent" /\ cmd.st = "queued" /\ cmd.op \in {"create", "render"}
    /\ ns' = [st |-> "live", own |-> TRUE, inc |-> ns.inc + 1]
    /\ UNCHANGED <<shared, cmd, answer, proc, rel, overrun, budget>>

ForeignTakes ==
    /\ foreigners < MaxForeign /\ foreigners' = foreigners + 1
    /\ ns.st = "absent"
    /\ ns' = [st |-> "live", own |-> FALSE, inc |-> ns.inc + 1]
    /\ UNCHANGED <<shared, cmd, answer, proc, rel, overrun, flawed, crashes, losses>>

\* The finalizers have run; the release's records were in the namespace.
Finalized ==
    /\ ns.st = "terminating"
    /\ ns' = [ns EXCEPT !.st = "absent"]
    /\ rel' = Absent
    /\ UNCHANGED <<shared, cmd, answer, proc, overrun, budget>>

-----------------------------------------------------------------------------
(* One poll. *)

Goto(p, pc) == proc' = [proc EXCEPT ![p].pc = pc]
Finish(p, res) == proc' = [proc EXCEPT ![p].pc = "report", ![p].res = res]
Fail(p) == Finish(p, FailedResult)
At(p, pc) == proc[p].pc = pc
Local == UNCHANGED <<shared, cmd, answer, cluster, overrun, budget>>
OnCluster == UNCHANGED <<shared, cmd, answer, overrun, budget>>

\* Mutant: an operation without a case of its own.
FirstStepNoDefault(op) ==
    CASE op = "create" -> "install"
      [] op = "delete" -> "capture"
      [] op = "flux" -> "managed"
      [] op = "status" -> "helmStatus"
      [] OTHER -> op

FirstStep(op) ==
    CASE op = "create" -> "install"
      [] op = "delete" -> "capture"
      [] op = "flux" -> "managed"
      [] op = "status" -> "helmStatus"
      [] OTHER -> "work"

\* executeRunnerCommandWithNamespaceGuard up to the first effect: a refused
\* command is answered as failed. In shared mode the namespace is not the
\* dedicated one a Flux cleanup demands.
Dispatch(flaw, op) ==
    IF Refuses(flaw, op) \/ (op = "flux" /\ shared) THEN "report" ELSE FirstStep(op)

\* nextRunnerCommand, and the dispatch. The incarnation of the namespace is noted
\* for the properties.
Claim(p) ==
    /\ At(p, "idle") /\ cmd.st = "queued"
    /\ cmd' = [cmd EXCEPT !.st = "claimed", !.att = @ + 1]
    /\ proc' = [proc EXCEPT ![p] =
                   [pc |-> Dispatch(cmd.flaw, cmd.op), n |-> cmd.n, op |-> cmd.op,
                    flaw |-> cmd.flaw, deleting |-> cmd.deleting /\ cmd.op = "status",
                    att |-> cmd.att + 1, gen |-> cmd.gen, inc |-> ns.inc, seen |-> 0,
                    res |-> FailedResult]]
    /\ UNCHANGED <<shared, answer, cluster, overrun, budget>>

\* A call that fails, that times out or that the end of the process context
\* cancels: the command is answered as failed.
Calls == {"install", "uninstall", "managed", "exists", "nsDelete", "gone",
          "helmStatus", "ready", "rollback", "work"}

\* Mutant: helm upgrade waits for the release that is pending.
CallFailsButInstall(p) ==
    /\ proc[p].pc \in Calls \ {"install"}
    /\ Fail(p)
    /\ Local

CallFails(p) ==
    /\ proc[p].pc \in Calls
    /\ Fail(p)
    /\ Local

\* render_release_plan, validate_helm_chart, a MySQL restore, a PVC copy.
Work(p) ==
    /\ At(p, "work")
    /\ Finish(p, Result(TRUE, "", FALSE))
    /\ Local

\* HelmDirectBackend.Apply: after the Secret ownership preflight (one more call
\* that may fail) helm upgrade --install opens a revision, unless one is pending
\* or the namespace cannot take it: createNamespace is always false.
Install(p) ==
    /\ At(p, "install")
    /\ rel.st # "pending" /\ ns.st = "live"
    /\ rel' = [st |-> "pending", ver |-> proc[p].n,
               prev |-> IF rel.st = "deployed" THEN rel.ver ELSE rel.prev]
    /\ Goto(p, "installing")
    /\ OnCluster /\ UNCHANGED ns

\* It ends; a revision that someone else has replaced makes it fail.
Installed(p) ==
    /\ At(p, "installing")
    /\ \/ /\ rel.st = "pending" /\ rel.ver = proc[p].n /\ ns.st = "live"
          /\ rel' = [rel EXCEPT !.st = "deployed"]
          /\ Finish(p, Result(TRUE, "", FALSE))
       \/ /\ rel' = [rel EXCEPT !.st = IF rel.st = "pending" THEN "failed" ELSE @]
          /\ Fail(p)
    /\ OnCluster /\ UNCHANGED ns

\* attemptRunnerStorageCleanupCapture is advisory and changes nothing.
Capture(p) ==
    /\ At(p, "capture")
    /\ Goto(p, IF proc[p].op = "flux" THEN "nsDelete" ELSE "uninstall")
    /\ Local

\* Result of a delete whose backend returned nil.
Deleted == Result(TRUE, "terminated", TRUE)

\* Mutant: any error of helm uninstall is taken for a missing release.
UninstallSwallows(p) ==
    /\ At(p, "uninstall")
    /\ \/ rel' = Absent
       \/ UNCHANGED rel
    /\ IF shared THEN Finish(p, Deleted) ELSE Goto(p, "managed")
    /\ OnCluster /\ UNCHANGED ns

\* HelmDirectBackend.Delete: a missing release is no error; one that is cut off
\* leaves a release that is neither there nor gone. Only a dedicated namespace
\* goes too.
Uninstall(p) ==
    /\ At(p, "uninstall")
    /\ \/ /\ rel' = Absent
          /\ IF shared THEN Finish(p, Deleted) ELSE Goto(p, "managed")
       \/ /\ rel.st # "none"
          /\ rel' = [rel EXCEPT !.st = "failed"]
          /\ Fail(p)
    /\ OnCluster /\ UNCHANGED ns

\* Mutant: a namespace without the labels of the environment is taken for its own.
ManagedByName(p) ==
    /\ At(p, "managed")
    /\ IF ns.st # "absent"
       THEN proc' = [proc EXCEPT ![p].seen = ns.inc,
                                 ![p].pc = IF proc[p].op = "flux" THEN "capture" ELSE "nsDelete"]
       ELSE IF proc[p].op = "flux" THEN Goto(p, "exists") ELSE Finish(p, Deleted)
    /\ Local

\* IsNamespaceManaged reads the labels. A namespace that is not the environment's
\* ends a Helm delete; a Flux cleanup asks whether it is there at all.
Managed(p) ==
    /\ At(p, "managed")
    /\ IF ns.st # "absent" /\ ns.own
       THEN proc' = [proc EXCEPT ![p].seen = ns.inc,
                                 ![p].pc = IF proc[p].op = "flux" THEN "capture" ELSE "nsDelete"]
       ELSE IF proc[p].op = "flux" THEN Goto(p, "exists") ELSE Finish(p, Deleted)
    /\ Local

\* NamespaceExists after a namespace that was not the environment's.
Exists(p) ==
    /\ At(p, "exists")
    /\ IF ns.st = "absent" THEN Finish(p, Deleted) ELSE Fail(p)
    /\ Local

\* Mutant: the accepted delete request of a Flux cleanup certifies it.
DeleteNamespaceCertifies(p) ==
    /\ At(p, "nsDelete")
    /\ ns' = IF ns.st = "live" THEN [ns EXCEPT !.st = "terminating"] ELSE ns
    /\ Finish(p, Deleted)
    /\ OnCluster /\ UNCHANGED rel

\* DeleteNamespace goes by name and does not wait (--ignore-not-found,
\* --wait=false). The answer may be lost.
DeleteNamespace(p) ==
    /\ At(p, "nsDelete")
    /\ ns' = IF ns.st = "live" THEN [ns EXCEPT !.st = "terminating"] ELSE ns
    /\ \/ IF proc[p].op = "flux" THEN Goto(p, "gone") ELSE Finish(p, Deleted)
       \/ Fail(p)
    /\ OnCluster /\ UNCHANGED rel

\* NamespaceExists after the delete request of a Flux cleanup.
Gone(p) ==
    /\ At(p, "gone")
    /\ Finish(p, IF ns.st = "absent" THEN Deleted ELSE Result(TRUE, "terminating", FALSE))
    /\ Local

\* HelmDirectBackend.Status up to its second call. The status of the environment
\* that the command carries decides what a missing release means.
HelmStatus(p) ==
    /\ At(p, "helmStatus")
    /\ CASE rel.st = "none" ->
              Finish(p, Result(TRUE, IF proc[p].deleting THEN "terminated" ELSE "not_found", FALSE))
         [] rel.st = "deployed" -> Goto(p, "ready")
         [] rel.st = "pending" -> Goto(p, "rollback")
         [] OTHER -> Finish(p, Result(TRUE, "failed", FALSE))
    /\ Local

\* Readiness of the Pods of a deployed release (always true without wait).
Ready(p) ==
    /\ At(p, "ready")
    /\ \E env \in {"ready", "creating"} : Finish(p, Result(TRUE, env, FALSE))
    /\ Local

\* helm rollback of a pending release to the revision before it, if there is one.
Rollback(p) ==
    /\ At(p, "rollback")
    /\ rel.st = "pending" /\ rel.prev # 0
    /\ rel' = [rel EXCEPT !.st = "deployed", !.ver = rel.prev]
    /\ Finish(p, Result(TRUE, "creating", FALSE))
    /\ OnCluster /\ UNCHANGED ns

\* Mutant: the result names the attempt and the generation that are current.
EchoCurrent(p) == <<cmd.n, cmd.att, cmd.gen>>

\* Mutant: the result names the attempt before the one it was claimed with.
EchoPrevious(p) == <<proc[p].n, proc[p].att - 1, proc[p].gen>>

\* The binding that the result echoes is the one the command was claimed with.
Echo(p) == <<proc[p].n, proc[p].att, proc[p].gen>>

\* reportRunnerCommandResult, once: the control plane takes the result of the
\* current attempt on the current target and rejects any other, which the runner
\* logs. A result that does not arrive is logged too.
Report(p) ==
    /\ At(p, "report")
    /\ \/ /\ cmd.st = "claimed" /\ Echo(p) = <<cmd.n, cmd.att, cmd.gen>>
          /\ cmd' = [cmd EXCEPT !.st = "done"]
          /\ answer' = [op |-> proc[p].op, n |-> proc[p].n, inc |-> proc[p].inc, res |-> proc[p].res]
          /\ UNCHANGED losses
       \/ /\ ~(cmd.st = "claimed" /\ Echo(p) = <<cmd.n, cmd.att, cmd.gen>>)
          /\ UNCHANGED <<cmd, answer, losses>>
       \/ /\ losses < MaxLosses /\ losses' = losses + 1
          /\ UNCHANGED <<cmd, answer>>
    /\ proc' = [proc EXCEPT ![p] = Idle]
    /\ UNCHANGED <<shared, cluster, overrun, flawed, crashes, foreigners>>

\* The process is killed, or ends after SIGTERM without waiting for the poll
\* loop; a Helm command that it runs is killed with it.
Crash(p) ==
    /\ crashes < MaxCrashes /\ crashes' = crashes + 1
    /\ ~At(p, "idle")
    /\ proc' = [proc EXCEPT ![p] = Idle]
    /\ UNCHANGED <<shared, cmd, answer, cluster, overrun, flawed, losses, foreigners>>

-----------------------------------------------------------------------------
\* An environment that its first command has created, or one that is not deployed
\* yet. A shared namespace is there before it and carries no label of it.
Init ==
    /\ shared \in BOOLEAN
    /\ cmd = [n |-> 1, op |-> "render", flaw |-> "none", st |-> "done", att |-> 1, gen |-> 0,
              deleting |-> FALSE]
    /\ answer = NoAnswer
    /\ proc = [p \in Procs |-> Idle]
    /\ \/ /\ rel = Absent
          /\ ns = IF shared THEN [st |-> "live", own |-> FALSE, inc |-> 1]
                            ELSE [st |-> "absent", own |-> FALSE, inc |-> 0]
       \/ /\ rel = [st |-> "deployed", ver |-> 1, prev |-> 0]
          /\ ns = [st |-> "live", own |-> ~shared, inc |-> 1]
    /\ overrun = FALSE
    /\ flawed = 0 /\ crashes = 0 /\ losses = 0 /\ foreigners = 0

Execute(p) ==
    \/ Work(p)
    \/ Install(p) \/ Installed(p)
    \/ Capture(p) \/ Uninstall(p) \/ Managed(p) \/ Exists(p) \/ DeleteNamespace(p) \/ Gone(p)
    \/ HelmStatus(p) \/ Ready(p) \/ Rollback(p)
    \/ CallFails(p)

Next ==
    \/ \E op \in Ops, flaw \in Flaws : Issue(op, flaw)
    \/ LeaseExpires \/ RenewalsLost \/ Retarget \/ Provision \/ ForeignTakes \/ Finalized
    \/ \E p \in Procs : Claim(p) \/ Execute(p) \/ Report(p) \/ Crash(p)

Spec == Init /\ [][Next]_vars

\* The loop goes on, every call ends (each has a timeout), and a lease that
\* nobody renews expires.
Fairness ==
    /\ WF_vars(LeaseExpires)
    /\ \A p \in Procs : WF_vars(Claim(p)) /\ WF_vars(Execute(p)) /\ WF_vars(Report(p))

FairSpec == Spec /\ Fairness

-----------------------------------------------------------------------------
(* Properties. *)

\* Types, with the lines of the dispatch a process can be at.
TypeOK ==
    /\ shared \in BOOLEAN /\ overrun \in BOOLEAN
    /\ cmd \in [n: 1..MaxCommands, op: Ops, flaw: Flaws,
                st: {"queued", "claimed", "done"}, att: Nat, gen: 0..MaxLosses,
                deleting: BOOLEAN]
    /\ \A p \in Procs : proc[p].pc \in Calls \cup {"idle", "installing", "capture", "report"}
    /\ rel.st \in {"none", "pending", "deployed", "failed"} /\ rel.ver \in 0..MaxCommands
    /\ ns.st \in {"absent", "live", "terminating"} /\ ns.own \in BOOLEAN
    /\ (ns.st = "absent" => rel.st = "none")
    /\ flawed \in 0..MaxFlawed /\ crashes \in 0..MaxCrashes /\ losses \in 0..MaxLosses /\ foreigners \in 0..MaxForeign

\* As long as no lease has expired under a running process, the last accepted
\* success describes the cluster until the next command: a create has deployed
\* its own revision, a delete or a "terminated" leaves no release, a "ready"
\* environment has one unless its namespace was on its way out. Crashes, lost
\* results and the attempts that repeat a command that already took effect do not
\* change that.
AnswerHolds ==
    (cmd.st = "done" /\ answer.res.ok /\ ~overrun) =>
        /\ answer.op = "create" => rel.st = "deployed" /\ rel.ver = answer.n
        /\ (answer.op = "delete" \/ answer.res.env = "terminated") => rel.st = "none"
        /\ (answer.res.env = "ready" /\ ns.st = "live" /\ ns.inc = answer.inc) => rel.st = "deployed"

\* What CleanupVerified certifies, overlapping attempts included. After a Flux
\* cleanup the namespace that was there when the command was claimed is gone
\* ("Only a successful absence observation certifies cleanup"); after a Helm
\* delete a dedicated namespace of the environment is at least on its way out.
CleanupCertified ==
    answer.res.verified =>
        /\ answer.op = "flux" => ns.st = "absent" \/ ns.inc > answer.inc
        /\ (answer.op = "delete" /\ ~shared) =>
               ~(ns.st = "live" /\ ns.own /\ ns.inc = answer.inc)

\* A namespace begins to terminate only under a process that has read the
\* environment's labels on it; the one exception is a namespace that took the
\* name between that reading and the delete request, which goes by name.
OnlyOwnNamespace ==
    [][(ns.st = "live" /\ ns'.st = "terminating") =>
           \E p \in Procs : /\ At(p, "nsDelete") /\ proc[p].seen # 0
                            /\ ns.own \/ ns.inc > proc[p].seen]_vars

\* A command with a flaw in anything it carries is inert, whichever operation it
\* is: none of its attempts changes the release or the namespace, and none is
\* answered as a success. The exception is a plan that is only rendered, which
\* "does not access Helm release storage" and needs no grant of the namespace.
RefusedIsInert ==
    [][\A p \in Procs :
          (/\ proc[p].flaw # "none" /\ proc'[p] # proc[p]
           /\ ~(proc[p].flaw = "namespace" /\ proc[p].op = "render"))
              => UNCHANGED cluster /\ ~proc'[p].res.ok]_vars

\* The control plane never applies "an old result to a new target": what it
\* accepts was executed under the current attempt and the current generation.
OldResultRejected ==
    [][(cmd.st = "claimed" /\ cmd'.st = "done") =>
          \E p \in Procs : /\ At(p, "report") /\ proc[p].n = cmd.n
                           /\ proc[p].att = cmd.att /\ proc[p].gen = cmd.gen]_vars

\* A command that was executed is executed again only for a reason: every attempt
\* but the first is paid for by the death of a process, by renewals, by a result
\* that did not arrive or by a new generation of the target. Refusals, failed
\* calls, processes that overlap and late results cost none.
RetriesAccounted == cmd.att <= 1 + crashes + losses

\* Every command is answered in the end, although a result is posted only once
\* and renewals are not repeated: the lease brings the command back.
EveryCommandAnswered ==
    (cmd.st # "done") ~> (cmd.st = "done")

=============================================================================
