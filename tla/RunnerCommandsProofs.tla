----------------------- MODULE RunnerCommandsProofs ------------------------
(***************************************************************************)
(* Proofs about RunnerCommands for any number of runner processes,         *)
(* commands, crashes, lost leases and results, and foreign namespaces:     *)
(* what an accepted answer says of the cluster, what CleanupVerified       *)
(* certifies, which namespaces go, that a refused command is inert, and    *)
(* what every repeated attempt is paid for with.                           *)
(***************************************************************************)
EXTENDS RunnerCommands, TLAPS

(* The inductive invariant. *)

Lines == Calls \cup {"idle", "installing", "capture", "report"}
Answers == {"", "terminated", "terminating", "not_found", "failed", "ready", "creating"}
Results == [ok: BOOLEAN, env: Answers, verified: BOOLEAN]

Types ==
    /\ TypeOK
    /\ cmd.gen <= losses /\ cmd.op \in Carries(cmd.flaw)
    /\ proc \in [Procs -> [pc: Lines, n: 0..MaxCommands, op: Ops \cup {""}, flaw: Flaws, deleting: BOOLEAN,
                           att: Nat, gen: 0..MaxLosses, inc: Nat, seen: Nat, res: Results]]
    /\ answer \in [op: Ops \cup {""}, n: 0..MaxCommands, inc: Nat, res: Results]
    /\ rel \in [st: {"none", "pending", "deployed", "failed"}, ver: 0..MaxCommands, prev: 0..MaxCommands]
    /\ ns \in [st: {"absent", "live", "terminating"}, own: BOOLEAN, inc: Nat]
    /\ ns.st # "absent" => ns.inc # 0

\* Which commands are at which line.
Serves(pc, op) ==
    /\ pc \in {"install", "installing"} => op = "create"
    /\ pc = "uninstall" => op = "delete"
    /\ pc \in {"capture", "managed", "nsDelete"} => op \in {"delete", "flux"}
    /\ pc \in {"exists", "gone"} => op = "flux"
    /\ pc \in {"helmStatus", "ready", "rollback"} => op = "status"
    /\ pc = "work" => op \in {"render", "chart", "restore", "copy"}

\* A command with a flaw that it is refused for.
Refused(q) == q.flaw # "none" /\ ~(q.flaw = "namespace" /\ q.op = "render")

RouteOf(q) ==
    /\ q.pc = "idle" => q = Idle
    /\ Serves(q.pc, q.op)
    /\ q.pc # "report" => q.res = FailedResult
    /\ Refused(q) => q.pc = "report" /\ q.res = FailedResult
    /\ q.inc <= ns.inc
    /\ (q.pc = "nsDelete" \/ (q.pc = "capture" /\ q.op = "flux")) =>
          q.seen # 0 /\ (ns.inc > q.seen \/ (ns.inc = q.seen /\ ns.own))

Route == \A p \in Procs : RouteOf(proc[p])

\* What a verified cleanup says of the namespace, for good.
Certifies(op, inc) ==
    /\ op = "flux" => ns.st = "absent" \/ ns.inc > inc
    /\ (op = "delete" /\ ~shared) => ~(ns.st = "live" /\ ns.own /\ ns.inc = inc)

Cleanup ==
    /\ \A p \in Procs : proc[p].res.verified => Certifies(proc[p].op, proc[p].inc)
    /\ answer.res.verified => Certifies(answer.op, answer.inc)
    /\ answer.inc <= ns.inc

\* Unless a lease has expired under it, a process runs the claimed command alone.
Exclusive ==
    ~overrun =>
        \A p \in Procs : proc[p].pc # "idle" =>
            /\ cmd.st = "claimed" /\ Runs(p)
            /\ \A r \in Procs : proc[r].pc # "idle" => r = p

\* What a success says of the cluster.
Describes(op, n, inc, res) ==
    /\ op = "create" => rel.st = "deployed" /\ rel.ver = n /\ ns.st = "live"
    /\ (op = "delete" \/ res.env = "terminated") => rel.st = "none"
    /\ (res.env = "ready" /\ ns.st = "live" /\ ns.inc = inc) => rel.st = "deployed"

TruthOf(q) ==
    /\ q.pc = "report" /\ q.res.ok => Describes(q.op, q.n, q.inc, q.res)
    /\ q.pc \in {"managed", "nsDelete"} /\ q.op = "delete" => rel.st = "none"
    /\ q.pc = "ready" /\ ns.st = "live" /\ ns.inc = q.inc => rel.st = "deployed"

Truth ==
    ~overrun =>
        /\ \A p \in Procs : TruthOf(proc[p])
        /\ cmd.st = "done" /\ answer.res.ok => Describes(answer.op, answer.n, answer.inc, answer.res)

IInv == Types /\ Route /\ Cleanup /\ Exclusive /\ Truth

-----------------------------------------------------------------------------
(* Types, and who changes what. *)

Poll(p) == Claim(p) \/ Execute(p) \/ Report(p) \/ Crash(p)

External ==
    \/ \E op \in Ops, flaw \in Flaws : Issue(op, flaw)
    \/ LeaseExpires \/ RenewalsLost \/ Retarget \/ Provision \/ ForeignTakes \/ Finalized

\* The type of a process.
ProcType == [pc: Lines, n: 0..MaxCommands, op: Ops \cup {""}, flaw: Flaws, deleting: BOOLEAN,
             att: Nat, gen: 0..MaxLosses, inc: Nat, seen: Nat, res: Results]

\* The results that the lines of the dispatch produce.
LEMMA ResultTypes ==
    /\ FailedResult \in Results /\ Deleted \in Results /\ Result(TRUE, "", FALSE) \in Results
    /\ \A env \in Answers : Result(TRUE, env, FALSE) \in Results
    /\ Idle \in ProcType
    /\ NoAnswer.res = FailedResult /\ NoAnswer.inc = 0 /\ NoAnswer.n = 0 /\ NoAnswer.op = ""
  BY CommandsAssumption DEF Results, FailedResult, Deleted, Result, Answers, Idle, ProcType, Lines, Flaws, NoAnswer

\* The dispatch goes to a line that serves the operation.
LEMMA DispatchServes ==
    ASSUME NEW op \in Ops, NEW flaw \in Flaws, op \in Carries(flaw)
    PROVE  /\ Dispatch(flaw, op) \in Lines \ {"idle", "nsDelete", "ready"}
           /\ Serves(Dispatch(flaw, op), op)
           /\ Dispatch(flaw, op) = "capture" => op = "delete"
           /\ Dispatch(flaw, op) = "managed" => op = "flux"
           /\ (flaw # "none" /\ ~(flaw = "namespace" /\ op = "render")) => Dispatch(flaw, op) = "report"
<1>1. /\ FirstStep(op) \in Lines \ {"idle", "nsDelete", "ready"}
      /\ FirstStep(op) = "capture" => op = "delete"
      /\ FirstStep(op) = "managed" => op = "flux"
  BY DEF FirstStep, Ops, HelmOps, Lines, Calls
<1>2. op # "unknown" => Serves(FirstStep(op), op)
  BY DEF FirstStep, Ops, HelmOps, Serves
<1>3. op = "unknown" => Refuses(flaw, op)
  BY DEF Refuses, OperationRefused
<1>4. (flaw # "none" /\ ~(flaw = "namespace" /\ op = "render")) => Refuses(flaw, op)
  BY DEF Refuses, Carries, Ops, HelmOps, Flaws, PlanRefused, ConfigRefused, RestoreRefused, CopyRefused,
         InventoryRefused, NameRefused, OperationRefused, HostRefused, TargetRefused, NamespaceRefused
<1>5. Serves("report", op) /\ "report" \in Lines
  BY DEF Serves, Lines
<1> QED
  BY <1>1, <1>2, <1>3, <1>4, <1>5 DEF Dispatch

\* A poll of one process leaves the others where they are.
LEMMA OthersStay ==
    ASSUME Types, NEW p \in Procs, Poll(p), NEW r \in Procs \ {p}
    PROVE  proc'[r] = proc[r]
<1>1. proc \in [Procs -> ProcType]
  BY DEF Types, ProcType
<1> QED
  BY <1>1 DEF Poll, Claim, Report, Crash, Execute, Work, Install, Installed, Capture, Uninstall, Managed, Exists,
     DeleteNamespace, Gone, HelmStatus, Ready, Rollback, CallFails, Goto, Finish, Fail

\* The control plane and the cluster leave the processes where they are.
LEMMA ExternalStays ==
    ASSUME External
    PROVE  UNCHANGED <<proc, shared>>
  BY DEF External, Issue, LeaseExpires, RenewalsLost, Retarget, Provision, ForeignTakes, Finalized

\* A namespace goes from live to terminating to absent, and comes back as a new one.
NamespaceMoves ==
    \/ ns' = ns
    \/ ns.st = "absent" /\ ns'.st = "live" /\ ns'.inc = ns.inc + 1 /\ ns'.own \in BOOLEAN
    \/ ns.st = "live" /\ ns'.st = "terminating" /\ ns'.inc = ns.inc /\ ns'.own = ns.own
    \/ ns.st = "terminating" /\ ns'.st = "absent" /\ ns'.inc = ns.inc /\ ns'.own = ns.own

\* Only a delete request makes a namespace terminate, and only the cluster makes
\* it appear and disappear.
LEMMA NamespaceSteps ==
    ASSUME Types, Next
    PROVE  /\ NamespaceMoves
           /\ ns' \in [st: {"absent", "live", "terminating"}, own: BOOLEAN, inc: Nat]
           /\ ns'.st # "absent" => ns'.inc # 0
<1> USE DEF cluster, Local, OnCluster, budget
<1>1. ns \in [st: {"absent", "live", "terminating"}, own: BOOLEAN, inc: Nat] /\ (ns.st # "absent" => ns.inc # 0)
  BY DEF Types
<1>2. CASE Provision \/ ForeignTakes \/ Finalized
  <2>1. CASE Provision
    BY <1>1, <2>1 DEF Provision, NamespaceMoves
  <2>2. CASE ForeignTakes
    BY <1>1, <2>2 DEF ForeignTakes, NamespaceMoves
  <2>3. CASE Finalized
    BY <1>1, <2>3 DEF Finalized, NamespaceMoves
  <2> QED
    BY <1>2, <2>1, <2>2, <2>3
<1>3. ASSUME NEW p \in Procs, DeleteNamespace(p) PROVE NamespaceMoves /\ (ns' = ns \/ ns' = [ns EXCEPT !.st = "terminating"])
  BY <1>1, <1>3 DEF DeleteNamespace, NamespaceMoves
<1>4. ASSUME NEW p \in Procs, Poll(p), ~DeleteNamespace(p) PROVE ns' = ns
  BY <1>4 DEF Poll, Claim, Report, Crash, Execute, Work, Install, Installed, Capture, Uninstall, Managed, Exists,
     Gone, HelmStatus, Ready, Rollback, CallFails
<1>5. CASE LeaseExpires \/ RenewalsLost \/ Retarget \/ \E op \in Ops, flaw \in Flaws : Issue(op, flaw)
  BY <1>1, <1>5 DEF LeaseExpires, RenewalsLost, Retarget, Issue, NamespaceMoves
<1>6. ns' = ns => NamespaceMoves
  BY DEF NamespaceMoves
<1> QED
  BY <1>1, <1>2, <1>3, <1>4, <1>5, <1>6 DEF Next, Poll, NamespaceMoves

\* A poll keeps the process's type: it goes on at a line, or ends with a result.
LEMMA PollTypes ==
    ASSUME Types, NEW p \in Procs, Poll(p)
    PROVE  proc' \in [Procs -> ProcType]
<1>0. cmd.op \in Ops /\ cmd.flaw \in Flaws /\ cmd.n \in 1..MaxCommands /\ cmd.att \in Nat /\ cmd.gen \in 0..MaxLosses
      /\ cmd.op \in Carries(cmd.flaw) /\ ns.inc \in Nat
  BY DEF Types, TypeOK
<1>1. proc \in [Procs -> ProcType]
  BY DEF Types, ProcType
<1>2. ASSUME NEW l \in Lines, Goto(p, l) PROVE proc' \in [Procs -> ProcType]
  <2>1. [proc[p] EXCEPT !.pc = l] \in ProcType
    BY <1>1 DEF ProcType
  <2>2. proc' = [proc EXCEPT ![p] = [proc[p] EXCEPT !.pc = l]]
    BY <1>1, <1>2 DEF Goto
  <2> QED
    BY <1>1, <2>1, <2>2
<1>3. ASSUME NEW res \in Results, Finish(p, res) PROVE proc' \in [Procs -> ProcType]
  <2>1. "report" \in Lines
    BY DEF Lines
  <2>2. [proc[p] EXCEPT !.pc = "report", !.res = res] \in ProcType
    BY <1>1, <2>1 DEF ProcType
  <2>3. proc' = [proc EXCEPT ![p] = [proc[p] EXCEPT !.pc = "report", !.res = res]]
    BY <1>1, <1>3 DEF Finish
  <2> QED
    BY <1>1, <2>2, <2>3
<1>4. CASE Claim(p)
  <2>1. Dispatch(cmd.flaw, cmd.op) \in Lines /\ FailedResult \in Results
    BY <1>0, DispatchServes, ResultTypes
  <2>2. (cmd.deleting /\ cmd.op = "status") \in BOOLEAN
    OBVIOUS
  <2> DEFINE new == [pc |-> Dispatch(cmd.flaw, cmd.op), n |-> cmd.n, op |-> cmd.op,
                    flaw |-> cmd.flaw, deleting |-> cmd.deleting /\ cmd.op = "status",
                    att |-> cmd.att + 1, gen |-> cmd.gen, inc |-> ns.inc, seen |-> 0,
                    res |-> FailedResult]
  <2>3. new \in ProcType
    <3> HIDE DEF ProcType
    <3>1. cmd.n \in 0..MaxCommands /\ cmd.att + 1 \in Nat /\ 0 \in Nat
      <4>1. cmd.n \in 1..MaxCommands /\ cmd.att \in Nat
        BY <1>0
      <4> QED
        BY <4>1, CommandsAssumption
    <3> QED
      BY <1>0, <2>1, <2>2, <3>1 DEF ProcType
  <2>4. proc' = [proc EXCEPT ![p] = new]
    BY <1>4 DEF Claim
  <2> QED
    BY <1>1, <2>3, <2>4
<1>5. CASE Report(p) \/ Crash(p)
  BY <1>1, <1>5, ResultTypes DEF Report, Crash
<1>6. CASE Work(p) \/ CallFails(p) \/ Exists(p)
  BY <1>3, <1>6, ResultTypes DEF Work, CallFails, Exists, Fail
<1>7. CASE Install(p) \/ Capture(p)
  BY <1>2, <1>7 DEF Install, Capture, Lines, Calls
<1>8. CASE Installed(p) \/ Uninstall(p)
  BY <1>2, <1>3, <1>8, ResultTypes DEF Installed, Uninstall, Fail, Lines, Calls
<1>9. CASE Managed(p)
  <2>1. CASE ns.st # "absent" /\ ns.own
    <3>1. PICK l \in Lines : proc' = [proc EXCEPT ![p].seen = ns.inc, ![p].pc = l]
      <4>1. proc' = [proc EXCEPT ![p].seen = ns.inc, ![p].pc = IF proc[p].op = "flux" THEN "capture" ELSE "nsDelete"]
        BY <1>9, <2>1 DEF Managed
      <4>2. (IF proc[p].op = "flux" THEN "capture" ELSE "nsDelete") \in Lines
        BY DEF Lines, Calls
      <4> QED
        BY <4>1, <4>2
    <3>2. [proc[p] EXCEPT !.seen = ns.inc, !.pc = l] \in ProcType
      BY <1>0, <1>1 DEF ProcType
    <3>3. proc' = [proc EXCEPT ![p] = [proc[p] EXCEPT !.seen = ns.inc, !.pc = l]]
      BY <1>1, <3>1
    <3> QED
      BY <1>1, <3>2, <3>3
  <2>2. CASE ~(ns.st # "absent" /\ ns.own)
    BY <1>2, <1>3, <1>9, <2>2, ResultTypes DEF Managed, Lines, Calls
  <2> QED
    BY <2>1, <2>2
<1>10. CASE DeleteNamespace(p)
  BY <1>2, <1>3, <1>10, ResultTypes DEF DeleteNamespace, Fail, Lines, Calls
<1>11. CASE Gone(p)
  BY <1>3, <1>11, ResultTypes DEF Gone, Answers
<1>12. CASE HelmStatus(p)
  BY <1>2, <1>3, <1>12, ResultTypes DEF HelmStatus, Lines, Calls, Answers
<1>13. CASE Ready(p) \/ Rollback(p)
  BY <1>3, <1>13, ResultTypes DEF Ready, Rollback, Answers
<1> QED
  BY <1>4, <1>5, <1>6, <1>7, <1>8, <1>9, <1>10, <1>11, <1>12, <1>13 DEF Poll, Execute

\* The release keeps its type and is never there without a namespace.
LEMMA ReleaseTypes ==
    ASSUME Types, Next
    PROVE  /\ rel' \in [st: {"none", "pending", "deployed", "failed"}, ver: 0..MaxCommands, prev: 0..MaxCommands]
           /\ ns'.st = "absent" => rel'.st = "none"
<1> USE DEF cluster, Local, OnCluster, budget
<1>1. /\ rel \in [st: {"none", "pending", "deployed", "failed"}, ver: 0..MaxCommands, prev: 0..MaxCommands]
      /\ ns.st = "absent" => rel.st = "none"
      /\ proc \in [Procs -> ProcType]
  BY DEF Types, TypeOK, ProcType
<1>2. NamespaceMoves
  BY NamespaceSteps
<1>3. Absent \in [st: {"none", "pending", "deployed", "failed"}, ver: 0..MaxCommands, prev: 0..MaxCommands] /\ Absent.st = "none"
  BY CommandsAssumption DEF Absent
<1>4. CASE Finalized
  BY <1>3, <1>4 DEF Finalized
<1>5. ASSUME NEW p \in Procs, Install(p) \/ Installed(p) \/ Uninstall(p) \/ Rollback(p)
      PROVE  /\ rel' \in [st: {"none", "pending", "deployed", "failed"}, ver: 0..MaxCommands, prev: 0..MaxCommands]
             /\ ns'.st = "absent" => rel'.st = "none"
  <2>1. proc[p].n \in 0..MaxCommands
    BY <1>1 DEF ProcType
  <2>2. CASE Install(p)
    BY <1>1, <2>1, <2>2 DEF Install
  <2>3. CASE Installed(p)
    BY <1>1, <2>3 DEF Installed
  <2>4. CASE Uninstall(p)
    BY <1>1, <1>3, <2>4 DEF Uninstall
  <2>5. CASE Rollback(p)
    BY <1>1, <2>5 DEF Rollback
  <2> QED
    BY <1>5, <2>2, <2>3, <2>4, <2>5
<1>6. ASSUME NEW p \in Procs, Poll(p), ~(Install(p) \/ Installed(p) \/ Uninstall(p) \/ Rollback(p))
      PROVE  rel' = rel
  BY <1>6 DEF Poll, Claim, Report, Crash, Execute, Work, Capture, Managed, Exists, DeleteNamespace, Gone, HelmStatus,
     Ready, CallFails
<1>7. ASSUME External, ~Finalized PROVE rel' = rel
  BY <1>7 DEF External, Issue, LeaseExpires, RenewalsLost, Retarget, Provision, ForeignTakes
<1>8. rel' = rel /\ ~Finalized => (ns'.st = "absent" => rel'.st = "none")
  <2>1. ~Finalized => (ns'.st = "absent" => ns.st = "absent")
    <3>1. ASSUME NEW p \in Procs, Poll(p), ns'.st = "absent" PROVE ns.st = "absent"
      BY <3>1, <1>1 DEF Types, Poll, Claim, Report, Crash, Execute, Work, Install, Installed, Capture, Uninstall, Managed, Exists,
         DeleteNamespace, Gone, HelmStatus, Ready, Rollback, CallFails
    <3>2. ASSUME External, ~Finalized, ns'.st = "absent" PROVE ns.st = "absent"
      BY <3>2 DEF External, Issue, LeaseExpires, RenewalsLost, Retarget, Provision, ForeignTakes
    <3> QED
      BY <3>1, <3>2 DEF Next, Poll, External
  <2> QED
    BY <1>1, <2>1
<1> QED
  BY <1>1, <1>4, <1>5, <1>6, <1>7, <1>8 DEF Next, Poll, External

\* Every step keeps every variable in its type.
LEMMA TypesStep ==
    ASSUME Types, Next
    PROVE  Types'
<1> USE DEF cluster, Local, OnCluster, budget
<1>1. TypeOK /\ cmd.gen <= losses /\ proc \in [Procs -> ProcType]
      /\ answer \in [op: Ops \cup {""}, n: 0..MaxCommands, inc: Nat, res: Results]
  BY DEF Types, ProcType
<1>2. proc' \in [Procs -> ProcType] /\ \A p \in Procs : proc'[p].pc \in Lines
  <2>1. proc' \in [Procs -> ProcType]
    BY <1>1, PollTypes, ExternalStays DEF Next, Poll, External
  <2> QED
    BY <2>1 DEF ProcType
<1>3. shared' \in BOOLEAN /\ overrun' \in BOOLEAN
  <2>1. ASSUME NEW p \in Procs, Poll(p) PROVE UNCHANGED <<shared, overrun>>
    BY <2>1 DEF Poll, Claim, Report, Crash, Execute, Work, Install, Installed, Capture, Uninstall, Managed, Exists,
       DeleteNamespace, Gone, HelmStatus, Ready, Rollback, CallFails
  <2>2. ASSUME External PROVE shared' = shared /\ (overrun' = overrun \/ overrun' = TRUE)
    BY <2>2 DEF External, Issue, LeaseExpires, RenewalsLost, Retarget, Provision, ForeignTakes, Finalized
  <2>3. shared \in BOOLEAN /\ overrun \in BOOLEAN
    BY <1>1 DEF TypeOK
  <2> QED
    BY <2>1, <2>2, <2>3 DEF Next, Poll, External
<1> DEFINE CmdType == [n: 1..MaxCommands, op: Ops, flaw: Flaws, st: {"queued", "claimed", "done"}, att: Nat,
                       gen: 0..MaxLosses, deleting: BOOLEAN]
<1> DEFINE Counts == /\ flawed \in 0..MaxFlawed /\ crashes \in 0..MaxCrashes
                     /\ losses \in 0..MaxLosses /\ foreigners \in 0..MaxForeign
<1>4. cmd \in CmdType /\ Counts /\ cmd.op \in Carries(cmd.flaw)
  BY DEF Types, TypeOK
<1>8. losses \in Nat /\ cmd.gen \in Nat /\ cmd.gen <= losses /\ MaxLosses \in Nat /\ MaxForeign \in Nat /\ MaxCrashes \in Nat
  <2>1. cmd.gen <= losses
    BY <1>1
  <2>2. losses \in 0..MaxLosses /\ cmd.gen \in 0..MaxLosses
    BY <1>4
  <2> QED
    BY <2>1, <2>2, CommandsAssumption
<1>5. cmd' \in CmdType /\ Counts' /\ cmd'.gen <= losses' /\ cmd'.op \in Carries(cmd'.flaw)
  <2>1. ASSUME NEW op \in Ops, NEW flaw \in Flaws, Issue(op, flaw)
        PROVE  cmd' \in CmdType /\ Counts' /\ cmd'.gen <= losses' /\ cmd'.op \in Carries(cmd'.flaw)
    <3> DEFINE del == op \in {"delete", "flux"} \/ (cmd.deleting /\ op # "create")
    <3>1. del \in BOOLEAN
      OBVIOUS
    <3>2. cmd' = [n |-> cmd.n + 1, op |-> op, flaw |-> flaw, st |-> "queued", att |-> 0, gen |-> 0, deleting |-> del]
      BY <2>1 DEF Issue
    <3>3. cmd.n + 1 \in 1..MaxCommands /\ op \in Carries(flaw) /\ UNCHANGED <<crashes, losses, foreigners>>
          /\ flawed' \in 0..MaxFlawed
      BY <2>1, <1>4, CommandsAssumption DEF Issue
    <3> HIDE DEF del
    <3>4. cmd' \in CmdType
      BY <3>1, <3>2, <3>3, CommandsAssumption
    <3> QED
      BY <1>4, <3>2, <3>3, <3>4, SMTT(20)
  <2>2. CASE LeaseExpires \/ RenewalsLost
    <3>1. cmd' = [cmd EXCEPT !.st = "queued"] /\ losses' \in {losses, losses + 1} /\ (losses' # losses => losses < MaxLosses)
          /\ UNCHANGED <<flawed, crashes, foreigners>>
      BY <2>2 DEF LeaseExpires, RenewalsLost
    <3> QED
      BY <1>4, <1>8, <3>1
  <2>3. CASE Retarget
    <3>1. cmd' = [cmd EXCEPT !.gen = cmd.gen + 1] /\ losses' = losses + 1 /\ losses < MaxLosses
          /\ UNCHANGED <<flawed, crashes, foreigners>>
      BY <2>3 DEF Retarget
    <3>2. cmd.gen + 1 \in 0..MaxLosses
      BY <1>4, <1>8, <3>1
    <3> QED
      BY <1>4, <1>8, <3>1, <3>2
  <2>4. CASE Provision \/ ForeignTakes \/ Finalized
    <3>1. cmd' = cmd /\ UNCHANGED <<flawed, crashes, losses>> /\ foreigners' \in {foreigners, foreigners + 1}
          /\ (foreigners' # foreigners => foreigners < MaxForeign)
      BY <2>4 DEF Provision, ForeignTakes, Finalized
    <3> QED
      BY <1>4, <1>8, <3>1
  <2>5. ASSUME NEW p \in Procs, Claim(p) \/ Report(p) \/ Crash(p)
        PROVE  cmd' \in CmdType /\ Counts' /\ cmd'.gen <= losses' /\ cmd'.op \in Carries(cmd'.flaw)
    <3>1. /\ \/ cmd' = cmd
             \/ cmd' = [cmd EXCEPT !.st = "claimed", !.att = cmd.att + 1]
             \/ cmd' = [cmd EXCEPT !.st = "done"]
          /\ losses' \in {losses, losses + 1} /\ (losses' # losses => losses < MaxLosses)
          /\ crashes' \in {crashes, crashes + 1} /\ (crashes' # crashes => crashes < MaxCrashes)
          /\ UNCHANGED <<flawed, foreigners>>
      BY <2>5 DEF Claim, Report, Crash
    <3>2. cmd' \in CmdType /\ cmd'.gen = cmd.gen /\ cmd'.op = cmd.op /\ cmd'.flaw = cmd.flaw
      <4>1. cmd \in CmdType
        BY <1>4
      <4>2. CASE cmd' = cmd
        BY <4>1, <4>2
      <4>3. CASE cmd' = [cmd EXCEPT !.st = "claimed", !.att = cmd.att + 1]
        <5>1. cmd.att + 1 \in Nat
          BY <4>1
        <5>2. [cmd EXCEPT !.st = "claimed", !.att = cmd.att + 1] \in CmdType
          BY <4>1, <5>1
        <5> QED
          BY <4>1, <4>3, <5>2
      <4>4. CASE cmd' = [cmd EXCEPT !.st = "done"]
        BY <4>1, <4>4
      <4> QED
        BY <3>1, <4>2, <4>3, <4>4
    <3> QED
      BY <1>4, <1>8, <3>1, <3>2
  <2>6. ASSUME NEW p \in Procs, Execute(p)
        PROVE  UNCHANGED <<cmd, flawed, crashes, losses, foreigners>>
    BY <2>6 DEF Execute, Work, Install, Installed, Capture, Uninstall, Managed, Exists,
       DeleteNamespace, Gone, HelmStatus, Ready, Rollback, CallFails
  <2> QED
    BY <1>1, <1>4, <2>1, <2>2, <2>3, <2>4, <2>5, <2>6 DEF Next
<1>6. answer' \in [op: Ops \cup {""}, n: 0..MaxCommands, inc: Nat, res: Results]
  <2>1. ASSUME NEW p \in Procs, Report(p)
        PROVE  answer' \in [op: Ops \cup {""}, n: 0..MaxCommands, inc: Nat, res: Results]
    <3>1. /\ proc[p].op \in Ops \cup {""} /\ proc[p].n \in 0..MaxCommands /\ proc[p].inc \in Nat /\ proc[p].res \in Results
      BY <1>1 DEF ProcType
    <3>2. answer' = answer \/ answer' = [op |-> proc[p].op, n |-> proc[p].n, inc |-> proc[p].inc, res |-> proc[p].res]
      BY <2>1 DEF Report
    <3>3. [op |-> proc[p].op, n |-> proc[p].n, inc |-> proc[p].inc, res |-> proc[p].res]
             \in [op: Ops \cup {""}, n: 0..MaxCommands, inc: Nat, res: Results]
      BY <3>1
    <3> QED
      BY <1>1, <3>2, <3>3
  <2>2. NoAnswer \in [op: Ops \cup {""}, n: 0..MaxCommands, inc: Nat, res: Results]
    <3>1. FailedResult \in Results
      BY ResultTypes
    <3>2. 0 \in 0..MaxCommands
      BY CommandsAssumption
    <3> QED
      BY <3>1, <3>2 DEF NoAnswer
  <2>3. ASSUME External PROVE answer' = answer \/ answer' = NoAnswer
    BY <2>3 DEF External, Issue, LeaseExpires, RenewalsLost, Retarget, Provision, ForeignTakes, Finalized
  <2>4. ASSUME NEW p \in Procs, Claim(p) \/ Execute(p) \/ Crash(p) PROVE answer' = answer
    BY <2>4 DEF Claim, Crash, Execute, Work, Install, Installed, Capture, Uninstall, Managed, Exists,
       DeleteNamespace, Gone, HelmStatus, Ready, Rollback, CallFails
  <2> QED
    BY <1>1, <2>1, <2>2, <2>3, <2>4 DEF Next, External
<1>7. TypeOK'
  BY <1>2, <1>3, <1>5, NamespaceSteps, ReleaseTypes DEF TypeOK, Lines
<1> QED
  BY <1>2, <1>5, <1>6, <1>7, NamespaceSteps, ReleaseTypes DEF Types, ProcType

-----------------------------------------------------------------------------
(* The route of a command through the dispatch. *)

\* What the fields of a process and of the namespace are.
LEMMA ProcFields ==
    ASSUME Types, NEW p \in Procs
    PROVE  /\ proc[p] \in ProcType
           /\ proc[p].inc \in Nat /\ proc[p].seen \in Nat /\ proc[p].pc \in Lines
           /\ ns.inc \in Nat
  BY DEF Types, ProcType

\* A process that does not move keeps its route while the namespace moves.
LEMMA RouteKept ==
    ASSUME Types, NamespaceMoves, NEW r \in Procs, proc'[r] = proc[r], RouteOf(proc[r])
    PROVE  RouteOf(proc[r])'
<1>1. proc[r].inc \in Nat /\ proc[r].seen \in Nat /\ ns.inc \in Nat
  BY ProcFields
<1>2. ns'.inc >= ns.inc /\ ns'.inc \in Nat /\ (ns'.inc = ns.inc => ns'.own = ns.own)
  BY <1>1 DEF NamespaceMoves
<1> QED
  BY <1>1, <1>2 DEF RouteOf

\* A process that goes on at line l with the same command.
LEMMA RouteOn ==
    ASSUME Types, NEW p \in Procs, RouteOf(proc[p]), proc[p].pc \notin {"idle", "report"}, NEW l \in Lines \ {"idle", "report"},
           Serves(l, proc[p].op), Goto(p, l),
           l = "nsDelete" => proc[p].pc = "capture" /\ proc[p].op = "flux",
           l = "capture" => proc[p].op # "flux",
           ns' = ns
    PROVE  RouteOf(proc[p])'
<1>1. proc'[p] = [proc[p] EXCEPT !.pc = l] /\ proc[p] \in ProcType
  BY ProcFields DEF Goto, Types
<1>2. /\ proc'[p].pc = l /\ proc'[p].op = proc[p].op /\ proc'[p].flaw = proc[p].flaw /\ proc'[p].res = proc[p].res
      /\ proc'[p].inc = proc[p].inc /\ proc'[p].seen = proc[p].seen
  BY <1>1 DEF ProcType
<1> QED
  BY <1>2 DEF RouteOf, Refused

\* A process that ends with a result.
LEMMA RouteEnds ==
    ASSUME Types, NamespaceMoves, NEW p \in Procs, RouteOf(proc[p]), proc[p].pc \notin {"idle", "report"}, NEW res, Finish(p, res)
    PROVE  RouteOf(proc[p])' /\ proc'[p].pc = "report" /\ proc'[p].res = res
           /\ proc'[p].op = proc[p].op /\ proc'[p].inc = proc[p].inc /\ proc'[p].n = proc[p].n
<1>1. proc'[p] = [proc[p] EXCEPT !.pc = "report", !.res = res] /\ proc[p] \in ProcType
  BY ProcFields DEF Finish, Types
<1>2. /\ proc'[p].pc = "report" /\ proc'[p].op = proc[p].op /\ proc'[p].flaw = proc[p].flaw /\ proc'[p].res = res
      /\ proc'[p].inc = proc[p].inc /\ proc'[p].n = proc[p].n
  BY <1>1 DEF ProcType
<1>3. proc[p].inc \in Nat /\ ns.inc \in Nat /\ ns'.inc >= ns.inc /\ ns'.inc \in Nat
  BY ProcFields DEF NamespaceMoves
<1>4. ~Refused(proc[p]) /\ proc[p].inc <= ns.inc
  BY DEF RouteOf
<1>5. ~Refused(proc'[p])
  BY <1>2, <1>4 DEF Refused
<1>6. Serves("report", proc[p].op)
  BY DEF Serves
<1>7. proc[p].inc <= ns'.inc
  BY <1>3, <1>4
<1> QED
  BY <1>2, <1>5, <1>6, <1>7 DEF RouteOf

\* A claimed command.
LEMMA Claimed ==
    ASSUME Types, NEW p \in Procs, Claim(p)
    PROVE  /\ proc'[p].pc = Dispatch(cmd.flaw, cmd.op) /\ proc'[p].n = cmd.n /\ proc'[p].op = cmd.op
           /\ proc'[p].flaw = cmd.flaw /\ proc'[p].att = cmd.att + 1 /\ proc'[p].inc = ns.inc
           /\ proc'[p].res = FailedResult
           /\ cmd.op \in Ops /\ cmd.flaw \in Flaws /\ cmd.op \in Carries(cmd.flaw)
<1>1. proc \in [Procs -> ProcType]
  BY DEF Types, ProcType
<1>2. cmd.op \in Ops /\ cmd.flaw \in Flaws /\ cmd.op \in Carries(cmd.flaw)
  BY DEF Types, TypeOK
<1>3. proc'[p] = [pc |-> Dispatch(cmd.flaw, cmd.op), n |-> cmd.n, op |-> cmd.op,
                    flaw |-> cmd.flaw, deleting |-> cmd.deleting /\ cmd.op = "status",
                    att |-> cmd.att + 1, gen |-> cmd.gen, inc |-> ns.inc, seen |-> 0,
                    res |-> FailedResult]
  BY <1>1 DEF Claim
<1> QED
  BY <1>2, <1>3

\* A poll that ends leaves an idle process.
LEMMA PollEnds ==
    ASSUME Types, NEW p \in Procs, Report(p) \/ Crash(p)
    PROVE  proc'[p] = Idle
<1>1. proc \in [Procs -> ProcType]
  BY DEF Types, ProcType
<1> QED
  BY <1>1 DEF Report, Crash

\* Every poll keeps the process on a route of the dispatch.
LEMMA RoutePoll ==
    ASSUME Types, NamespaceMoves, NEW p \in Procs, RouteOf(proc[p]), Poll(p)
    PROVE  RouteOf(proc[p])'
<1> USE DEF cluster, Local, OnCluster, At
<1>1. CASE Claim(p)
  <2>1. /\ Dispatch(cmd.flaw, cmd.op) \in Lines \ {"idle", "nsDelete", "ready"}
        /\ Serves(Dispatch(cmd.flaw, cmd.op), cmd.op)
        /\ Dispatch(cmd.flaw, cmd.op) = "capture" => cmd.op = "delete"
        /\ (cmd.flaw # "none" /\ ~(cmd.flaw = "namespace" /\ cmd.op = "render")) => Dispatch(cmd.flaw, cmd.op) = "report"
    BY <1>1, Claimed, DispatchServes
  <2>2. ns' = ns /\ ns.inc \in Nat
    BY <1>1, ProcFields DEF Claim
  <2> QED
    BY <1>1, <2>1, <2>2, Claimed DEF RouteOf, Refused
<1>2. CASE Report(p) \/ Crash(p)
  <2>1. proc'[p] = Idle
    BY <1>2, PollEnds
  <2>2. ns'.inc \in Nat
    BY ProcFields DEF NamespaceMoves
  <2>3. Idle.pc = "idle" /\ Idle.op = "" /\ Idle.flaw = "none" /\ Idle.inc = 0 /\ Idle.res = FailedResult
    BY DEF Idle
  <2>4. Serves("idle", "") /\ ~Refused(Idle)
    BY <2>3 DEF Serves, Refused
  <2>5. /\ proc'[p].pc = "idle" /\ proc'[p].op = "" /\ proc'[p].res = FailedResult /\ ~Refused(proc'[p])
        /\ Serves(proc'[p].pc, proc'[p].op)
    BY <2>1, <2>3, <2>4
  <2>6. proc'[p].inc <= ns'.inc
    <3>1. proc'[p].inc = 0
      BY <2>1, <2>3
    <3> QED
      BY <2>2, <3>1
  <2> QED
    BY <2>1, <2>5, <2>6 DEF RouteOf
<1>3. ASSUME NEW res, Finish(p, res), proc[p].pc \notin {"idle", "report"} PROVE RouteOf(proc[p])'
  BY <1>3, RouteEnds
<1>4. CASE Work(p) \/ CallFails(p) \/ Exists(p) \/ Gone(p) \/ Ready(p) \/ Rollback(p) \/ Installed(p)
  BY <1>3, <1>4 DEF Work, CallFails, Calls, Exists, Gone, Ready, Rollback, Installed, Fail
<1>5. CASE Install(p) \/ HelmStatus(p)
  <2>1. ns' = ns /\ proc[p].pc \in {"install", "helmStatus"}
        /\ (proc[p].pc = "install" => proc[p].op = "create") /\ (proc[p].pc = "helmStatus" => proc[p].op = "status")
    BY <1>5 DEF Install, HelmStatus, RouteOf, Serves
  <2>2. CASE Install(p)
    <3>1. Goto(p, "installing") /\ proc[p].op = "create" /\ "installing" \in Lines \ {"idle", "report"}
      BY <2>1, <2>2 DEF Install, Lines
    <3> QED
      BY <2>1, <3>1, RouteOn DEF Serves
  <2>3. CASE HelmStatus(p)
    <3>1. Goto(p, "ready") \/ Goto(p, "rollback") \/ \E res : Finish(p, res)
      BY <2>3 DEF HelmStatus
    <3>2. {"ready", "rollback"} \subseteq Lines \ {"idle", "report"} /\ proc[p].op = "status"
      BY <2>1, <2>3 DEF HelmStatus, Lines, Calls
    <3> QED
      BY <1>3, <2>1, <3>1, <3>2, RouteOn DEF Serves
  <2> QED
    BY <1>5, <2>2, <2>3
<1>6. CASE Capture(p)
  <2>1. ns' = ns /\ proc[p].pc = "capture" /\ proc[p].op \in {"delete", "flux"}
    BY <1>6 DEF Capture, RouteOf, Serves
  <2>2. \/ Goto(p, "nsDelete") /\ proc[p].op = "flux"
        \/ Goto(p, "uninstall") /\ proc[p].op = "delete"
    BY <1>6, <2>1 DEF Capture
  <2>3. {"nsDelete", "uninstall"} \subseteq Lines \ {"idle", "report"}
    BY DEF Lines, Calls
  <2> QED
    BY <2>1, <2>2, <2>3, RouteOn DEF Serves
<1>7. CASE Uninstall(p)
  <2>1. ns' = ns /\ proc[p].pc = "uninstall" /\ proc[p].op = "delete"
    BY <1>7 DEF Uninstall, RouteOf, Serves
  <2>2. Goto(p, "managed") \/ \E res : Finish(p, res)
    BY <1>7 DEF Uninstall, Fail
  <2>3. "managed" \in Lines \ {"idle", "report"}
    BY DEF Lines, Calls
  <2> QED
    BY <1>3, <2>1, <2>2, <2>3, RouteOn DEF Serves
<1>8. CASE Managed(p)
  <2>1. ns' = ns /\ proc[p].pc = "managed" /\ proc[p].op \in {"delete", "flux"} /\ proc[p] \in ProcType
    BY <1>8, ProcFields DEF Managed, RouteOf, Serves
  <2>2. CASE ns.st # "absent" /\ ns.own
    <3>1. proc'[p] = [proc[p] EXCEPT !.seen = ns.inc, !.pc = IF proc[p].op = "flux" THEN "capture" ELSE "nsDelete"]
      BY <1>8, <2>2 DEF Managed, Types
    <3>2. /\ proc'[p].pc = (IF proc[p].op = "flux" THEN "capture" ELSE "nsDelete") /\ proc'[p].seen = ns.inc
          /\ proc'[p].op = proc[p].op /\ proc'[p].flaw = proc[p].flaw /\ proc'[p].res = proc[p].res
          /\ proc'[p].inc = proc[p].inc
      BY <2>1, <3>1 DEF ProcType
    <3>3. ns.inc \in Nat /\ ns.inc # 0
      BY <2>2 DEF Types
    <3>4. ~Refused(proc[p]) /\ proc[p].res = FailedResult /\ proc[p].inc <= ns.inc
      BY <2>1 DEF RouteOf
    <3>5. ~Refused(proc'[p])
      BY <3>2, <3>4 DEF Refused
    <3>6. Serves(proc'[p].pc, proc'[p].op) /\ proc'[p].pc \in {"capture", "nsDelete"}
      BY <2>1, <3>2 DEF Serves
    <3> QED
      BY <2>1, <2>2, <3>2, <3>3, <3>4, <3>5, <3>6 DEF RouteOf
  <2>3. CASE ~(ns.st # "absent" /\ ns.own)
    <3>1. (Goto(p, "exists") /\ proc[p].op = "flux") \/ \E res : Finish(p, res)
      BY <1>8, <2>3 DEF Managed
    <3>2. "exists" \in Lines \ {"idle", "report"}
      BY DEF Lines, Calls
    <3> QED
      BY <1>3, <2>1, <3>1, <3>2, RouteOn DEF Serves
  <2> QED
    BY <2>2, <2>3
<1>9. CASE DeleteNamespace(p)
  <2>1. proc[p].pc = "nsDelete" /\ proc[p].op \in {"delete", "flux"} /\ proc[p] \in ProcType
    BY <1>9, ProcFields DEF DeleteNamespace, RouteOf, Serves
  <2>2. (Goto(p, "gone") /\ proc[p].op = "flux") \/ \E res : Finish(p, res)
    BY <1>9 DEF DeleteNamespace, Fail
  <2>3. CASE Goto(p, "gone") /\ proc[p].op = "flux"
    <3>1. proc'[p] = [proc[p] EXCEPT !.pc = "gone"]
      BY <2>3 DEF Goto, Types
    <3>2. /\ proc'[p].pc = "gone" /\ proc'[p].op = "flux" /\ proc'[p].flaw = proc[p].flaw /\ proc'[p].res = proc[p].res
          /\ proc'[p].inc = proc[p].inc
      BY <2>1, <2>3, <3>1 DEF ProcType
    <3>3. ns'.inc >= ns.inc /\ ns'.inc \in Nat /\ ns.inc \in Nat /\ proc[p].inc \in Nat
      BY ProcFields DEF NamespaceMoves
    <3>4. ~Refused(proc[p]) /\ proc[p].res = FailedResult /\ proc[p].inc <= ns.inc
      BY <2>1 DEF RouteOf
    <3>5. ~Refused(proc'[p]) /\ Serves("gone", "flux")
      BY <2>3, <3>2, <3>4 DEF Refused, Serves
    <3> QED
      BY <3>2, <3>3, <3>4, <3>5, SMTT(20) DEF RouteOf
  <2> QED
    BY <1>3, <2>1, <2>2, <2>3
<1> QED
  BY <1>1, <1>2, <1>4, <1>5, <1>6, <1>7, <1>8, <1>9 DEF Poll, Execute

\* Every step keeps every process on a route of the dispatch.
LEMMA RouteStep ==
    ASSUME Types, Route, Next
    PROVE  Route'
<1>1. NamespaceMoves
  BY NamespaceSteps
<1>2. ASSUME NEW p \in Procs, Poll(p), NEW r \in Procs PROVE RouteOf(proc[r])'
  <2>1. CASE r = p
    BY <1>1, <1>2, <2>1, RoutePoll DEF Route
  <2>2. CASE r # p
    BY <1>1, <1>2, <2>2, OthersStay, RouteKept DEF Route
  <2> QED
    BY <2>1, <2>2
<1>3. ASSUME External, NEW r \in Procs PROVE RouteOf(proc[r])'
  BY <1>1, <1>3, ExternalStays, RouteKept DEF Route
<1> QED
  BY <1>2, <1>3 DEF Route, Next, Poll, External

-----------------------------------------------------------------------------
(* What CleanupVerified certifies. *)

\* A certificate stays true: a namespace that is gone comes back as a new one.
LEMMA CertificateKept ==
    ASSUME Types, NamespaceMoves, UNCHANGED shared, NEW op, NEW inc \in Nat, inc <= ns.inc, Certifies(op, inc)
    PROVE  Certifies(op, inc)'
<1>1. ns.inc \in Nat
  BY DEF Types
<1> QED
  BY <1>1 DEF Certifies, NamespaceMoves

\* Nobody changes the namespace mode of the project.
LEMMA SharedStays ==
    ASSUME Next
    PROVE  UNCHANGED shared
<1> USE DEF Local, OnCluster
<1>1. ASSUME NEW p \in Procs, Poll(p) PROVE UNCHANGED shared
  BY <1>1 DEF Poll, Claim, Report, Crash, Execute, Work, Install, Installed, Capture, Uninstall, Managed, Exists,
     DeleteNamespace, Gone, HelmStatus, Ready, Rollback, CallFails
<1> QED
  BY <1>1, ExternalStays DEF Next, Poll, External

\* A process works on the command it has claimed.
LEMMA SameCommand ==
    ASSUME Types, NEW p \in Procs, Execute(p)
    PROVE  /\ proc'[p].n = proc[p].n /\ proc'[p].op = proc[p].op /\ proc'[p].att = proc[p].att
           /\ proc'[p].inc = proc[p].inc /\ proc'[p].gen = proc[p].gen /\ proc'[p].pc # "idle"
<1>1. proc[p] \in ProcType /\ proc \in [Procs -> ProcType]
  BY ProcFields DEF Types, ProcType
<1> DEFINE Same == /\ proc'[p].n = proc[p].n /\ proc'[p].op = proc[p].op /\ proc'[p].att = proc[p].att
                   /\ proc'[p].inc = proc[p].inc /\ proc'[p].gen = proc[p].gen /\ proc'[p].pc # "idle"
<1>2. ASSUME NEW l, l # "idle", Goto(p, l) PROVE Same
  <2>1. proc'[p] = [proc[p] EXCEPT !.pc = l]
    BY <1>1, <1>2 DEF Goto
  <2> QED
    BY <1>1, <1>2, <2>1 DEF ProcType
<1>3. ASSUME NEW res, Finish(p, res) PROVE Same
  <2>1. proc'[p] = [proc[p] EXCEPT !.pc = "report", !.res = res]
    BY <1>1, <1>3 DEF Finish
  <2> QED
    BY <1>1, <2>1 DEF ProcType
<1>4. CASE Managed(p) /\ ns.st # "absent" /\ ns.own
  <2>1. proc'[p] = [proc[p] EXCEPT !.seen = ns.inc, !.pc = IF proc[p].op = "flux" THEN "capture" ELSE "nsDelete"]
    BY <1>1, <1>4 DEF Managed
  <2> QED
    BY <1>1, <2>1 DEF ProcType
<1>5. CASE ~(Managed(p) /\ ns.st # "absent" /\ ns.own)
  <2>1. (\E l : l # "idle" /\ Goto(p, l)) \/ \E res : Finish(p, res)
    BY <1>5 DEF Execute, Work, Install, Installed, Capture, Uninstall, Managed, Exists,
       DeleteNamespace, Gone, HelmStatus, Ready, Rollback, CallFails, Fail
  <2> QED
    BY <1>2, <1>3, <2>1
<1> QED
  BY <1>4, <1>5

\* The fields of the results.
LEMMA ResultFields ==
    /\ FailedResult.ok = FALSE /\ FailedResult.verified = FALSE /\ FailedResult.env = ""
    /\ Deleted.verified = TRUE /\ Deleted.env = "terminated"
    /\ \A env \in Answers : Result(TRUE, env, FALSE).verified = FALSE /\ Result(TRUE, env, FALSE).env = env
  BY DEF FailedResult, Deleted, Result

\* The result of a line: FailedResult, or what was found.
LEMMA Ends ==
    ASSUME Types, NamespaceMoves, NEW p \in Procs, RouteOf(proc[p]), Execute(p)
    PROVE  \/ proc'[p].pc # "report" /\ proc'[p].res = FailedResult
           \/ proc'[p].pc = "report" /\ proc'[p].res = FailedResult
           \/ /\ proc'[p].pc = "report" /\ \E env \in Answers : proc'[p].res = Result(TRUE, env, FALSE)
              /\ ~(proc[p].pc \in {"uninstall", "managed", "exists", "nsDelete"})
           \/ /\ proc'[p].pc = "report" /\ proc'[p].res = Deleted
              /\ \/ proc[p].pc = "uninstall" /\ shared
                 \/ proc[p].pc = "managed" /\ proc[p].op = "delete" /\ (ns.st = "absent" \/ ~ns.own) /\ ns' = ns
                 \/ proc[p].pc \in {"exists", "gone"} /\ ns.st = "absent" /\ ns' = ns
                 \/ proc[p].pc = "nsDelete" /\ proc[p].op = "delete" /\ ns'.st # "live"
<1> USE DEF cluster, Local, OnCluster, At
<1>1. RouteOf(proc[p])' /\ proc[p].pc \notin {"idle", "report"}
  <2>1. proc[p].pc \notin {"idle", "report"}
    BY DEF Execute, Work, Install, Installed, Capture, Uninstall, Managed, Exists, DeleteNamespace, Gone, HelmStatus,
       Ready, Rollback, CallFails, Calls
  <2> QED
    BY <2>1, RoutePoll DEF Poll
<1>2. ASSUME NEW res, Finish(p, res) PROVE proc'[p].pc = "report" /\ proc'[p].res = res
  BY <1>1, <1>2, RouteEnds
<1>3. proc'[p].pc # "report" => proc'[p].res = FailedResult
  BY <1>1 DEF RouteOf
<1>4. CASE proc'[p].pc # "report"
  BY <1>3, <1>4
<1>5. ASSUME NEW l \in Lines \ {"report"}, Goto(p, l) PROVE proc'[p].pc # "report"
  <2>1. proc'[p] = [proc[p] EXCEPT !.pc = l] /\ proc[p] \in ProcType
    BY <1>5, ProcFields DEF Goto, Types
  <2> QED
    BY <2>1 DEF ProcType
<1>6. {"installing", "nsDelete", "uninstall", "managed", "exists", "gone", "ready", "rollback", "capture"} \subseteq Lines \ {"report"}
  BY DEF Lines, Calls
<1>7. CASE Install(p) \/ Capture(p)
  BY <1>4, <1>5, <1>6, <1>7 DEF Install, Capture
<1>8. CASE CallFails(p)
  BY <1>2, <1>8 DEF CallFails, Fail
<1>9. CASE Work(p) \/ Installed(p) \/ Ready(p) \/ Rollback(p)
  <2>1. proc[p].pc \in {"work", "installing", "ready", "rollback"}
        /\ (Finish(p, FailedResult) \/ \E env \in Answers : Finish(p, Result(TRUE, env, FALSE)))
    BY <1>9 DEF Work, Installed, Ready, Rollback, Fail, Answers
  <2> QED
    BY <1>2, <2>1
<1>10. CASE HelmStatus(p)
  <2>1. proc[p].pc = "helmStatus"
        /\ (Goto(p, "ready") \/ Goto(p, "rollback") \/ \E env \in Answers : Finish(p, Result(TRUE, env, FALSE)))
    BY <1>10 DEF HelmStatus, Answers
  <2> QED
    BY <1>2, <1>4, <1>5, <1>6, <2>1
<1>11. CASE Uninstall(p)
  <2>1. proc[p].pc = "uninstall" /\ (Goto(p, "managed") \/ (Finish(p, Deleted) /\ shared) \/ Finish(p, FailedResult))
    BY <1>11 DEF Uninstall, Fail
  <2> QED
    BY <1>2, <1>4, <1>5, <1>6, <2>1
<1>12. CASE Managed(p)
  <2>1. proc[p].pc = "managed" /\ ns' = ns /\ proc[p].op \in {"delete", "flux"}
    BY <1>12 DEF Managed, RouteOf, Serves
  <2>2. CASE ns.st # "absent" /\ ns.own
    <3>1. proc'[p] = [proc[p] EXCEPT !.seen = ns.inc, !.pc = IF proc[p].op = "flux" THEN "capture" ELSE "nsDelete"]
      BY <1>12, <2>2 DEF Managed, Types
    <3>2. proc'[p].pc # "report"
      BY <3>1, ProcFields DEF ProcType
    <3> QED
      BY <1>4, <3>2
  <2>3. CASE ~(ns.st # "absent" /\ ns.own)
    <3>1. Goto(p, "exists") \/ (proc[p].op = "delete" /\ Finish(p, Deleted))
      BY <1>12, <2>1, <2>3 DEF Managed
    <3> QED
      BY <1>2, <1>4, <1>5, <1>6, <2>1, <2>3, <3>1
  <2> QED
    BY <2>2, <2>3
<1>13. CASE Exists(p)
  <2>1. proc[p].pc = "exists" /\ ns' = ns /\ ((ns.st = "absent" /\ Finish(p, Deleted)) \/ Finish(p, FailedResult))
    BY <1>13 DEF Exists, Fail
  <2> QED
    BY <1>2, <2>1
<1>14. CASE Gone(p)
  <2>1. proc[p].pc = "gone" /\ ns' = ns
        /\ ((ns.st = "absent" /\ Finish(p, Deleted)) \/ \E env \in Answers : Finish(p, Result(TRUE, env, FALSE)))
    BY <1>14 DEF Gone, Answers
  <2> QED
    BY <1>2, <2>1
<1>15. CASE DeleteNamespace(p)
  <2>1. proc[p].pc = "nsDelete" /\ proc[p].op \in {"delete", "flux"} /\ ns'.st # "live"
    BY <1>15 DEF DeleteNamespace, RouteOf, Serves, Types
  <2>2. Goto(p, "gone") \/ (proc[p].op = "delete" /\ Finish(p, Deleted)) \/ Finish(p, FailedResult)
    BY <1>15, <2>1 DEF DeleteNamespace, Fail
  <2> QED
    BY <1>2, <1>4, <1>5, <1>6, <2>1, <2>2
<1> QED
  BY <1>7, <1>8, <1>9, <1>10, <1>11, <1>12, <1>13, <1>14, <1>15 DEF Execute

\* Every step keeps the certificates.
LEMMA CleanupStep ==
    ASSUME Types, Route, Cleanup, Next
    PROVE  Cleanup'
<1> USE DEF cluster, Local, OnCluster
<1>1. NamespaceMoves /\ UNCHANGED shared /\ Route'
  BY NamespaceSteps, SharedStays, RouteStep
<1>2. ASSUME NEW r \in Procs, proc'[r] = proc[r], proc'[r].res.verified PROVE Certifies(proc[r].op, proc[r].inc)'
  <2>1. Certifies(proc[r].op, proc[r].inc) /\ proc[r].inc \in Nat /\ proc[r].inc <= ns.inc
    BY <1>2, ProcFields DEF Cleanup, Route, RouteOf
  <2> DEFINE op == proc[r].op
             inc == proc[r].inc
  <2>2. op' = op /\ inc' = inc
    BY <1>2
  <2>3. ASSUME NEW o, NEW i \in Nat, i <= ns.inc, Certifies(o, i) PROVE Certifies(o, i)'
    BY <1>1, <2>3, CertificateKept
  <2> QED
    BY <2>1, <2>2, <2>3 DEF Certifies
<1>3. ASSUME NEW p \in Procs, Execute(p), proc'[p].res.verified PROVE Certifies(proc[p].op, proc[p].inc)'
  <2>1. RouteOf(proc[p])
    BY DEF Route
  <2>2. proc'[p].res # FailedResult /\ \A env \in Answers : proc'[p].res # Result(TRUE, env, FALSE)
    BY <1>3, ResultFields
  <2>3. \/ proc[p].pc = "uninstall" /\ shared
        \/ proc[p].pc = "managed" /\ proc[p].op = "delete" /\ (ns.st = "absent" \/ ~ns.own) /\ ns' = ns
        \/ proc[p].pc \in {"exists", "gone"} /\ ns.st = "absent" /\ ns' = ns
        \/ proc[p].pc = "nsDelete" /\ proc[p].op = "delete" /\ ns'.st # "live"
    BY <1>1, <1>3, <2>1, <2>2, Ends
  <2>4. proc'[p].op = proc[p].op
    BY <1>3, SameCommand
  <2>5. /\ proc[p].pc = "uninstall" => proc[p].op = "delete"
        /\ proc[p].pc \in {"exists", "gone"} => proc[p].op = "flux"
    BY <2>1 DEF RouteOf, Serves
  <2> QED
    BY <1>1, <2>3, <2>4, <2>5 DEF Certifies
<1>4. ASSUME NEW p \in Procs, Claim(p) \/ Report(p) \/ Crash(p) PROVE ~proc'[p].res.verified
  <2>1. Idle.res = FailedResult
    BY DEF Idle
  <2>2. proc'[p].res = FailedResult
    BY <1>4, <2>1, Claimed, PollEnds
  <2> QED
    BY <2>2, ResultFields
<1>5. ASSUME NEW r \in Procs, proc'[r].res.verified PROVE Certifies(proc[r].op, proc[r].inc)'
  <2>1. ASSUME NEW p \in Procs, Poll(p) PROVE Certifies(proc[r].op, proc[r].inc)'
    <3>1. CASE r = p
      BY <1>3, <1>4, <1>5, <2>1, <3>1 DEF Poll
    <3>2. CASE r # p
      BY <1>2, <1>5, <2>1, <3>2, OthersStay
    <3> QED
      BY <3>1, <3>2
  <2>2. CASE External
    BY <1>2, <1>5, <2>2, ExternalStays
  <2> QED
    BY <2>1, <2>2 DEF Next, Poll, External
<1>6. ASSUME UNCHANGED answer PROVE (answer.res.verified => Certifies(answer.op, answer.inc))' /\ (answer.inc <= ns.inc)'
  <2>1. answer.inc \in Nat /\ ns.inc \in Nat /\ answer.inc <= ns.inc
    BY DEF Types, Cleanup
  <2>2. answer.inc <= ns'.inc
    BY <1>1, <2>1 DEF NamespaceMoves
  <2>3. ASSUME NEW o, NEW i \in Nat, i <= ns.inc, Certifies(o, i) PROVE Certifies(o, i)'
    BY <1>1, <2>3, CertificateKept
  <2>4. answer.res.verified => Certifies(answer.op, answer.inc)'
    BY <1>6, <2>1, <2>3 DEF Cleanup, Certifies
  <2> QED
    BY <1>6, <2>2, <2>4
<1>7. ASSUME NEW p \in Procs, Report(p)
      PROVE  (answer.res.verified => Certifies(answer.op, answer.inc))' /\ (answer.inc <= ns.inc)'
  <2>1. CASE UNCHANGED answer
    BY <1>6, <2>1
  <2>2. CASE ~UNCHANGED answer
    <3>1. answer' = [op |-> proc[p].op, n |-> proc[p].n, inc |-> proc[p].inc, res |-> proc[p].res] /\ ns' = ns
      BY <1>7, <2>2 DEF Report
    <3>2. answer'.op = proc[p].op /\ answer'.inc = proc[p].inc /\ answer'.res = proc[p].res
      BY <3>1
    <3>3. proc[p].inc <= ns.inc
      BY DEF Route, RouteOf
    <3> QED
      BY <1>1, <3>1, <3>2, <3>3 DEF Cleanup, Certifies
  <2> QED
    BY <2>1, <2>2
<1>8. ASSUME answer' = NoAnswer
      PROVE  (answer.res.verified => Certifies(answer.op, answer.inc))' /\ (answer.inc <= ns.inc)'
  <2>1. answer'.res = FailedResult /\ answer'.inc = 0
    BY <1>8, ResultTypes
  <2>2. ns'.inc \in Nat /\ 0 <= ns'.inc
    BY NamespaceSteps
  <2> QED
    BY <2>1, <2>2, ResultFields
<1>9. \/ UNCHANGED answer \/ answer' = NoAnswer \/ \E p \in Procs : Report(p)
  <2>1. ASSUME External PROVE answer' = answer \/ answer' = NoAnswer
    BY <2>1 DEF External, Issue, LeaseExpires, RenewalsLost, Retarget, Provision, ForeignTakes, Finalized
  <2>2. ASSUME NEW p \in Procs, Claim(p) \/ Execute(p) \/ Crash(p) PROVE answer' = answer
    BY <2>2 DEF Claim, Crash, Execute, Work, Install, Installed, Capture, Uninstall, Managed, Exists,
       DeleteNamespace, Gone, HelmStatus, Ready, Rollback, CallFails
  <2> QED
    BY <2>1, <2>2 DEF Next, External
<1> QED
  BY <1>5, <1>6, <1>7, <1>8, <1>9 DEF Cleanup

-----------------------------------------------------------------------------
(* One process at a time, and what its answer says. *)

\* A lease that expires under a running process is never forgotten.
LEMMA OverrunStays ==
    ASSUME Next, ~overrun'
    PROVE  ~overrun /\ ~RenewalsLost
<1> USE DEF Local, OnCluster
<1>1. ASSUME NEW p \in Procs, Poll(p) PROVE UNCHANGED overrun
  BY <1>1 DEF Poll, Claim, Report, Crash, Execute, Work, Install, Installed, Capture, Uninstall, Managed, Exists,
     DeleteNamespace, Gone, HelmStatus, Ready, Rollback, CallFails
<1>2. ASSUME External, ~RenewalsLost PROVE UNCHANGED overrun
  BY <1>2 DEF External, Issue, LeaseExpires, Retarget, Provision, ForeignTakes, Finalized
<1>3. ~RenewalsLost
  BY DEF RenewalsLost
<1> QED
  BY <1>1, <1>2, <1>3 DEF Next, Poll, External

\* Who polls is active, except for a claim, and then nobody is.
LEMMA Alone ==
    ASSUME Types, Exclusive, ~overrun, NEW p \in Procs, Poll(p)
    PROVE  /\ \A r \in Procs \ {p} : proc[r].pc = "idle" /\ proc'[r] = proc[r]
           /\ ~Claim(p) => proc[p].pc # "idle" /\ cmd.st = "claimed" /\ Runs(p)
<1> USE DEF At
<1>1. CASE Claim(p)
  <2>1. cmd.st = "queued" /\ proc[p].pc = "idle"
    BY <1>1 DEF Claim
  <2>2. \A r \in Procs : proc[r].pc = "idle"
    BY <2>1 DEF Exclusive
  <2> QED
    BY <1>1, <2>2, OthersStay
<1>2. CASE ~Claim(p)
  <2>1. proc[p].pc # "idle"
    BY <1>2 DEF Poll, Report, Crash, Execute, Work, Install, Installed, Capture, Uninstall, Managed, Exists,
       DeleteNamespace, Gone, HelmStatus, Ready, Rollback, CallFails, Calls
  <2> QED
    BY <2>1, OthersStay DEF Exclusive
<1> QED
  BY <1>1, <1>2

\* Executing leaves the command and its answer alone.
LEMMA ExecuteLeaves ==
    ASSUME NEW p \in Procs, Execute(p)
    PROVE  UNCHANGED <<cmd, answer, shared, overrun>>
  BY DEF Execute, Work, Install, Installed, Capture, Uninstall, Managed, Exists,
     DeleteNamespace, Gone, HelmStatus, Ready, Rollback, CallFails, Local, OnCluster

\* Every step keeps executions apart while no lease expires under one.
LEMMA ExclusiveStep ==
    ASSUME Types, Exclusive, Next
    PROVE  Exclusive'
<1> SUFFICES ASSUME ~overrun' PROVE Exclusive'
  BY DEF Exclusive
<1>1. ~overrun /\ ~RenewalsLost
  BY OverrunStays
<1>2. CASE External
  <2>1. UNCHANGED proc
    BY <1>2, ExternalStays
  <2>2. CASE LeaseExpires \/ \E op \in Ops, flaw \in Flaws : Issue(op, flaw)
    <3>1. \A p \in Procs : proc[p].pc = "idle"
      <4>1. cmd.st = "done" \/ \A p \in Procs : ~Runs(p)
        BY <2>2 DEF LeaseExpires, Issue
      <4> QED
        BY <1>1, <4>1 DEF Exclusive
    <3> QED
      BY <2>1, <3>1 DEF Exclusive
  <2>3. CASE Retarget
    <3>1. cmd' = [cmd EXCEPT !.gen = cmd.gen + 1]
      BY <2>3 DEF Retarget
    <3>2. cmd'.st = cmd.st /\ cmd'.n = cmd.n /\ cmd'.att = cmd.att
      BY <3>1 DEF Types, TypeOK
    <3> QED
      BY <1>1, <2>1, <3>2 DEF Exclusive, Runs
  <2>4. CASE Provision \/ ForeignTakes \/ Finalized
    <3>1. UNCHANGED cmd
      BY <2>4 DEF Provision, ForeignTakes, Finalized
    <3> QED
      BY <1>1, <2>1, <3>1 DEF Exclusive, Runs
  <2> QED
    BY <1>1, <1>2, <2>2, <2>3, <2>4 DEF External
<1>3. ASSUME NEW p \in Procs, Poll(p) PROVE Exclusive'
  <2>1. \A r \in Procs \ {p} : proc'[r].pc = "idle"
    BY <1>1, <1>3, Alone
  <2>2. CASE Claim(p)
    <3>1. cmd' = [cmd EXCEPT !.st = "claimed", !.att = cmd.att + 1]
      BY <2>2 DEF Claim
    <3>2. cmd'.st = "claimed" /\ cmd'.n = cmd.n /\ cmd'.att = cmd.att + 1
      BY <3>1 DEF Types, TypeOK
    <3>3. proc'[p].n = cmd.n /\ proc'[p].att = cmd.att + 1
      BY <2>2, Claimed
    <3> QED
      BY <2>1, <3>2, <3>3 DEF Exclusive, Runs
  <2>3. CASE Execute(p)
    <3>1. cmd.st = "claimed" /\ Runs(p)
      BY <1>1, <1>3, <2>3, Alone DEF Execute, Claim, At, Work, Install, Installed, Capture, Uninstall, Managed, Exists,
         DeleteNamespace, Gone, HelmStatus, Ready, Rollback, CallFails, Calls
    <3>2. proc'[p].n = proc[p].n /\ proc'[p].att = proc[p].att /\ cmd' = cmd
      BY <2>3, SameCommand, ExecuteLeaves
    <3> QED
      BY <2>1, <3>1, <3>2 DEF Exclusive, Runs
  <2>4. CASE Report(p) \/ Crash(p)
    <3>1. proc'[p].pc = "idle"
      <4>1. Idle.pc = "idle"
        BY DEF Idle
      <4> QED
        BY <2>4, <4>1, PollEnds
    <3> QED
      BY <2>1, <3>1 DEF Exclusive
  <2> QED
    BY <1>3, <2>2, <2>3, <2>4 DEF Poll
<1> QED
  BY <1>2, <1>3 DEF Next, Poll, External

\* What an answer says outlives what the control plane and the cluster do.
LEMMA DescribesKept ==
    ASSUME Types, External, NEW op, NEW n, NEW inc \in Nat, inc <= ns.inc, NEW res, Describes(op, n, inc, res)
    PROVE  Describes(op, n, inc, res)'
<1> USE DEF cluster
<1>1. ns.inc \in Nat
  BY DEF Types
<1>2. CASE Finalized
  <2>1. rel'.st = "none" /\ ns.st = "terminating" /\ ns'.st = "absent"
    BY <1>2 DEF Finalized, Absent, Types
  <2> QED
    BY <2>1 DEF Describes
<1>3. CASE Provision \/ ForeignTakes
  <2>1. rel' = rel /\ ns.st = "absent" /\ ns'.inc = ns.inc + 1
    BY <1>3 DEF Provision, ForeignTakes
  <2>2. ns'.inc # inc
    BY <1>1, <2>1
  <2> QED
    BY <2>1, <2>2 DEF Describes
<1>4. CASE LeaseExpires \/ RenewalsLost \/ Retarget \/ \E o \in Ops, flaw \in Flaws : Issue(o, flaw)
  <2>1. rel' = rel /\ ns' = ns
    BY <1>4 DEF LeaseExpires, RenewalsLost, Retarget, Issue
  <2> QED
    BY <2>1 DEF Describes
<1> QED
  BY <1>2, <1>3, <1>4 DEF External

\* The lines that lead to an answer keep what they have found.
LEMMA TruthKept ==
    ASSUME Types, External, NEW r \in Procs, RouteOf(proc[r]), TruthOf(proc[r])
    PROVE  TruthOf(proc[r])'
<1> USE DEF cluster
<1>1. proc'[r] = proc[r]
  BY ExternalStays
<1>2. proc[r].inc \in Nat /\ ns.inc \in Nat /\ proc[r].inc <= ns.inc
  BY ProcFields DEF RouteOf
<1>3. /\ rel.st = "none" => rel'.st = "none"
      /\ \/ rel' = rel /\ ns' = ns
         \/ ns'.st = "absent"
         \/ ns'.inc = ns.inc + 1
  <2>1. CASE Finalized
    BY <2>1 DEF Finalized, Absent, Types
  <2>2. CASE Provision \/ ForeignTakes
    BY <2>2 DEF Provision, ForeignTakes
  <2>3. CASE LeaseExpires \/ RenewalsLost \/ Retarget \/ \E o \in Ops, flaw \in Flaws : Issue(o, flaw)
    BY <2>3 DEF LeaseExpires, RenewalsLost, Retarget, Issue
  <2> QED
    BY <2>1, <2>2, <2>3 DEF External
<1>4. ASSUME NEW op, NEW n, NEW inc \in Nat, inc <= ns.inc, NEW res, Describes(op, n, inc, res)
      PROVE  Describes(op, n, inc, res)'
  BY <1>4, DescribesKept
<1>5. proc[r].pc = "report" /\ proc[r].res.ok => Describes(proc[r].op, proc[r].n, proc[r].inc, proc[r].res)'
  <2>0. SUFFICES ASSUME proc[r].pc = "report", proc[r].res.ok
                 PROVE  Describes(proc[r].op, proc[r].n, proc[r].inc, proc[r].res)'
    OBVIOUS
  <2>1. PICK op, n, inc, res : op = proc[r].op /\ n = proc[r].n /\ inc = proc[r].inc /\ res = proc[r].res
    OBVIOUS
  <2>2. Describes(op, n, inc, res)
    BY <2>0, <2>1 DEF TruthOf
  <2>3. Describes(op, n, inc, res)'
    BY <1>2, <1>4, <2>1, <2>2
  <2>4. proc'[r].op = op /\ proc'[r].n = n /\ proc'[r].inc = inc /\ proc'[r].res = res
    BY <1>1, <2>1
  <2> QED
    BY <2>3, <2>4 DEF Describes
<1>6. proc[r].pc \in {"managed", "nsDelete"} /\ proc[r].op = "delete" => rel'.st = "none"
  BY <1>3 DEF TruthOf
<1>7. proc[r].pc = "ready" /\ ns'.st = "live" /\ ns'.inc = proc[r].inc => rel'.st = "deployed"
  BY <1>2, <1>3 DEF TruthOf
<1> QED
  BY <1>1, <1>5, <1>6, <1>7 DEF TruthOf

\* Each line of the execution finds or makes what its result says.
LEMMA TruthExecute ==
    ASSUME Types, NamespaceMoves, NEW p \in Procs, RouteOf(proc[p]), TruthOf(proc[p]), Execute(p)
    PROVE  TruthOf(proc[p])'
<1> USE DEF cluster, Local, OnCluster, At
<1>1. /\ proc'[p].n = proc[p].n /\ proc'[p].op = proc[p].op /\ proc'[p].inc = proc[p].inc
  BY SameCommand
<1>2. Serves(proc[p].pc, proc[p].op)
  BY DEF RouteOf
<1>3. ASSUME NEW res, Finish(p, res), proc[p].pc \notin {"idle", "report"},
             res.ok => Describes(proc[p].op, proc[p].n, proc[p].inc, res)'
      PROVE  TruthOf(proc[p])'
  <2>1. proc'[p].pc = "report" /\ proc'[p].res = res
    BY <1>3, RouteEnds
  <2> QED
    BY <1>1, <1>3, <2>1 DEF TruthOf, Describes
<1>4. ASSUME Fail(p), proc[p].pc \notin {"idle", "report"} PROVE TruthOf(proc[p])'
  BY <1>3, <1>4, ResultFields DEF Fail
<1>5. ASSUME NEW l, Goto(p, l), l # "report",
             l \in {"managed", "nsDelete"} /\ proc[p].op = "delete" => rel'.st = "none",
             l = "ready" => rel'.st = "deployed"
      PROVE  TruthOf(proc[p])'
  <2>1. proc'[p].pc = l
    <3>1. proc'[p] = [proc[p] EXCEPT !.pc = l] /\ proc[p] \in ProcType
      BY <1>5, ProcFields DEF Goto, Types
    <3> QED
      BY <3>1 DEF ProcType
  <2> QED
    BY <1>1, <1>5, <2>1 DEF TruthOf
<1>6. CASE Work(p)
  <2>1. Finish(p, Result(TRUE, "", FALSE)) /\ proc[p].pc = "work" /\ proc[p].op \in {"render", "chart", "restore", "copy"}
    BY <1>2, <1>6 DEF Work, Serves
  <2>2. Result(TRUE, "", FALSE).env = ""
    BY DEF Result
  <2> QED
    BY <1>1, <1>3, <2>1, <2>2 DEF Describes
<1>7. CASE Install(p)
  BY <1>5, <1>7 DEF Install
<1>8. CASE Installed(p)
  <2>1. proc[p].pc = "installing" /\ proc[p].op = "create" /\ ns' = ns
    BY <1>2, <1>8 DEF Installed, Serves
  <2>2. Result(TRUE, "", FALSE).env = ""
    BY DEF Result
  <2>3. CASE Fail(p)
    BY <1>4, <2>1, <2>3
  <2>4. CASE /\ rel.st = "pending" /\ rel.ver = proc[p].n /\ ns.st = "live"
             /\ rel' = [rel EXCEPT !.st = "deployed"]
             /\ Finish(p, Result(TRUE, "", FALSE))
    <3>1. rel'.st = "deployed" /\ rel'.ver = proc[p].n
      BY <2>4 DEF Types
    <3> QED
      BY <1>1, <1>3, <2>1, <2>2, <2>4, <3>1 DEF Describes
  <2> QED
    BY <1>8, <2>3, <2>4 DEF Installed
<1>9. CASE Capture(p)
  BY <1>5, <1>9 DEF Capture
<1>10. CASE Uninstall(p)
  <2>1. proc[p].pc = "uninstall" /\ proc[p].op = "delete"
    BY <1>2, <1>10 DEF Uninstall, Serves
  <2>2. CASE Fail(p)
    BY <1>4, <2>1, <2>2
  <2>3. CASE rel' = Absent /\ (Finish(p, Deleted) \/ Goto(p, "managed"))
    <3>1. rel'.st = "none"
      BY <2>3 DEF Absent
    <3> QED
      BY <1>1, <1>3, <1>5, <2>1, <2>3, <3>1, ResultFields DEF Describes
  <2> QED
    BY <1>10, <2>2, <2>3 DEF Uninstall
<1>11. CASE Managed(p)
  <2>1. proc[p].pc = "managed" /\ UNCHANGED <<rel, ns>> /\ proc[p].op \in {"delete", "flux"}
        /\ (proc[p].op = "delete" => rel.st = "none")
    BY <1>2, <1>11 DEF Managed, Serves, TruthOf
  <2>2. CASE ns.st # "absent" /\ ns.own
    <3>1. proc'[p] = [proc[p] EXCEPT !.seen = ns.inc, !.pc = IF proc[p].op = "flux" THEN "capture" ELSE "nsDelete"]
          /\ proc[p] \in ProcType
      BY <1>11, <2>2, ProcFields DEF Managed, Types
    <3>2. proc'[p].pc \in {"capture", "nsDelete"}
      BY <3>1 DEF ProcType
    <3> QED
      BY <1>1, <2>1, <3>2 DEF TruthOf
  <2>3. CASE ~(ns.st # "absent" /\ ns.own)
    <3>1. Goto(p, "exists") \/ (proc[p].op = "delete" /\ Finish(p, Deleted))
      BY <1>11, <2>1, <2>3 DEF Managed
    <3> QED
      BY <1>1, <1>3, <1>5, <2>1, <3>1, ResultFields DEF Describes
  <2> QED
    BY <2>2, <2>3
<1>12. CASE Exists(p)
  <2>1. proc[p].pc = "exists" /\ proc[p].op = "flux" /\ UNCHANGED <<rel, ns>> /\ (ns.st = "absent" => rel.st = "none")
    BY <1>2, <1>12 DEF Exists, Serves, Types, TypeOK
  <2>2. (ns.st = "absent" /\ Finish(p, Deleted)) \/ Fail(p)
    BY <1>12 DEF Exists
  <2> QED
    BY <1>1, <1>3, <1>4, <2>1, <2>2, ResultFields DEF Describes
<1>13. CASE DeleteNamespace(p)
  <2>1. proc[p].pc = "nsDelete" /\ UNCHANGED rel /\ proc[p].op \in {"delete", "flux"}
        /\ (proc[p].op = "delete" => rel.st = "none")
    BY <1>2, <1>13 DEF DeleteNamespace, Serves, TruthOf
  <2>2. Goto(p, "gone") \/ (proc[p].op = "delete" /\ Finish(p, Deleted)) \/ Fail(p)
    BY <1>13, <2>1 DEF DeleteNamespace
  <2> QED
    BY <1>1, <1>3, <1>4, <1>5, <2>1, <2>2, ResultFields DEF Describes
<1>14. CASE Gone(p)
  <2>1. proc[p].pc = "gone" /\ proc[p].op = "flux" /\ UNCHANGED <<rel, ns>> /\ (ns.st = "absent" => rel.st = "none")
    BY <1>2, <1>14 DEF Gone, Serves, Types, TypeOK
  <2>2. (ns.st = "absent" /\ Finish(p, Deleted)) \/ Finish(p, Result(TRUE, "terminating", FALSE))
    BY <1>14 DEF Gone
  <2>3. Result(TRUE, "terminating", FALSE).env = "terminating"
    BY DEF Result
  <2> QED
    BY <1>1, <1>3, <2>1, <2>2, <2>3, ResultFields DEF Describes
<1>15. CASE HelmStatus(p)
  <2>1. proc[p].pc = "helmStatus" /\ proc[p].op = "status" /\ UNCHANGED <<rel, ns>>
    BY <1>2, <1>15 DEF HelmStatus, Serves
  <2>2. \/ rel.st = "none" /\ \E env \in {"terminated", "not_found"} : Finish(p, Result(TRUE, env, FALSE))
        \/ rel.st = "deployed" /\ Goto(p, "ready")
        \/ Goto(p, "rollback")
        \/ Finish(p, Result(TRUE, "failed", FALSE))
    BY <1>15 DEF HelmStatus
  <2>3. \A env : Result(TRUE, env, FALSE).env = env
    BY DEF Result
  <2>4. CASE rel.st = "none" /\ \E env \in {"terminated", "not_found"} : Finish(p, Result(TRUE, env, FALSE))
    BY <1>1, <1>3, <2>1, <2>3, <2>4 DEF Describes
  <2>5. CASE Finish(p, Result(TRUE, "failed", FALSE))
    <3>1. Result(TRUE, "failed", FALSE).env = "failed"
      BY <2>3
    <3> QED
      BY <1>1, <1>3, <2>1, <2>5, <3>1 DEF Describes
  <2>6. CASE (rel.st = "deployed" /\ Goto(p, "ready")) \/ Goto(p, "rollback")
    BY <1>5, <2>1, <2>6
  <2> QED
    BY <2>2, <2>4, <2>5, <2>6
<1>16. CASE Ready(p)
  <2>1. proc[p].pc = "ready" /\ proc[p].op = "status" /\ UNCHANGED <<rel, ns>>
        /\ (ns.st = "live" /\ ns.inc = proc[p].inc => rel.st = "deployed")
    BY <1>2, <1>16 DEF Ready, Serves, TruthOf
  <2>2. \E env \in {"ready", "creating"} : Finish(p, Result(TRUE, env, FALSE))
    BY <1>16 DEF Ready
  <2>3. \A env : Result(TRUE, env, FALSE).env = env
    BY DEF Result
  <2> QED
    BY <1>1, <1>3, <2>1, <2>2, <2>3 DEF Describes
<1>17. CASE Rollback(p)
  <2>1. proc[p].pc = "rollback" /\ proc[p].op = "status" /\ Finish(p, Result(TRUE, "creating", FALSE))
    BY <1>2, <1>17 DEF Rollback, Serves
  <2>2. Result(TRUE, "creating", FALSE).env = "creating"
    BY DEF Result
  <2> QED
    BY <1>1, <1>3, <2>1, <2>2 DEF Describes
<1>18. CASE CallFails(p)
  BY <1>4, <1>18 DEF CallFails, Calls
<1> QED
  BY <1>6, <1>7, <1>8, <1>9, <1>10, <1>11, <1>12, <1>13, <1>14, <1>15, <1>16, <1>17, <1>18 DEF Execute

\* A poll of the process that runs alone.
LEMMA TruthPoll ==
    ASSUME Types, Route, Exclusive, Truth, NamespaceMoves, ~overrun, NEW p \in Procs, Poll(p)
    PROVE  /\ TruthOf(proc[p])'
           /\ (cmd.st = "done" /\ answer.res.ok => Describes(answer.op, answer.n, answer.inc, answer.res))'
<1> USE DEF cluster
<1>1. RouteOf(proc[p]) /\ TruthOf(proc[p]) /\ cmd.st \in {"queued", "claimed", "done"}
  BY DEF Route, Truth, Types, TypeOK
<1>2. cmd \in [n: 1..MaxCommands, op: Ops, flaw: Flaws, st: {"queued", "claimed", "done"}, att: Nat, gen: 0..MaxLosses,
               deleting: BOOLEAN]
  BY DEF Types, TypeOK
<1>3. CASE Claim(p)
  <2>1. cmd'.st = "claimed"
    BY <1>2, <1>3 DEF Claim
  <2>2. /\ proc'[p].pc \notin {"nsDelete", "ready"} /\ (proc'[p].pc = "managed" => proc'[p].op = "flux")
        /\ proc'[p].res.ok = FALSE
    <3> DEFINE d == Dispatch(cmd.flaw, cmd.op)
    <3>1. /\ proc'[p].pc = d /\ proc'[p].op = cmd.op /\ proc'[p].res = FailedResult
          /\ cmd.op \in Ops /\ cmd.flaw \in Flaws /\ cmd.op \in Carries(cmd.flaw)
      BY <1>3, Claimed
    <3>2. d \notin {"nsDelete", "ready"} /\ (d = "managed" => cmd.op = "flux")
      BY <3>1, DispatchServes
    <3>3. FailedResult.ok = FALSE
      BY ResultFields
    <3> HIDE DEF d
    <3> QED
      BY <3>1, <3>2, <3>3
  <2> QED
    BY <2>1, <2>2 DEF TruthOf
<1>4. CASE Execute(p)
  <2>1. ~Claim(p) /\ cmd' = cmd
    <3>1. proc[p].pc # "idle"
      BY <1>4 DEF Execute, Work, Install, Installed, Capture, Uninstall, Managed, Exists,
         DeleteNamespace, Gone, HelmStatus, Ready, Rollback, CallFails, Calls, At
    <3> QED
      BY <1>4, <3>1, ExecuteLeaves DEF Claim, At
  <2>2. cmd.st = "claimed"
    BY <2>1, Alone
  <2> QED
    BY <1>1, <1>4, <2>1, <2>2, TruthExecute
<1>5. CASE Report(p) \/ Crash(p)
  <2>1. Idle.pc = "idle" /\ UNCHANGED <<rel, ns>>
    BY <1>5 DEF Idle, Report, Crash
  <2>2. TruthOf(proc[p])'
    BY <1>5, <2>1, PollEnds DEF TruthOf
  <2>3. proc[p].pc # "idle" /\ cmd.st = "claimed"
    <3>1. ~Claim(p)
      BY <1>5 DEF Claim, Report, Crash, At
    <3> QED
      BY <3>1, Alone
  <2>4. CASE cmd' = cmd
    BY <2>2, <2>3, <2>4
  <2>5. CASE cmd' # cmd
    <3>1. /\ proc[p].pc = "report"
          /\ answer' = [op |-> proc[p].op, n |-> proc[p].n, inc |-> proc[p].inc, res |-> proc[p].res]
      BY <1>5, <2>5 DEF Report, Crash, At
    <3>2. answer'.op = proc[p].op /\ answer'.n = proc[p].n /\ answer'.inc = proc[p].inc /\ answer'.res = proc[p].res
      BY <3>1
    <3>3. proc[p].res.ok => Describes(proc[p].op, proc[p].n, proc[p].inc, proc[p].res)
      BY <1>1, <3>1 DEF TruthOf
    <3> QED
      BY <2>1, <2>2, <3>2, <3>3 DEF Describes
  <2> QED
    BY <2>4, <2>5
<1> QED
  BY <1>3, <1>4, <1>5 DEF Poll

\* Every step keeps the answers true while no lease expires under a process.
LEMMA TruthStep ==
    ASSUME Types, Route, Cleanup, Exclusive, Truth, Next
    PROVE  Truth'
<1> SUFFICES ASSUME ~overrun' PROVE Truth'
  BY DEF Truth
<1>1. ~overrun /\ ~RenewalsLost
  BY OverrunStays
<1>2. NamespaceMoves
  BY NamespaceSteps
<1>3. CASE External
  <2>1. \A r \in Procs : TruthOf(proc[r])'
    BY <1>1, <1>3, TruthKept DEF Route, Truth
  <2>2. (cmd.st = "done" /\ answer.res.ok => Describes(answer.op, answer.n, answer.inc, answer.res))'
    <3>1. CASE \E o \in Ops, flaw \in Flaws : Issue(o, flaw)
      <4>1. cmd'.st = "queued"
        BY <3>1 DEF Issue
      <4> QED
        BY <4>1
    <3>2. CASE ~\E o \in Ops, flaw \in Flaws : Issue(o, flaw)
      <4>1. answer' = answer
        BY <1>3, <3>2 DEF External, LeaseExpires, RenewalsLost, Retarget, Provision, ForeignTakes, Finalized
      <4>2. cmd'.st = "done" => cmd.st = "done"
        BY <1>3, <3>2 DEF External, LeaseExpires, RenewalsLost, Retarget, Provision, ForeignTakes, Finalized, Types, TypeOK
      <4>3. answer.inc \in Nat /\ answer.inc <= ns.inc
        BY DEF Types, Cleanup
      <4>4. SUFFICES ASSUME cmd.st = "done", answer.res.ok
                     PROVE  Describes(answer.op, answer.n, answer.inc, answer.res)'
        BY <4>1, <4>2
      <4>5. Describes(answer.op, answer.n, answer.inc, answer.res)
        BY <1>1, <4>4 DEF Truth
      <4>6. ASSUME NEW op, NEW n, NEW inc \in Nat, inc <= ns.inc, NEW res, Describes(op, n, inc, res)
            PROVE  Describes(op, n, inc, res)'
        BY <1>3, <4>6, DescribesKept
      <4> QED
        BY <4>1, <4>3, <4>5, <4>6 DEF Describes
    <3> QED
      BY <3>1, <3>2
  <2> QED
    BY <2>1, <2>2 DEF Truth
<1>4. ASSUME NEW p \in Procs, Poll(p) PROVE Truth'
  <2>1. ASSUME NEW r \in Procs PROVE TruthOf(proc[r])'
    <3>1. CASE r = p
      BY <1>1, <1>2, <1>4, <3>1, TruthPoll
    <3>2. CASE r # p
      <4>1. proc'[r].pc = "idle"
        BY <1>1, <1>4, <3>2, Alone
      <4> QED
        BY <4>1 DEF TruthOf
    <3> QED
      BY <3>1, <3>2
  <2>2. (cmd.st = "done" /\ answer.res.ok => Describes(answer.op, answer.n, answer.inc, answer.res))'
    BY <1>1, <1>2, <1>4, TruthPoll
  <2> QED
    BY <2>1, <2>2 DEF Truth
<1> QED
  BY <1>3, <1>4 DEF Next, External, Poll

-----------------------------------------------------------------------------
(* The theorems. *)

\* The initial states satisfy the invariant.
LEMMA Initially ==
    ASSUME Init
    PROVE  IInv
<1>0. /\ flawed = 0 /\ crashes = 0 /\ losses = 0 /\ foreigners = 0
      /\ shared \in BOOLEAN /\ overrun = FALSE
  BY DEF Init
<1>1. proc = [p \in Procs |-> Idle] /\ Idle \in ProcType /\ FailedResult \in Results
      /\ NoAnswer.res = FailedResult /\ NoAnswer.inc = 0 /\ answer = NoAnswer /\ ~overrun
  BY ResultTypes DEF Init
<1>2. Idle.pc = "idle" /\ Idle.flaw = "none" /\ Idle.inc = 0 /\ Idle.res = FailedResult
  BY DEF Idle
<1>3. /\ ns \in [st: {"absent", "live", "terminating"}, own: BOOLEAN, inc: Nat]
      /\ (ns.st # "absent" => ns.inc # 0) /\ ns.inc \in Nat
  <2>1. PICK own \in BOOLEAN : \/ ns = [st |-> "live", own |-> own, inc |-> 1]
                              \/ ns = [st |-> "absent", own |-> own, inc |-> 0]
    BY DEF Init
  <2>2. CASE ns = [st |-> "live", own |-> own, inc |-> 1]
    BY <2>2
  <2>3. CASE ns = [st |-> "absent", own |-> own, inc |-> 0]
    BY <2>3
  <2> QED
    BY <2>1, <2>2, <2>3
<1>4. /\ rel \in [st: {"none", "pending", "deployed", "failed"}, ver: 0..MaxCommands, prev: 0..MaxCommands]
      /\ (ns.st = "absent" => rel.st = "none")
  <2>0. 0 \in 0..MaxCommands /\ 1 \in 0..MaxCommands
    BY CommandsAssumption
  <2>1. CASE rel = Absent
    BY <2>0, <2>1 DEF Absent
  <2>2. CASE rel = [st |-> "deployed", ver |-> 1, prev |-> 0] /\ ns = [st |-> "live", own |-> ~shared, inc |-> 1]
    BY <2>0, <2>2
  <2> QED
    BY <2>1, <2>2 DEF Init
<1>5. /\ cmd \in [n: 1..MaxCommands, op: Ops, flaw: Flaws, st: {"queued", "claimed", "done"}, att: Nat, gen: 0..MaxLosses,
                  deleting: BOOLEAN]
      /\ cmd.op = "render" /\ cmd.flaw = "none" /\ cmd.gen = 0
  <2>1. cmd = [n |-> 1, op |-> "render", flaw |-> "none", st |-> "done", att |-> 1, gen |-> 0, deleting |-> FALSE]
    BY DEF Init
  <2>2. 1 \in 1..MaxCommands /\ 0 \in 0..MaxLosses /\ "render" \in Ops /\ "none" \in Flaws
    BY CommandsAssumption DEF Ops, Flaws
  <2> QED
    BY <2>1, <2>2
<1>6. answer \in [op: Ops \cup {""}, n: 0..MaxCommands, inc: Nat, res: Results]
  <2>1. 0 \in 0..MaxCommands
    BY CommandsAssumption
  <2> QED
    BY <1>1, <2>1 DEF NoAnswer
<1>7. Types
  <2>1. flawed \in 0..MaxFlawed /\ crashes \in 0..MaxCrashes /\ losses \in 0..MaxLosses /\ foreigners \in 0..MaxForeign
        /\ cmd.gen <= losses
    BY <1>0, <1>5, CommandsAssumption
  <2>2. cmd.op \in Carries(cmd.flaw)
    BY <1>5 DEF Carries, Ops, HelmOps
  <2>3. shared \in BOOLEAN /\ overrun \in BOOLEAN
    BY <1>0
  <2>4. \A p \in Procs : proc[p].pc \in Calls \cup {"idle", "installing", "capture", "report"}
    BY <1>1, <1>2
  <2>5. proc \in [Procs -> ProcType]
    BY <1>1
  <2>6. /\ rel.st \in {"none", "pending", "deployed", "failed"} /\ rel.ver \in 0..MaxCommands
        /\ ns.st \in {"absent", "live", "terminating"} /\ ns.own \in BOOLEAN
    BY <1>3, <1>4
  <2>7. TypeOK
    BY <1>4, <1>5, <2>1, <2>3, <2>4, <2>6 DEF TypeOK
  <2> QED
    BY <1>3, <1>4, <1>6, <2>1, <2>2, <2>5, <2>7 DEF Types, ProcType
<1>8. Route
  <2>1. Serves(Idle.pc, Idle.op)
    BY <1>2 DEF Serves
  <2>2. ~Refused(Idle)
    BY <1>2 DEF Refused
  <2>3. Idle.inc <= ns.inc
    BY <1>2, <1>3
  <2>4. RouteOf(Idle)
    BY <1>2, <2>1, <2>2, <2>3 DEF RouteOf
  <2> QED
    BY <1>1, <2>4 DEF Route
<1>9. Cleanup
  <2>1. answer.inc <= ns.inc
    BY <1>1, <1>3
  <2>2. answer.res.verified = FALSE /\ \A p \in Procs : proc[p].res.verified = FALSE
    BY <1>1, <1>2, ResultFields
  <2> QED
    BY <2>1, <2>2 DEF Cleanup
<1>10. Exclusive
  BY <1>1, <1>2 DEF Exclusive
<1>11. Truth
  BY <1>1, <1>2, ResultFields DEF Truth, TruthOf
<1> QED
  BY <1>7, <1>8, <1>9, <1>10, <1>11 DEF IInv

\* Every step keeps the invariant.
LEMMA InductiveStep ==
    ASSUME IInv, [Next]_vars
    PROVE  IInv'
<1>1. CASE Next
  BY <1>1, TypesStep, RouteStep, CleanupStep, ExclusiveStep, TruthStep DEF IInv
<1>2. CASE UNCHANGED vars
  <2> USE <1>2 DEF vars, cluster, budget
  <2>1. Types'
    <3>1. TypeOK'
      BY DEF IInv, Types, TypeOK
    <3> QED
      BY <3>1 DEF IInv, Types
  <2>2. Route'
    BY DEF IInv, Route, RouteOf
  <2>3. Cleanup'
    BY DEF IInv, Cleanup, Certifies
  <2>4. Exclusive'
    BY DEF IInv, Exclusive, Runs
  <2>5. Truth'
    BY DEF IInv, Truth, TruthOf, Describes
  <2> QED
    BY <2>1, <2>2, <2>3, <2>4, <2>5 DEF IInv
<1> QED
  BY <1>1, <1>2

\* The inductive invariant holds in every reachable state.
THEOREM Invariance == Spec => []IInv
  BY Initially, InductiveStep, PTL DEF Spec

\* Every variable keeps its type, and a process is always at a line that the
\* dispatch of executeRunnerCommandWithNamespaceGuard has.
THEOREM TypeCorrect == Spec => []TypeOK
<1>1. IInv => TypeOK
  BY DEF IInv, Types
<1> QED
  BY <1>1, Invariance, PTL

\* The last accepted success of a command describes the cluster as long as no
\* lease has expired under a running process, whatever crashes, loses results or
\* repeats attempts.
THEOREM AnswersHold == Spec => []AnswerHolds
<1>1. IInv => AnswerHolds
  BY DEF IInv, Truth, Describes, AnswerHolds
<1> QED
  BY <1>1, Invariance, PTL

\* CleanupVerified certifies what the delete and the Flux cleanup have seen,
\* overlapping attempts included.
THEOREM CleanupIsCertified == Spec => []CleanupCertified
<1>1. IInv => CleanupCertified
  BY DEF IInv, Cleanup, Certifies, CleanupCertified
<1> QED
  BY <1>1, Invariance, PTL

\* DeleteNamespace only takes a namespace whose labels the process has read, or
\* one that took its name since.
THEOREM OwnNamespaceOnly == Spec => OnlyOwnNamespace
<1> DEFINE A == (ns.st = "live" /\ ns'.st = "terminating") =>
                    \E p \in Procs : /\ At(p, "nsDelete") /\ proc[p].seen # 0
                                     /\ ns.own \/ ns.inc > proc[p].seen
<1>1. ASSUME IInv, [Next]_vars PROVE A
  <2> SUFFICES ASSUME ns.st = "live", ns'.st = "terminating"
               PROVE  \E p \in Procs : /\ At(p, "nsDelete") /\ proc[p].seen # 0
                                       /\ ns.own \/ ns.inc > proc[p].seen
    OBVIOUS
  <2>1. Next
    BY <1>1 DEF vars, cluster
  <2>2. ~External
    BY DEF External, Issue, LeaseExpires, RenewalsLost, Retarget, Provision, ForeignTakes, Finalized, cluster
  <2>3. PICK p \in Procs : Poll(p)
    BY <2>1, <2>2 DEF Next, External, Poll
  <2>4. DeleteNamespace(p)
    BY <2>3 DEF Poll, Claim, Report, Crash, Execute, Work, Install, Installed, Capture, Uninstall, Managed, Exists,
       Gone, HelmStatus, Ready, Rollback, CallFails, Local, OnCluster, cluster
  <2>5. At(p, "nsDelete") /\ proc[p].pc = "nsDelete"
    BY <2>4 DEF DeleteNamespace, At
  <2>6. RouteOf(proc[p])
    BY <1>1 DEF IInv, Route
  <2> QED
    BY <2>5, <2>6 DEF RouteOf
<1>2. IInv /\ [Next]_vars => [A]_vars
  BY <1>1
<1>3. Spec => [][A]_vars
  BY <1>2, Invariance, PTL DEF Spec
<1> QED
  BY <1>3 DEF OnlyOwnNamespace

\* The result that ends a command was echoed with the binding the command was
\* claimed with, and that is the current attempt on the current target.
THEOREM OldResultsRejected == Spec => OldResultRejected
<1> DEFINE A == (cmd.st = "claimed" /\ cmd'.st = "done") =>
                    \E p \in Procs : /\ At(p, "report") /\ proc[p].n = cmd.n
                                     /\ proc[p].att = cmd.att /\ proc[p].gen = cmd.gen
<1>1. ASSUME IInv, [Next]_vars PROVE A
  <2> SUFFICES ASSUME cmd.st = "claimed", cmd'.st = "done"
               PROVE  \E p \in Procs : /\ At(p, "report") /\ proc[p].n = cmd.n
                                       /\ proc[p].att = cmd.att /\ proc[p].gen = cmd.gen
    OBVIOUS
  <2>1. Next
    BY <1>1 DEF vars
  <2>2. ~External
    BY <1>1 DEF External, Issue, LeaseExpires, RenewalsLost, Retarget, Provision, ForeignTakes, Finalized,
       IInv, Types, TypeOK
  <2>3. PICK p \in Procs : Poll(p)
    BY <2>1, <2>2 DEF Next, External, Poll
  <2>4. Report(p)
    BY <2>3 DEF Poll, Claim, Crash, Execute, Work, Install, Installed, Capture, Uninstall, Managed, Exists,
       DeleteNamespace, Gone, HelmStatus, Ready, Rollback, CallFails, Local, OnCluster
  <2>5. At(p, "report") /\ Echo(p) = <<cmd.n, cmd.att, cmd.gen>>
    BY <2>4 DEF Report
  <2> QED
    BY <2>5 DEF Echo
<1>2. IInv /\ [Next]_vars => [A]_vars
  BY <1>1
<1>3. Spec => [][A]_vars
  BY <1>2, Invariance, PTL DEF Spec
<1> QED
  BY <1>3 DEF OldResultRejected

\* No attempt of a command that the dispatch must refuse changes the release or
\* the namespace or is answered as a success.
THEOREM RefusedStaysInert == Spec => RefusedIsInert
<1> DEFINE A == \A p \in Procs :
          (/\ proc[p].flaw # "none" /\ proc'[p] # proc[p]
           /\ ~(proc[p].flaw = "namespace" /\ proc[p].op = "render"))
              => UNCHANGED cluster /\ ~proc'[p].res.ok
<1>1. ASSUME IInv, [Next]_vars PROVE A
  <2> SUFFICES ASSUME NEW p \in Procs, Refused(proc[p]), proc'[p] # proc[p]
               PROVE  UNCHANGED cluster /\ ~proc'[p].res.ok
    BY DEF Refused
  <2>1. proc[p].pc = "report" /\ Types
    BY <1>1 DEF IInv, Route, RouteOf
  <2>2. Next
    BY <1>1 DEF vars
  <2>3. ~External
    BY ExternalStays
  <2>4. PICK r \in Procs : Poll(r)
    BY <2>2, <2>3 DEF Next, External, Poll
  <2>5. r = p
    BY <2>1, <2>4, OthersStay
  <2>6. ~Execute(p) /\ ~Claim(p)
    BY <2>1 DEF Execute, Claim, Work, Install, Installed, Capture, Uninstall, Managed, Exists,
       DeleteNamespace, Gone, HelmStatus, Ready, Rollback, CallFails, Calls, At
  <2>7. Report(p) \/ Crash(p)
    BY <2>4, <2>5, <2>6 DEF Poll
  <2>8. UNCHANGED cluster
    BY <2>7 DEF Report, Crash
  <2>9. Idle.res = FailedResult
    BY DEF Idle
  <2> QED
    BY <2>1, <2>7, <2>8, <2>9, PollEnds, ResultFields
<1>2. IInv /\ [Next]_vars => [A]_vars
  BY <1>1
<1>3. Spec => [][A]_vars
  BY <1>2, Invariance, PTL DEF Spec
<1> QED
  BY <1>3 DEF RefusedIsInert

-----------------------------------------------------------------------------
(* Attempts. *)

\* The process whose result the control plane would take.
Current(p) == Runs(p) /\ proc[p].gen = cmd.gen

\* A command that waits to be claimed, and one that is claimed while no process
\* can answer it, has had a fault for every attempt it was given.
Paid == cmd.att <= crashes + losses

Attempts ==
    /\ RetriesAccounted
    /\ cmd.st = "queued" => Paid
    /\ (cmd.st = "claimed" /\ ~\E p \in Procs : Current(p)) => Paid

\* The numbers that the accounts compare.
LEMMA AccountTypes ==
    ASSUME Types
    PROVE  /\ cmd \in [n: 1..MaxCommands, op: Ops, flaw: Flaws, st: {"queued", "claimed", "done"},
                       att: Nat, gen: 0..MaxLosses, deleting: BOOLEAN]
           /\ cmd.att \in Nat /\ crashes \in Nat /\ losses \in Nat
<1>1. /\ cmd \in [n: 1..MaxCommands, op: Ops, flaw: Flaws, st: {"queued", "claimed", "done"},
                  att: Nat, gen: 0..MaxLosses, deleting: BOOLEAN]
      /\ crashes \in 0..MaxCrashes /\ losses \in 0..MaxLosses
  BY DEF Types, TypeOK
<1>2. crashes \in Nat /\ losses \in Nat
  BY <1>1, CommandsAssumption
<1> QED
  BY <1>1, <1>2

\* A step that is a fault pays for the attempt that it may waste.
LEMMA FaultPays ==
    ASSUME Types, RetriesAccounted, cmd'.att = cmd.att,
           \/ crashes' = crashes + 1 /\ losses' = losses
           \/ crashes' = crashes /\ losses' = losses + 1
    PROVE  Attempts'
<1>1. Paid' /\ RetriesAccounted'
  BY AccountTypes DEF Paid, RetriesAccounted
<1> QED
  BY <1>1 DEF Attempts

\* A step of the control plane or of the cluster keeps the accounts.
LEMMA AttemptsExternal ==
    ASSUME Types, Attempts, External
    PROVE  Attempts'
<1>1. CASE \E op \in Ops, flaw \in Flaws : Issue(op, flaw)
  <2>1. cmd'.att = 0 /\ cmd'.st = "queued" /\ crashes' = crashes /\ losses' = losses
    BY <1>1 DEF Issue
  <2>2. Paid' /\ RetriesAccounted'
    BY <2>1, AccountTypes DEF Paid, RetriesAccounted
  <2> QED
    BY <2>2 DEF Attempts
<1>2. CASE LeaseExpires
  <2>1. Paid /\ cmd'.att = cmd.att /\ crashes' = crashes /\ losses' = losses
    BY <1>2, AccountTypes DEF LeaseExpires, Attempts, Current, budget
  <2>2. Paid' /\ RetriesAccounted'
    BY <2>1, AccountTypes DEF Paid, RetriesAccounted
  <2> QED
    BY <2>2 DEF Attempts
<1>3. CASE RenewalsLost \/ Retarget
  <2>1. cmd'.att = cmd.att /\ crashes' = crashes /\ losses' = losses + 1
    BY <1>3, AccountTypes DEF RenewalsLost, Retarget
  <2> QED
    BY <2>1, FaultPays DEF Attempts
<1>4. CASE Provision \/ ForeignTakes \/ Finalized
  <2>1. UNCHANGED <<cmd, proc, crashes, losses>>
    BY <1>4 DEF Provision, ForeignTakes, Finalized, budget
  <2> QED
    BY <2>1 DEF Attempts, Paid, RetriesAccounted, Current, Runs
<1> QED
  BY <1>1, <1>2, <1>3, <1>4 DEF External

\* The process that claims the command is the one whose result will be taken.
LEMMA AttemptsClaim ==
    ASSUME Types, Attempts, NEW p \in Procs, Claim(p)
    PROVE  Attempts'
<1>1. proc \in [Procs -> ProcType]
  BY DEF Types, ProcType
<1>2. proc'[p].pc = Dispatch(cmd.flaw, cmd.op) /\ proc'[p].n = cmd.n /\ proc'[p].att = cmd.att + 1
  BY Claimed
<1>3. proc'[p].gen = cmd.gen
  BY <1>1 DEF Claim
<1>4. proc'[p].pc # "idle"
  BY <1>2, Claimed, DispatchServes
<1>5. /\ cmd'.st = "claimed" /\ cmd'.att = cmd.att + 1 /\ cmd'.n = cmd.n /\ cmd'.gen = cmd.gen
      /\ crashes' = crashes /\ losses' = losses
  BY AccountTypes DEF Claim, budget
<1>6. Current(p)'
  BY <1>2, <1>3, <1>4, <1>5 DEF Current, Runs
<1>7. Paid
  BY DEF Claim, Attempts
<1>8. RetriesAccounted'
  BY <1>5, <1>7, AccountTypes DEF Paid, RetriesAccounted
<1> QED
  BY <1>5, <1>6, <1>8 DEF Attempts

\* A process that works on its command stays the one it was.
LEMMA AttemptsExecute ==
    ASSUME Types, Attempts, NEW p \in Procs, Execute(p)
    PROVE  Attempts'
<1>1. cmd' = cmd
  BY ExecuteLeaves
<1>2. crashes' = crashes /\ losses' = losses
  BY DEF Execute, Work, Install, Installed, Capture, Uninstall, Managed, Exists,
     DeleteNamespace, Gone, HelmStatus, Ready, Rollback, CallFails, Local, OnCluster, budget
<1>3. ASSUME NEW r \in Procs, Current(r) PROVE Current(r)'
  <2>1. CASE r = p
    BY <1>1, <1>3, <2>1, SameCommand DEF Current, Runs
  <2>2. CASE r # p
    <3>1. proc'[r] = proc[r]
      BY <2>2, OthersStay DEF Poll
    <3> QED
      BY <1>1, <1>3, <3>1 DEF Current, Runs
  <2> QED
    BY <2>1, <2>2
<1>4. Paid => Paid'
  BY <1>1, <1>2 DEF Paid
<1>5. RetriesAccounted'
  BY <1>1, <1>2 DEF Attempts, RetriesAccounted
<1> QED
  BY <1>1, <1>3, <1>4, <1>5 DEF Attempts

\* A result that is taken ends the command, one that is rejected was not the
\* current process's, and one that is lost has been paid for.
LEMMA AttemptsReport ==
    ASSUME Types, Attempts, NEW p \in Procs, Report(p)
    PROVE  Attempts'
<1>1. crashes' = crashes
  BY DEF Report
<1>2. CASE /\ cmd.st = "claimed" /\ cmd' = [cmd EXCEPT !.st = "done"] /\ UNCHANGED losses
  <2>1. cmd'.st = "done" /\ cmd'.att = cmd.att
    BY <1>2, AccountTypes
  <2>2. RetriesAccounted'
    BY <1>1, <1>2, <2>1 DEF Attempts, RetriesAccounted
  <2> QED
    BY <2>1, <2>2 DEF Attempts
<1>3. CASE ~(cmd.st = "claimed" /\ Echo(p) = <<cmd.n, cmd.att, cmd.gen>>) /\ UNCHANGED <<cmd, losses>>
  <2>1. cmd.st = "claimed" => ~Current(p)
    BY <1>3 DEF Current, Runs, Echo
  <2>2. ASSUME cmd.st = "claimed", NEW r \in Procs, Current(r) PROVE Current(r)'
    <3>1. r # p
      BY <2>1, <2>2
    <3>2. proc'[r] = proc[r]
      BY <3>1, OthersStay DEF Poll
    <3> QED
      BY <1>3, <2>2, <3>2 DEF Current, Runs
  <2>3. (Paid => Paid') /\ RetriesAccounted'
    BY <1>1, <1>3 DEF Attempts, Paid, RetriesAccounted
  <2> QED
    BY <1>3, <2>2, <2>3 DEF Attempts
<1>4. CASE losses' = losses + 1 /\ UNCHANGED cmd
  BY <1>1, <1>4, FaultPays DEF Attempts
<1> QED
  BY <1>2, <1>3, <1>4 DEF Report

\* The death of a process pays for the attempt that dies with it.
LEMMA AttemptsCrash ==
    ASSUME Types, Attempts, NEW p \in Procs, Crash(p)
    PROVE  Attempts'
<1>1. crashes' = crashes + 1 /\ losses' = losses /\ cmd' = cmd
  BY DEF Crash
<1> QED
  BY <1>1, FaultPays DEF Attempts

\* A command is executed again only after a fault: the death of a process,
\* renewals or a result that did not arrive, or a new generation of its target.
\* Refusals, calls that fail, executions that overlap and results that come late
\* never cost an attempt.
THEOREM RetriesAreAccounted == Spec => []RetriesAccounted
<1>1. Init => Attempts
  <2> SUFFICES ASSUME Init PROVE Attempts
    OBVIOUS
  <2>1. cmd.st = "done" /\ cmd.att = 1 /\ crashes = 0 /\ losses = 0
    BY DEF Init
  <2>2. RetriesAccounted
    BY <2>1 DEF RetriesAccounted
  <2> QED
    BY <2>1, <2>2 DEF Attempts
<1>2. IInv /\ Attempts /\ [Next]_vars => Attempts'
  <2> SUFFICES ASSUME IInv, Attempts, [Next]_vars PROVE Attempts'
    OBVIOUS
  <2>1. Types
    BY DEF IInv
  <2>2. CASE External
    BY <2>1, <2>2, AttemptsExternal
  <2>3. ASSUME NEW p \in Procs, Poll(p) PROVE Attempts'
    BY <2>1, <2>3, AttemptsClaim, AttemptsExecute, AttemptsReport, AttemptsCrash DEF Poll
  <2>4. CASE UNCHANGED vars
    BY <2>4 DEF vars, budget, Attempts, Paid, RetriesAccounted, Current, Runs
  <2> QED
    BY <2>2, <2>3, <2>4 DEF Next, External, Poll
<1>3. Attempts => RetriesAccounted
  BY DEF Attempts
<1> QED
  BY <1>1, <1>2, <1>3, Invariance, PTL DEF Spec

=============================================================================
