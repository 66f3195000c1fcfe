------------------------- MODULE EnvironmentsProofs -------------------------
(***************************************************************************)
(* Proofs about Environments for any sets of environments and calls and    *)
(* any number of calls, faults and restarts: what a successful Commit has  *)
(* published, that a late Create does not bring a deleted environment      *)
(* back, that nothing is in the branch which nobody knows of, and that a   *)
(* terminated record is true when only deletions were started.             *)
(***************************************************************************)
EXTENDS Environments, TLAPS

(* The inductive invariant. *)

Lines == Inside \cup {"idle", "fail", "save", "prepare", "request", "pending", "undeploy", "ask", "update"}

CallType == [pc : Lines, op : {"", "create", "delete", "status"}, e : Envs, rec : Records, ready : BOOLEAN,
             old : BOOLEAN, earlier : SUBSET Calls, alone : BOOLEAN]

Types ==
    /\ TypeOK
    /\ call \in [Calls -> CallType]
    /\ \A e \in Envs : (mem[e].st = "none" => mem[e] = NoRecord) /\ (file[e].st = "none" => file[e] = NoRecord)

\* Which operation is at which line, and what it knows of its environment.
LineOf(q) ==
    /\ q.alone => q.pc \in Inside
    /\ q.pc \in {"request", "pending", "undeploy"} => q.op = "delete"
    /\ q.pc = "apply" => q.op = "create"
    /\ q.pc \in {"ask", "update"} => q.op = "status" /\ q.rec.st # "none"
    /\ q.pc \in Inside \cup {"prepare", "save", "fail"} => q.op \in {"create", "delete"}
    /\ (q.pc # "idle" /\ q.op = "create") => q.rec = Record("creating", FALSE)
    /\ (q.pc # "idle" /\ q.op # "create") => mem[q.e] # NoRecord

Line == \A c \in Calls : LineOf(call[c])

\* What the workspace of a call that is alone in it holds.
AloneOf(q) ==
    q.alone =>
        /\ q.pc \in {"edit", "apply", "commit"} => head = remote
        /\ q.pc \in {"apply", "commit"} => (q.e \in work <=> q.op = "create")
        /\ q.pc = "push" => (q.e \in head <=> q.op = "create")

Workspace ==
    \A c \in Calls :
        /\ AloneOf(call[c])
        /\ call[c].alone => \A d \in Calls \ {c} : call[d].pc \notin Inside

\* An environment that the store knows of or a call is working on.
Known(e) == mem[e] # NoRecord \/ \E c \in Calls : Active(c) /\ call[c].e = e

NoOrphans ==
    (kind = "json" /\ restarts = 0) => \A e \in remote \cup head \cup idx \cup work : Known(e)

IInv == Types /\ Line /\ Workspace /\ NoOrphans

-----------------------------------------------------------------------------
(* Types, and what a step does to the calls. *)

\* The fields of an idle call and of a missing record.
LEMMA Constants ==
    /\ Idle \in CallType /\ Idle.pc = "idle" /\ Idle.alone = FALSE /\ Idle.rec = NoRecord /\ Idle.earlier = {}
    /\ NoRecord \in Records /\ NoRecord.st = "none" /\ Lost \in [Envs -> Records]
    /\ \A st \in Statuses, v \in BOOLEAN :
          Record(st, v) \in Records /\ Record(st, v).st = st /\ Record(st, v) # NoRecord
<1>1. NoRecord \in Records /\ NoRecord.st = "none"
  BY DEF NoRecord, Record, Records, Statuses, DeleteFamily
<1>2. Lost \in [Envs -> Records]
  BY <1>1 DEF Lost
<1>3. ASSUME NEW st \in Statuses, NEW v \in BOOLEAN
      PROVE  Record(st, v) \in Records /\ Record(st, v).st = st /\ Record(st, v) # NoRecord
  <2>1. Record(st, v) \in Records /\ Record(st, v).st = st
    BY DEF Record, Records
  <2>2. st # "none"
    BY DEF Statuses, DeleteFamily
  <2> QED
    BY <1>1, <2>1, <2>2
<1>4. Idle \in CallType /\ Idle.pc = "idle" /\ Idle.alone = FALSE /\ Idle.rec = NoRecord /\ Idle.earlier = {}
  BY <1>1, EnvironmentsAssumption DEF Idle, CallType, Lines, Inside
<1> QED
  BY <1>1, <1>2, <1>3, <1>4

\* The fields of a call.
LEMMA Fields ==
    ASSUME Types, NEW c \in Calls
    PROVE  /\ call[c] \in CallType /\ call[c].e \in Envs /\ call[c].rec \in Records /\ call[c].pc \in Lines
           /\ call[c].alone \in BOOLEAN /\ call[c].earlier \subseteq Calls \ {c}
  BY DEF Types, CallType, TypeOK

\* A call goes to another line.
LEMMA GotoFields ==
    ASSUME Types, NEW c \in Calls, NEW pc \in Lines, Goto(c, pc)
    PROVE  /\ call' \in [Calls -> CallType] /\ \A d \in Calls \ {c} : call'[d] = call[d]
           /\ call'[c].pc = pc /\ call'[c].op = call[c].op /\ call'[c].e = call[c].e /\ call'[c].rec = call[c].rec
           /\ call'[c].earlier = call[c].earlier /\ (call'[c].alone <=> call[c].alone /\ pc \in Inside)
<1> DEFINE q == [call[c] EXCEPT !.pc = pc, !.ready = @ /\ pc \in Inside, !.alone = @ /\ pc \in Inside]
<1>1. call \in [Calls -> CallType] /\ call[c] \in CallType
  BY DEF Types
<1>2. call' = [call EXCEPT ![c] = q]
  BY <1>1 DEF Goto
<1>3. q \in CallType /\ q.pc = pc /\ q.op = call[c].op /\ q.e = call[c].e /\ q.rec = call[c].rec
      /\ q.earlier = call[c].earlier
  BY <1>1 DEF CallType
<1>4. q.alone <=> call[c].alone /\ pc \in Inside
  BY <1>1 DEF CallType
<1> HIDE DEF q
<1> QED
  BY <1>1, <1>2, <1>3, <1>4

\* A call enters the workspace.
LEMMA EnterFields ==
    ASSUME Types, NEW c \in Calls, NEW clean \in BOOLEAN, Enter(c, clean)
    PROVE  /\ call' \in [Calls -> CallType]
           /\ \A d \in Calls \ {c} : call'[d] = [call[d] EXCEPT !.alone = FALSE]
           /\ call'[c].pc = "edit" /\ call'[c].op = call[c].op /\ call'[c].e = call[c].e /\ call'[c].rec = call[c].rec
           /\ call'[c].earlier = call[c].earlier
           /\ call'[c].alone => clean /\ \A d \in Calls \ {c} : call[d].pc \notin Inside
<1> DEFINE busy == \E d \in Calls \ {c} : call[d].pc \in Inside
           q == [call[c] EXCEPT !.pc = "edit", !.ready = TRUE, !.alone = clean /\ ~busy]
<1>1. call \in [Calls -> CallType] /\ call[c] \in CallType
  BY DEF Types
<1>2. call' = [d \in Calls |-> IF d = c THEN q ELSE [call[d] EXCEPT !.alone = FALSE]]
  BY DEF Enter
<1>3. "edit" \in Lines
  BY DEF Lines, Inside
<1>4. busy \in BOOLEAN
  OBVIOUS
<1> HIDE DEF busy
<1>5. q \in CallType /\ q.pc = "edit" /\ q.op = call[c].op /\ q.e = call[c].e /\ q.rec = call[c].rec
      /\ q.earlier = call[c].earlier /\ (q.alone <=> clean /\ ~busy)
  BY <1>1, <1>3, <1>4 DEF CallType
<1>6. \A d \in Calls : [call[d] EXCEPT !.alone = FALSE] \in CallType
  BY <1>1 DEF CallType
<1> HIDE DEF q
<1>7. call'[c] = q /\ \A d \in Calls \ {c} : call'[d] = [call[d] EXCEPT !.alone = FALSE]
  BY <1>2
<1>8. call' \in [Calls -> CallType]
  BY <1>2, <1>5, <1>6
<1>9. ~busy => \A d \in Calls \ {c} : call[d].pc \notin Inside
  BY DEF busy
<1> QED
  BY <1>5, <1>7, <1>8, <1>9

\* What Save does: the others keep all but the age of their record.
Saved(c, e, rec, old, next) ==
    /\ call' \in [Calls -> CallType] /\ call'[c] = next
    /\ \A d \in Calls \ {c} : call'[d] \in {call[d], [call[d] EXCEPT !.old = TRUE]}
    /\ mem' \in [Envs -> Records] /\ file' \in [Envs -> Records]
    /\ \A d \in Envs : (mem'[d].st = "none" => mem'[d] = NoRecord) /\ (file'[d].st = "none" => file'[d] = NoRecord)
    /\ \A d \in Envs : mem[d] # NoRecord => mem'[d] # NoRecord
    /\ kind = "json" => mem'[e] # NoRecord
    /\ \A d \in Envs : mem'[d] # mem[d] => d = e /\ mem'[d] = rec /\ (~old \/ mem[e] = NoRecord)
    /\ faults' = faults \/ Fault

\* A call saves a record.
LEMMA SaveFields ==
    ASSUME Types, NEW c \in Calls, NEW e \in Envs, NEW rec \in Records, rec.st # "none", NEW old, NEW late,
           NEW next \in CallType, Save(c, e, rec, old, late, next)
    PROVE  Saved(c, e, rec, old, next)
<1> USE DEF records
<1>1. call \in [Calls -> CallType] /\ mem \in [Envs -> Records] /\ file \in [Envs -> Records]
      /\ \A d \in Envs : (mem[d].st = "none" => mem[d] = NoRecord) /\ (file[d].st = "none" => file[d] = NoRecord)
  BY DEF Types, TypeOK
<1>2. NoRecord.st = "none" /\ Lost \in [Envs -> Records] /\ \A d \in Envs : Lost[d] = NoRecord
  BY Constants DEF Lost
<1>3. faults' = faults \/ Fault
  BY DEF Save, NoFault
<1>4. \/ mem' = mem /\ file' = file
      \/ mem' = [mem EXCEPT ![e] = rec] /\ file' \in {file, Lost, mem'} /\ (~old \/ mem[e] = NoRecord)
  BY DEF Save
<1>5. \/ call' = [call EXCEPT ![c] = next]
      \/ call' = Stored(c, next, late)
  BY DEF Save
<1>6. kind = "json" => mem[e] # NoRecord \/ mem' = [mem EXCEPT ![e] = rec]
  BY DEF Save
<1>7. \A d \in Calls : [call[d] EXCEPT !.old = TRUE] \in CallType
  BY <1>1 DEF CallType
<1>8. ASSUME call' = Stored(c, next, late)
      PROVE  /\ call' \in [Calls -> CallType] /\ call'[c] = next
             /\ \A d \in Calls \ {c} : call'[d] \in {call[d], [call[d] EXCEPT !.old = TRUE]}
  BY <1>1, <1>7, <1>8 DEF Stored
<1>9. /\ call' \in [Calls -> CallType] /\ call'[c] = next
      /\ \A d \in Calls \ {c} : call'[d] \in {call[d], [call[d] EXCEPT !.old = TRUE]}
  BY <1>1, <1>5, <1>8
<1>10. /\ mem' \in [Envs -> Records] /\ file' \in [Envs -> Records]
       /\ \A d \in Envs : (mem'[d].st = "none" => mem'[d] = NoRecord) /\ (file'[d].st = "none" => file'[d] = NoRecord)
  BY <1>1, <1>2, <1>4
<1>11. /\ \A d \in Envs : mem[d] # NoRecord => mem'[d] # NoRecord
       /\ \A d \in Envs : mem'[d] # mem[d] => d = e /\ mem'[d] = rec /\ (~old \/ mem[e] = NoRecord)
  BY <1>1, <1>2, <1>4
<1>12. kind = "json" => mem'[e] # NoRecord
  BY <1>1, <1>2, <1>6, <1>11
<1> QED
  BY <1>3, <1>9, <1>10, <1>11, <1>12 DEF Saved

\* What every step of a call does to the calls and the records.
Effect(c) ==
    /\ call' \in [Calls -> CallType] /\ call'[c].earlier \subseteq Calls \ {c}
    /\ \A d \in Calls \ {c} :
          /\ call'[d].pc = call[d].pc /\ call'[d].op = call[d].op /\ call'[d].e = call[d].e
          /\ call'[d].rec = call[d].rec /\ call'[d].earlier = call[d].earlier /\ (call'[d].alone => call[d].alone)
    /\ mem' \in [Envs -> Records] /\ file' \in [Envs -> Records]
    /\ \A e \in Envs : (mem'[e].st = "none" => mem'[e] = NoRecord) /\ (file'[e].st = "none" => file'[e] = NoRecord)
    /\ \A e \in Envs : mem[e] # NoRecord => mem'[e] # NoRecord
    /\ \/ ~Active(c)
       \/ call'[c].pc # "idle" /\ call'[c].e = call[c].e
       \/ kind = "json" => mem'[call[c].e] # NoRecord
    /\ LineOf(call[c])'
    /\ UNCHANGED <<config, restarts>> /\ (faults' = faults \/ Fault)

SaveSteps(c) == SaveCreated(c) \/ Fail(c) \/ Request(c) \/ Pending(c) \/ SaveDeleted(c) \/ UpdateStatus(c)

\* A step that saves and then ends the call or goes on to a later line.
LEMMA SaveEffect ==
    ASSUME Types, Line, Workspace, NEW c \in Calls, NEW rec \in Records, rec.st # "none", NEW old, NEW late,
           NEW pc \in {"idle", "pending", "undeploy", "prepare"}, call[c].pc \in Lines \ (Inside \cup {"idle"}),
           pc # "idle" => call[c].op = "delete",
           NEW next, next = IF pc = "idle" THEN Idle ELSE [call[c] EXCEPT !.pc = pc],
           Save(c, call[c].e, rec, old, late, next), UNCHANGED <<config, restarts>>
    PROVE  Effect(c) /\ call'[c].pc = pc
<1>1. call[c] \in CallType /\ call[c].e \in Envs /\ call[c].earlier \subseteq Calls \ {c}
  BY Fields
<1>2. /\ next \in CallType /\ next.pc = pc /\ next.earlier \subseteq Calls \ {c} /\ next.alone = FALSE
      /\ pc # "idle" => next.e = call[c].e /\ next.op = "delete"
  <2>1. CASE pc = "idle"
    BY <2>1, Constants
  <2>2. CASE pc # "idle"
    <3>1. pc \in Lines
      BY <2>2 DEF Lines
    <3>2. next = [call[c] EXCEPT !.pc = pc]
      BY <2>2
    <3>3. /\ next \in CallType /\ next.pc = pc /\ next.earlier = call[c].earlier /\ next.e = call[c].e
          /\ next.op = call[c].op /\ next.alone = call[c].alone
      BY <1>1, <3>1, <3>2 DEF CallType
    <3>4. call[c].alone = FALSE
      BY <1>1 DEF Line, LineOf, CallType
    <3> QED
      BY <1>1, <2>2, <3>3, <3>4
  <2> QED
    BY <2>1, <2>2
<1>3. /\ call' \in [Calls -> CallType] /\ call'[c] = next
      /\ \A d \in Calls \ {c} : call'[d] \in {call[d], [call[d] EXCEPT !.old = TRUE]}
      /\ mem' \in [Envs -> Records] /\ file' \in [Envs -> Records]
      /\ \A d \in Envs : (mem'[d].st = "none" => mem'[d] = NoRecord) /\ (file'[d].st = "none" => file'[d] = NoRecord)
      /\ \A d \in Envs : mem[d] # NoRecord => mem'[d] # NoRecord
      /\ kind = "json" => mem'[call[c].e] # NoRecord
      /\ faults' = faults \/ Fault
  <2>1. Saved(c, call[c].e, rec, old, next)
    BY <1>1, <1>2, SaveFields
  <2> QED
    BY <2>1 DEF Saved
<1>4. ASSUME NEW d \in Calls \ {c}
      PROVE  /\ call'[d].pc = call[d].pc /\ call'[d].op = call[d].op /\ call'[d].e = call[d].e
             /\ call'[d].rec = call[d].rec /\ call'[d].earlier = call[d].earlier /\ (call'[d].alone => call[d].alone)
  <2>1. call[d] \in CallType
    BY Fields
  <2>2. LET q == [call[d] EXCEPT !.old = TRUE]
        IN  q.pc = call[d].pc /\ q.op = call[d].op /\ q.e = call[d].e /\ q.rec = call[d].rec
            /\ q.earlier = call[d].earlier /\ q.alone = call[d].alone
    BY <2>1 DEF CallType
  <2> QED
    BY <1>3, <2>2
<1>5. LineOf(call[c])'
  <2>1. CASE pc = "idle"
    BY <1>2, <1>3, <2>1 DEF LineOf, Inside
  <2>2. CASE pc # "idle"
    <3>1. mem[call[c].e] # NoRecord
      BY <2>2 DEF Line, LineOf
    <3>2. mem'[call'[c].e] # NoRecord
      BY <1>1, <1>2, <1>3, <2>2, <3>1
    <3> QED
      BY <1>2, <1>3, <2>2, <3>2 DEF LineOf, Inside
  <2> QED
    BY <2>1, <2>2
<1> QED
  BY <1>2, <1>3, <1>4, <1>5 DEF Effect

\* The steps that save.
LEMMA Saves ==
    ASSUME Types, Line, Workspace, NEW c \in Calls,
           SaveSteps(c) \/ Ask(c)
    PROVE  /\ Effect(c) /\ call'[c].pc \in {"idle", "pending", "undeploy", "prepare"}
           /\ UNCHANGED <<trees, once, rel, starts>>
<1> USE DEF At, Active
<1>1. UNCHANGED <<trees, once, rel, starts>> /\ UNCHANGED <<config, restarts>>
  BY DEF SaveSteps, SaveCreated, Fail, Request, Pending, SaveDeleted, UpdateStatus, Ask
<1>2. call[c] \in CallType /\ call[c].rec \in Records /\ LineOf(call[c]) /\ call[c].e \in Envs
  BY Fields DEF Line
<1>3. call[c].rec.verified \in BOOLEAN /\ call[c].rec.st \in Statuses \cup {"none"}
  BY <1>2 DEF Records
<1>4. {"creating", "failed", "deleteFailed", "deleteRequested", "deletePending", "terminated", "ready"} \subseteq Statuses
      /\ "none" \notin Statuses
  BY DEF Statuses, DeleteFamily
<1>5. ASSUME NEW st \in Statuses, NEW v \in BOOLEAN PROVE Record(st, v) \in Records /\ Record(st, v).st # "none"
  BY <1>4, <1>5, Constants
<1>6. {"save", "fail", "request", "pending", "ask", "update"} \subseteq Lines \ (Inside \cup {"idle"})
  BY DEF Lines, Inside
<1>7. ASSUME NEW rec \in Records, rec.st # "none", NEW old, NEW late, call[c].pc \in Lines \ (Inside \cup {"idle"}),
             Save(c, call[c].e, rec, old, late, Idle)
      PROVE  Effect(c) /\ call'[c].pc = "idle"
  BY <1>1, <1>7, SaveEffect
<1>8. CASE SaveCreated(c)
  <2>1. call[c].rec = Record("creating", FALSE)
    BY <1>2, <1>8 DEF SaveCreated, LineOf
  <2> QED
    BY <1>1, <1>4, <1>5, <1>6, <1>7, <1>8, <2>1 DEF SaveCreated
<1>9. CASE Fail(c)
  BY <1>1, <1>4, <1>5, <1>6, <1>7, <1>9 DEF Fail, SaveNow
<1>10. CASE SaveDeleted(c)
  BY <1>1, <1>4, <1>5, <1>6, <1>7, <1>10 DEF SaveDeleted, SaveNow
<1>11. CASE UpdateStatus(c)
  BY <1>1, <1>3, <1>4, <1>5, <1>6, <1>7, <1>11 DEF UpdateStatus, SaveNow
<1>12. CASE Request(c)
  <2>1. call[c].op = "delete"
    BY <1>2, <1>12 DEF Request, LineOf
  <2>2. Save(c, call[c].e, Record("deleteRequested", FALSE), FALSE, Creating(call[c].e),
             [call[c] EXCEPT !.pc = "pending"])
    BY <1>12 DEF Request, SaveNow
  <2>3. Record("deleteRequested", FALSE) \in Records /\ Record("deleteRequested", FALSE).st # "none"
    BY <1>4, <1>5
  <2>4. call[c].pc \in Lines \ (Inside \cup {"idle"})
    BY <1>6, <1>12 DEF Request
  <2>5. Effect(c) /\ call'[c].pc = "pending"
    BY <1>1, <2>1, <2>2, <2>3, <2>4, SaveEffect
  <2> QED
    BY <1>1, <2>5
<1>13. CASE Pending(c)
  <2> DEFINE pc == IF backend = "helm" THEN "undeploy" ELSE "prepare"
  <2>1. call[c].op = "delete"
    BY <1>2, <1>13 DEF Pending, LineOf
  <2>2. Save(c, call[c].e, Record("deletePending", FALSE), FALSE, Creating(call[c].e),
             [call[c] EXCEPT !.pc = pc])
    BY <1>13 DEF Pending, SaveNow
  <2>3. Record("deletePending", FALSE) \in Records /\ Record("deletePending", FALSE).st # "none"
    BY <1>4, <1>5
  <2>4. call[c].pc \in Lines \ (Inside \cup {"idle"}) /\ pc \in {"undeploy", "prepare"}
    BY <1>6, <1>13 DEF Pending
  <2> HIDE DEF pc
  <2>5. Effect(c) /\ call'[c].pc = pc
    BY <1>1, <2>1, <2>2, <2>3, <2>4, SaveEffect
  <2> QED
    BY <1>1, <2>4, <2>5
<1>14. CASE Ask(c)
  <2>1. call[c].rec.st \in Statuses /\ mem[call[c].e] # NoRecord
    BY <1>2, <1>3, <1>14 DEF Ask, LineOf
  <2>2. Answers(c) \subseteq Statuses
    BY <2>1 DEF Answers, Statuses, DeleteFamily
  <2>3. CASE \E st \in Answers(c) : SaveNow(c, call[c].e, Record(st, call[c].rec.verified), Idle)
    BY <1>1, <1>3, <1>5, <1>6, <1>7, <1>14, <2>2, <2>3 DEF Ask, SaveNow
  <2>4. CASE Fault /\ call' = [call EXCEPT ![c] = Idle] /\ UNCHANGED records
    <3>1. call \in [Calls -> CallType] /\ mem \in [Envs -> Records] /\ file \in [Envs -> Records]
          /\ \A e \in Envs : (mem[e].st = "none" => mem[e] = NoRecord) /\ (file[e].st = "none" => file[e] = NoRecord)
      BY DEF Types, TypeOK
    <3>2. call' \in [Calls -> CallType] /\ call'[c] = Idle /\ \A d \in Calls \ {c} : call'[d] = call[d]
      BY <2>4, <3>1, Constants
    <3>3. LineOf(call[c])' /\ call'[c].earlier = {} /\ call'[c].pc = "idle"
      BY <3>2, Constants DEF LineOf, Inside
    <3>4. UNCHANGED <<mem, file>>
      BY <2>4 DEF records
    <3>5. Effect(c)
      BY <1>1, <2>1, <2>4, <3>1, <3>2, <3>3, <3>4 DEF Effect
    <3> QED
      BY <1>1, <3>3, <3>5
  <2> QED
    BY <1>14, <2>3, <2>4 DEF Ask
<1> QED
  BY <1>8, <1>9, <1>10, <1>11, <1>12, <1>13, <1>14 DEF SaveSteps

\* A step that leaves the records alone and goes to another line.
LEMMA GotoEffect ==
    ASSUME Types, Line, NEW c \in Calls, NEW pc \in Lines \ {"idle", "ask", "update", "request", "pending", "undeploy"},
           Goto(c, pc), call[c].op \in {"create", "delete"}, pc = "apply" => call[c].op = "create", Active(c),
           UNCHANGED <<config, records, restarts>>, faults' = faults \/ Fault
    PROVE  /\ Effect(c) /\ call'[c].pc = pc /\ call'[c].op = call[c].op /\ call'[c].e = call[c].e
           /\ (call'[c].alone <=> call[c].alone /\ pc \in Inside)
<1>1. /\ call' \in [Calls -> CallType] /\ \A d \in Calls \ {c} : call'[d] = call[d]
      /\ call'[c].pc = pc /\ call'[c].op = call[c].op /\ call'[c].e = call[c].e /\ call'[c].rec = call[c].rec
      /\ call'[c].earlier = call[c].earlier /\ (call'[c].alone <=> call[c].alone /\ pc \in Inside)
  BY GotoFields
<1>2. /\ mem \in [Envs -> Records] /\ file \in [Envs -> Records] /\ UNCHANGED <<mem, file>>
      /\ \A e \in Envs : (mem[e].st = "none" => mem[e] = NoRecord) /\ (file[e].st = "none" => file[e] = NoRecord)
  BY DEF Types, TypeOK, records
<1>3. LineOf(call[c]) /\ call[c].earlier \subseteq Calls \ {c}
  BY Fields DEF Line
<1>4. LineOf(call[c])'
  BY <1>1, <1>2, <1>3 DEF LineOf, Active
<1> QED
  BY <1>1, <1>2, <1>3, <1>4 DEF Effect

\* The same for a call that enters the workspace.
LEMMA EnterEffect ==
    ASSUME Types, Line, NEW c \in Calls, NEW clean \in BOOLEAN, Enter(c, clean), At(c, "prepare"),
           UNCHANGED <<config, records, restarts, faults>>
    PROVE  /\ Effect(c) /\ call'[c].pc = "edit" /\ \A d \in Calls \ {c} : call'[d].alone = FALSE
           /\ call'[c].alone => clean /\ \A d \in Calls \ {c} : call[d].pc \notin Inside
<1>1. /\ call' \in [Calls -> CallType] /\ \A d \in Calls \ {c} : call'[d] = [call[d] EXCEPT !.alone = FALSE]
      /\ call'[c].pc = "edit" /\ call'[c].op = call[c].op /\ call'[c].e = call[c].e /\ call'[c].rec = call[c].rec
      /\ call'[c].earlier = call[c].earlier
      /\ call'[c].alone => clean /\ \A d \in Calls \ {c} : call[d].pc \notin Inside
  BY EnterFields
<1>2. /\ mem \in [Envs -> Records] /\ file \in [Envs -> Records] /\ UNCHANGED <<mem, file>>
      /\ \A e \in Envs : (mem[e].st = "none" => mem[e] = NoRecord) /\ (file[e].st = "none" => file[e] = NoRecord)
  BY DEF Types, TypeOK, records
<1>3. LineOf(call[c]) /\ call[c].earlier \subseteq Calls \ {c} /\ call[c].pc = "prepare"
  BY Fields DEF Line, At
<1>4. LineOf(call[c])'
  BY <1>1, <1>2, <1>3 DEF LineOf, Inside
<1>5. ASSUME NEW d \in Calls \ {c}
      PROVE  /\ call'[d].pc = call[d].pc /\ call'[d].op = call[d].op /\ call'[d].e = call[d].e
             /\ call'[d].rec = call[d].rec /\ call'[d].earlier = call[d].earlier /\ call'[d].alone = FALSE
  <2>1. call[d] \in CallType /\ call'[d] = [call[d] EXCEPT !.alone = FALSE]
    BY <1>1, Fields
  <2> QED
    BY <2>1 DEF CallType
<1> QED
  BY <1>1, <1>2, <1>3, <1>4, <1>5 DEF Effect

TreeSteps(c) == Edit(c) \/ Commit(c) \/ Push(c) \/ Apply(c)

\* The steps inside the workspace.
LEMMA Trees ==
    ASSUME Types, Line, NEW c \in Calls, TreeSteps(c)
    PROVE  /\ Effect(c) /\ call[c].pc \in Inside
           /\ call'[c].pc # "idle" /\ call'[c].op = call[c].op /\ call'[c].e = call[c].e
           /\ (call'[c].alone <=> call[c].alone /\ call'[c].pc \in Inside)
<1> USE DEF At
<1>1. call[c].op \in {"create", "delete"} /\ Active(c) /\ call[c].pc \in Inside
  <2>1. call[c].pc \in Inside /\ LineOf(call[c])
    BY DEF TreeSteps, Edit, Commit, Push, Apply, Line, Inside
  <2> QED
    BY <2>1 DEF LineOf, Active, Inside
<1>2. PICK pc \in {"apply", "commit", "push", "save", "fail"} : Goto(c, pc) /\ (pc = "apply" => call[c].op = "create")
  <2>1. CASE Edit(c)
    BY <2>1 DEF Edit, Fails
  <2>2. CASE Commit(c)
    BY <2>2 DEF Commit, Fails
  <2>3. CASE Push(c)
    BY <2>3 DEF Push, Fails
  <2>4. CASE Apply(c)
    BY <2>4 DEF Apply, Fails
  <2> QED
    BY <2>1, <2>2, <2>3, <2>4 DEF TreeSteps
<1>3. UNCHANGED <<config, records, restarts>> /\ (faults' = faults \/ Fault)
  BY DEF TreeSteps, Edit, Commit, Push, Apply, Fails, NoFault
<1>4. pc \in Lines \ {"idle", "ask", "update", "request", "pending", "undeploy"}
  BY DEF Lines, Inside
<1> QED
  BY <1>1, <1>2, <1>3, <1>4, GotoEffect

\* Entering the workspace, or failing to; the release goes.
LEMMA Preparations ==
    ASSUME Types, Line, NEW c \in Calls, Prepare(c) \/ Undeploy(c)
    PROVE  /\ Effect(c) /\ call[c].pc \notin Inside /\ call'[c].pc # "idle"
           /\ \/ call'[c].pc \notin Inside /\ UNCHANGED trees
              \/ /\ \A d \in Calls \ {c} : call'[d].alone = FALSE
                 /\ call'[c].pc = "edit"
                 /\ call'[c].alone => head' = remote' /\ \A d \in Calls \ {c} : call[d].pc \notin Inside
                 /\ UNCHANGED trees \/ (head' = remote /\ idx' = remote /\ work' = remote \cup (work \ idx) /\ remote' = remote)
<1> USE DEF At
<1>1. LineOf(call[c]) /\ call[c].pc \in {"prepare", "undeploy"}
  BY DEF Prepare, Undeploy, Line
<1>2. call[c].pc \notin Inside /\ call[c].op \in {"create", "delete"} /\ Active(c)
  BY <1>1 DEF LineOf, Inside, Active
<1>3. UNCHANGED <<config, records, restarts>> /\ (faults' = faults \/ Fault)
  BY DEF Prepare, Undeploy, Fails, NoFault
<1>4. CASE (Goto(c, "fail") \/ Goto(c, "prepare")) /\ UNCHANGED trees
  <2>1. {"fail", "prepare"} \subseteq Lines \ ({"idle", "ask", "update", "request", "pending", "undeploy"} \cup Inside)
    BY DEF Lines, Inside
  <2> QED
    BY <1>2, <1>3, <1>4, <2>1, GotoEffect
<1>5. CASE Prepare(c) /\ Enter(c, head = remote) /\ UNCHANGED trees /\ NoFault
  <2>1. PICK clean \in BOOLEAN : clean <=> head = remote
    OBVIOUS
  <2>2. Enter(c, clean) /\ call[c].pc = "prepare"
    BY <1>5, <2>1 DEF Enter, Prepare
  <2>3. /\ Effect(c) /\ call'[c].pc = "edit" /\ \A d \in Calls \ {c} : call'[d].alone = FALSE
        /\ call'[c].alone => clean /\ \A d \in Calls \ {c} : call[d].pc \notin Inside
    BY <1>3, <1>5, <2>2, EnterEffect DEF NoFault
  <2>4. UNCHANGED <<head, remote>>
    BY <1>5 DEF trees
  <2> QED
    BY <1>2, <1>5, <2>1, <2>3, <2>4
<1>6. CASE Prepare(c) /\ Enter(c, TRUE) /\ NoFault
           /\ head' = remote /\ idx' = remote /\ work' = remote \cup (work \ idx) /\ remote' = remote
  <2>1. call[c].pc = "prepare"
    BY <1>6 DEF Prepare
  <2>2. /\ Effect(c) /\ call'[c].pc = "edit" /\ \A d \in Calls \ {c} : call'[d].alone = FALSE
        /\ call'[c].alone => \A d \in Calls \ {c} : call[d].pc \notin Inside
    BY <1>3, <1>6, <2>1, EnterEffect DEF NoFault
  <2> QED
    BY <1>2, <1>6, <2>2
<1> QED
  BY <1>4, <1>5, <1>6 DEF Prepare, Undeploy, Fails

\* A call that begins.
LEMMA Starts ==
    ASSUME Types, Line, NEW c \in Calls, NEW e \in Envs, StartCreate(c, e) \/ StartDelete(c, e) \/ StartStatus(c, e)
    PROVE  /\ Effect(c) /\ call[c].pc = "idle" /\ call'[c].pc \notin Inside
           /\ UNCHANGED <<trees, once, rel>> /\ (starts' = starts \/ Start)
<1> USE DEF Active
<1>1. /\ mem \in [Envs -> Records] /\ file \in [Envs -> Records] /\ call \in [Calls -> CallType]
      /\ \A d \in Envs : (mem[d].st = "none" => mem[d] = NoRecord) /\ (file[d].st = "none" => file[d] = NoRecord)
  BY DEF Types, TypeOK
<1>2. UNCHANGED <<config, records, trees, once, rel, restarts>> /\ call[c].pc = "idle"
      /\ (faults' = faults \/ Fault) /\ (starts' = starts \/ Start)
  BY DEF StartCreate, StartDelete, StartStatus, NoFault
<1>3. PICK q : /\ call' = [call EXCEPT ![c] = q] /\ q \in CallType /\ q.earlier \subseteq Calls \ {c}
               /\ q.pc \in {"prepare", "fail", "request", "ask", "update"} /\ q.e = e /\ q.alone = FALSE
               /\ q.pc \in {"prepare", "fail"} => q.op = "create" /\ q.rec = Record("creating", FALSE)
               /\ q.pc = "request" => q.op = "delete" /\ mem[e] # NoRecord
               /\ q.pc \in {"ask", "update"} => q.op = "status" /\ q.rec.st # "none" /\ mem[e] # NoRecord
  <2>1. Idle \in CallType /\ Idle.earlier = {} /\ Idle.alone = FALSE
    BY Constants
  <2>2. {"prepare", "fail", "request", "ask", "update"} \subseteq Lines
    BY DEF Lines
  <2>3. CASE StartCreate(c, e)
    <3>1. PICK pc \in {"prepare", "fail"} :
              call' = [call EXCEPT ![c] = [Idle EXCEPT !.pc = pc, !.op = "create", !.e = e,
                                                       !.rec = Record("creating", FALSE), !.earlier = Creating(e)]]
      BY <2>3 DEF StartCreate
    <3>2. Creating(e) \subseteq Calls \ {c}
      BY <1>2 DEF Creating
    <3>3. Record("creating", FALSE) \in Records
      BY Constants DEF Statuses
    <3> DEFINE q == [Idle EXCEPT !.pc = pc, !.op = "create", !.e = e,
                                 !.rec = Record("creating", FALSE), !.earlier = Creating(e)]
    <3>4. /\ q \in CallType /\ q.earlier \subseteq Calls \ {c} /\ q.pc = pc /\ q.e = e /\ q.alone = FALSE
          /\ q.op = "create" /\ q.rec = Record("creating", FALSE)
      BY <2>1, <2>2, <3>2, <3>3 DEF CallType
    <3>5. call' = [call EXCEPT ![c] = q]
      BY <3>1
    <3> HIDE DEF q
    <3> QED
      BY <3>4, <3>5
  <2>4. CASE StartDelete(c, e)
    <3> DEFINE q == [Idle EXCEPT !.pc = "request", !.op = "delete", !.e = e]
    <3>1. call' = [call EXCEPT ![c] = q] /\ mem[e] # NoRecord
      BY <2>4 DEF StartDelete
    <3>2. q \in CallType /\ q.earlier = {} /\ q.pc = "request" /\ q.e = e /\ q.alone = FALSE /\ q.op = "delete"
      BY <2>1, <2>2 DEF CallType
    <3> HIDE DEF q
    <3> QED
      BY <3>1, <3>2
  <2>5. CASE StartStatus(c, e)
    <3>1. PICK pc \in {"ask", "update"} :
              call' = [call EXCEPT ![c] = [Idle EXCEPT !.pc = pc, !.op = "status", !.e = e, !.rec = mem[e]]]
      BY <2>5 DEF StartStatus
    <3> DEFINE q == [Idle EXCEPT !.pc = pc, !.op = "status", !.e = e, !.rec = mem[e]]
    <3>2. call' = [call EXCEPT ![c] = q] /\ mem[e] # NoRecord /\ mem[e].st # "none" /\ mem[e] \in Records
      BY <1>1, <2>5, <3>1 DEF StartStatus
    <3>3. /\ q \in CallType /\ q.earlier = {} /\ q.pc = pc /\ q.e = e /\ q.alone = FALSE /\ q.op = "status"
          /\ q.rec = mem[e]
      BY <2>1, <2>2, <3>2 DEF CallType
    <3> HIDE DEF q
    <3> QED
      BY <3>2, <3>3
  <2> QED
    BY <2>3, <2>4, <2>5
<1>4. call' \in [Calls -> CallType] /\ call'[c] = q /\ \A d \in Calls \ {c} : call'[d] = call[d]
  BY <1>1, <1>3
<1>5. UNCHANGED <<mem, file>>
  BY <1>2 DEF records
<1>6. LineOf(call[c])'
  BY <1>3, <1>4, <1>5 DEF LineOf, Inside
<1>7. Effect(c)
  BY <1>1, <1>2, <1>3, <1>4, <1>5, <1>6 DEF Effect
<1>8. call'[c].pc \notin Inside
  BY <1>3, <1>4 DEF Inside
<1> QED
  BY <1>2, <1>7, <1>8

-----------------------------------------------------------------------------
(* The steps keep the invariant. *)

Acts(c) == Step(c) \/ \E e \in Envs : StartCreate(c, e) \/ StartDelete(c, e) \/ StartStatus(c, e)

\* Every step is a restart or one of a call.
LEMMA NextCases ==
    ASSUME Next
    PROVE  Restart \/ \E c \in Calls : Acts(c)
  BY DEF Next, Acts

\* Every step of a call has an Effect.
LEMMA ActEffect ==
    ASSUME Types, Line, Workspace, NEW c \in Calls, Acts(c)
    PROVE  Effect(c)
  BY Saves, Trees, Preparations, Starts DEF Acts, Step, SaveSteps, TreeSteps

\* Every step keeps the variables in their types.
LEMMA TypesStep ==
    ASSUME Types, Line, Workspace, Next
    PROVE  Types'
<1>1. /\ TypeOK /\ call \in [Calls -> CallType] /\ file \in [Envs -> Records]
      /\ \A e \in Envs : (mem[e].st = "none" => mem[e] = NoRecord) /\ (file[e].st = "none" => file[e] = NoRecord)
  BY DEF Types, TypeOK
<1>2. faults \in 0 .. MaxFaults /\ starts \in 0 .. MaxStarts /\ restarts \in 0 .. faults
      /\ MaxFaults \in Nat /\ MaxStarts \in Nat
  BY <1>1, EnvironmentsAssumption DEF TypeOK
<1>3. /\ work \subseteq Envs /\ idx \subseteq Envs /\ head \subseteq Envs /\ remote \subseteq Envs /\ rel \subseteq Envs
      /\ once \in {"new", "ready", "broken"}
      /\ backend \in {"helm", "flux"} /\ perOp \in BOOLEAN /\ kind \in {"json", "sql"}
  BY <1>1 DEF TypeOK
<1>4. CASE Restart
  <2>1. /\ call' = [c \in Calls |-> Idle] /\ mem' = file /\ file' = file /\ once' = "new"
        /\ UNCHANGED <<config, trees, rel, starts>>
    BY <1>4 DEF Restart
  <2>2. faults' \in 0 .. MaxFaults /\ restarts' \in 0 .. faults'
    BY <1>2, <1>4 DEF Restart, Fault
  <2>3. call' \in [Calls -> CallType] /\ \A c \in Calls : call'[c].rec \in Records /\ call'[c].earlier \subseteq Calls \ {c}
    BY <2>1, Constants
  <2>4. UNCHANGED <<work, idx, head, remote, backend, perOp, kind, rel, starts>>
    BY <2>1 DEF trees, config
  <2>5. TypeOK'
    BY <1>1, <1>2, <1>3, <2>1, <2>2, <2>3, <2>4 DEF TypeOK
  <2> QED
    BY <1>1, <2>1, <2>3, <2>5 DEF Types
<1>5. ASSUME NEW c \in Calls, Acts(c) PROVE Types'
  <2>1. Effect(c)
    BY <1>5, ActEffect
  <2>2. /\ call' \in [Calls -> CallType] /\ mem' \in [Envs -> Records] /\ file' \in [Envs -> Records]
        /\ \A e \in Envs : (mem'[e].st = "none" => mem'[e] = NoRecord) /\ (file'[e].st = "none" => file'[e] = NoRecord)
    BY <2>1 DEF Effect
  <2>3. ASSUME NEW d \in Calls PROVE call'[d].rec \in Records /\ call'[d].earlier \subseteq Calls \ {d}
    <3>1. call'[d].rec \in Records
      BY <2>2 DEF CallType
    <3>2. call'[d].earlier \subseteq Calls \ {d}
      BY <1>1, <2>1 DEF Effect, TypeOK
    <3> QED
      BY <3>1, <3>2
  <2>4. UNCHANGED <<backend, perOp, kind, restarts>> /\ (faults' = faults \/ Fault)
    BY <2>1 DEF Effect, config
  <2>5. faults' \in 0 .. MaxFaults /\ restarts' \in 0 .. faults'
    BY <1>2, <2>4 DEF Fault
  <2>6. call[c].e \in Envs
    BY Fields
  <2>7. /\ work' \subseteq Envs /\ idx' \subseteq Envs /\ head' \subseteq Envs /\ remote' \subseteq Envs /\ rel' \subseteq Envs
        /\ once' \in {"new", "ready", "broken"} /\ (starts' = starts \/ Start)
    <3> USE DEF trees
    <3>1. CASE SaveSteps(c) \/ Ask(c)
      BY <1>3, <3>1, Saves
    <3>2. CASE \E e \in Envs : StartCreate(c, e) \/ StartDelete(c, e) \/ StartStatus(c, e)
      BY <1>3, <3>2, Starts
    <3>3. CASE Edit(c)
      BY <1>3, <2>6, <3>3 DEF Edit
    <3>4. CASE Commit(c)
      BY <1>3, <3>4 DEF Commit
    <3>5. CASE Push(c)
      BY <1>3, <3>5 DEF Push
    <3>6. CASE Apply(c)
      BY <1>3, <2>6, <3>6 DEF Apply
    <3>7. CASE Undeploy(c)
      BY <1>3, <3>7 DEF Undeploy
    <3>8. CASE Prepare(c)
      BY <1>3, <3>8 DEF Prepare
    <3> QED
      BY <1>5, <3>1, <3>2, <3>3, <3>4, <3>5, <3>6, <3>7, <3>8 DEF Acts, Step, SaveSteps
  <2>8. starts' \in 0 .. MaxStarts
    BY <1>2, <2>7 DEF Start
  <2>9. TypeOK'
    BY <1>3, <2>2, <2>3, <2>4, <2>5, <2>7, <2>8 DEF TypeOK
  <2> QED
    BY <2>2, <2>9 DEF Types
<1> QED
  BY <1>4, <1>5, NextCases

\* Every step keeps every call on a line of its operation.
LEMMA LineStep ==
    ASSUME Types, Line, Workspace, Next
    PROVE  Line'
<1>1. CASE Restart
  <2>1. call' = [c \in Calls |-> Idle]
    BY <1>1 DEF Restart
  <2>2. ASSUME NEW c \in Calls PROVE LineOf(call[c])'
    BY <2>1, Constants DEF LineOf, Inside
  <2> QED
    BY <2>2 DEF Line
<1>2. ASSUME NEW c \in Calls, Acts(c), NEW d \in Calls PROVE LineOf(call[d])'
  <2>1. Effect(c)
    BY <1>2, ActEffect
  <2>2. CASE d = c
    BY <2>1, <2>2 DEF Effect
  <2>3. CASE d # c
    <3>1. /\ call'[d].pc = call[d].pc /\ call'[d].op = call[d].op /\ call'[d].e = call[d].e
          /\ call'[d].rec = call[d].rec /\ (call'[d].alone => call[d].alone)
          /\ (mem[call[d].e] # NoRecord => mem'[call[d].e] # NoRecord)
      BY <2>1, <2>3, Fields DEF Effect
    <3>2. LineOf(call[d])
      BY DEF Line
    <3> QED
      BY <3>1, <3>2 DEF LineOf
  <2> QED
    BY <2>2, <2>3
<1> QED
  BY <1>1, <1>2, NextCases DEF Line

\* What a step outside the workspace leaves to the calls in it.
LEMMA OutsideWorkspace ==
    ASSUME Types, Line, Workspace, NEW c \in Calls, Effect(c), call'[c].pc \notin Inside, UNCHANGED trees
    PROVE  Workspace'
<1>1. ASSUME NEW d \in Calls, call'[d].alone PROVE AloneOf(call[d])' /\ \A r \in Calls \ {d} : call'[r].pc \notin Inside
  <2>1. d # c
    BY <1>1 DEF Effect, LineOf
  <2>2. call[d].alone /\ call'[d].pc = call[d].pc /\ call'[d].op = call[d].op /\ call'[d].e = call[d].e
    BY <1>1, <2>1 DEF Effect
  <2>3. AloneOf(call[d]) /\ \A r \in Calls \ {d} : call[r].pc \notin Inside
    BY <2>2 DEF Workspace
  <2>4. UNCHANGED <<work, head, remote>>
    BY DEF trees
  <2>5. \A r \in Calls \ {d} : call'[r].pc \notin Inside
    BY <2>3 DEF Effect
  <2> QED
    BY <2>2, <2>3, <2>4, <2>5 DEF AloneOf
<1> QED
  BY <1>1 DEF Workspace, AloneOf

\* Every step keeps what a call that is alone knows of the workspace.
LEMMA WorkspaceStep ==
    ASSUME Types, Line, Workspace, Next
    PROVE  Workspace'
<1> USE DEF At
<1>1. CASE Restart
  <2>1. call' = [c \in Calls |-> Idle]
    BY <1>1 DEF Restart
  <2>2. \A c \in Calls : call'[c].alone = FALSE
    BY <2>1, Constants
  <2> QED
    BY <2>2 DEF Workspace, AloneOf
<1>2. ASSUME NEW c \in Calls, Acts(c) PROVE Workspace'
  <2>1. Effect(c) /\ LineOf(call[c]) /\ AloneOf(call[c])
    BY <1>2, ActEffect DEF Line, Workspace
  <2>2. ASSUME NEW d \in Calls \ {c}
        PROVE  call'[d].pc = call[d].pc /\ (call'[d].alone => call[d].alone)
    BY <2>1 DEF Effect
  <2>3. CASE call'[c].pc \notin Inside /\ UNCHANGED trees
    BY <2>1, <2>3, OutsideWorkspace
  <2>4. CASE SaveSteps(c) \/ Ask(c) \/ \E e \in Envs : StartCreate(c, e) \/ StartDelete(c, e) \/ StartStatus(c, e)
    <3>1. call'[c].pc \notin Inside /\ UNCHANGED trees
      BY <2>4, Saves, Starts DEF Inside
    <3> QED
      BY <2>3, <3>1
  <2>5. CASE Prepare(c) \/ Undeploy(c)
    <3>1. CASE /\ \A d \in Calls \ {c} : call'[d].alone = FALSE
               /\ call'[c].pc = "edit"
               /\ call'[c].alone => head' = remote' /\ \A d \in Calls \ {c} : call[d].pc \notin Inside
      <4>1. AloneOf(call[c])'
        BY <3>1 DEF AloneOf
      <4> QED
        BY <2>2, <3>1, <4>1 DEF Workspace, AloneOf
    <3> QED
      BY <2>3, <2>5, <3>1, Preparations
  <2>6. CASE TreeSteps(c)
    <3>1. /\ call[c].pc \in Inside /\ call'[c].op = call[c].op /\ call'[c].e = call[c].e
          /\ (call'[c].alone <=> call[c].alone /\ call'[c].pc \in Inside)
      BY <2>6, Trees
    <3>2. \A d \in Calls \ {c} : ~call'[d].alone
      BY <2>2, <3>1 DEF Workspace
    <3>3. call'[c].alone => \A d \in Calls \ {c} : call'[d].pc \notin Inside
      BY <2>2, <3>1 DEF Workspace
    <3>4. AloneOf(call[c])'
      <4> SUFFICES ASSUME call'[c].alone PROVE AloneOf(call[c])'
        BY DEF AloneOf
      <4>1. call[c].alone /\ call'[c].pc \in Inside /\ LineOf(call[c])'
        BY <2>1, <3>1 DEF Effect
      <4>2. \A pc \in Lines : Goto(c, pc) => call'[c].pc = pc
        BY GotoFields
      <4>3. {"apply", "commit", "push", "save", "fail"} \subseteq Lines /\ "save" \notin Inside /\ "fail" \notin Inside
        BY DEF Lines, Inside
      <4>4. CASE Edit(c)
        <5>1. /\ work' = IF call[c].op = "create" THEN work \cup {call[c].e} ELSE work \ {call[c].e}
              /\ call[c].pc = "edit" /\ UNCHANGED <<head, remote>> /\ call'[c].pc \in {"apply", "commit"}
          BY <4>1, <4>2, <4>3, <4>4 DEF Edit, Fails
        <5> QED
          BY <2>1, <3>1, <4>1, <5>1 DEF AloneOf
      <4>5. CASE Apply(c)
        <5>1. call[c].pc = "apply" /\ UNCHANGED <<work, head, remote>> /\ call'[c].pc = "commit"
          BY <4>1, <4>2, <4>3, <4>5 DEF Apply, Fails, trees
        <5> QED
          BY <2>1, <3>1, <4>1, <5>1 DEF AloneOf
      <4>6. CASE Commit(c)
        <5>1. call[c].pc = "commit" /\ work' = work /\ head' = work /\ call'[c].pc = "push"
          BY <4>1, <4>2, <4>3, <4>6 DEF Commit, Fails
        <5> QED
          BY <2>1, <3>1, <4>1, <5>1 DEF AloneOf
      <4>7. CASE Push(c)
        BY <4>1, <4>2, <4>3, <4>7 DEF Push, Fails
      <4> QED
        BY <2>6, <4>4, <4>5, <4>6, <4>7 DEF TreeSteps
    <3> QED
      BY <3>2, <3>3, <3>4 DEF Workspace, AloneOf
  <2> QED
    BY <1>2, <2>4, <2>5, <2>6 DEF Acts, Step, SaveSteps, TreeSteps
<1> QED
  BY <1>1, <1>2, NextCases

\* What is known stays known until a restart.
LEMMA KnownKept ==
    ASSUME Types, Line, Workspace, kind = "json", NEW c \in Calls, Acts(c), NEW e \in Envs, Known(e)
    PROVE  Known(e)'
<1> USE DEF Active
<1>1. Effect(c)
  BY ActEffect
<1>2. CASE mem[e] # NoRecord
  BY <1>1, <1>2 DEF Effect, Known
<1>3. CASE \E d \in Calls : Active(d) /\ call[d].e = e
  <2>1. PICK d \in Calls : Active(d) /\ call[d].e = e
    BY <1>3
  <2>2. CASE d # c
    BY <1>1, <2>1, <2>2 DEF Effect, Known
  <2>3. CASE d = c
    BY <1>1, <2>1, <2>3 DEF Effect, Known
  <2> QED
    BY <2>2, <2>3
<1> QED
  BY <1>2, <1>3 DEF Known

\* Restarts are counted.
LEMMA RestartCounts ==
    ASSUME Types, Restart
    PROVE  restarts \in Nat /\ restarts' = restarts + 1 /\ restarts' # restarts
<1>1. faults \in 0 .. MaxFaults /\ restarts \in 0 .. faults
  BY DEF Types, TypeOK
<1>2. restarts \in Nat
  BY <1>1
<1>3. restarts' = restarts + 1
  BY DEF Restart
<1> QED
  BY <1>2, <1>3

\* Nothing that nobody knows of enters a tree.
LEMMA NoOrphansStep ==
    ASSUME Types, Line, Workspace, NoOrphans, Next
    PROVE  NoOrphans'
<1> USE DEF At, Active
<1>1. CASE Restart
  <2>0. restarts \in Nat /\ restarts' = restarts + 1
    BY <1>1, RestartCounts
  <2>1. restarts' # 0
    BY <2>0
  <2> QED
    BY <2>1 DEF NoOrphans
<1>2. ASSUME NEW c \in Calls, Acts(c) PROVE NoOrphans'
  <2>1. Effect(c) /\ UNCHANGED <<kind, restarts>>
    BY <1>2, ActEffect DEF Effect, config
  <2>2. SUFFICES ASSUME kind = "json", restarts = 0, NEW e \in remote' \cup head' \cup idx' \cup work'
                 PROVE  Known(e)'
    BY <2>1 DEF NoOrphans
  <2>3. work \subseteq Envs /\ idx \subseteq Envs /\ head \subseteq Envs /\ remote \subseteq Envs
    BY DEF Types, TypeOK
  <2>4. ASSUME e \in remote \cup head \cup idx \cup work PROVE Known(e)'
    BY <1>2, <2>2, <2>3, <2>4, KnownKept DEF NoOrphans
  <2>5. CASE UNCHANGED trees
    BY <2>2, <2>4, <2>5 DEF trees
  <2>6. CASE SaveSteps(c) \/ Ask(c) \/ \E d \in Envs : StartCreate(c, d) \/ StartDelete(c, d) \/ StartStatus(c, d)
    BY <2>5, <2>6, Saves, Starts
  <2>7. CASE Prepare(c) \/ Undeploy(c)
    BY <2>2, <2>4, <2>5, <2>7, Preparations
  <2>8. CASE TreeSteps(c)
    <3>1. call'[c].pc # "idle" /\ call'[c].e = call[c].e
      BY <2>8, Trees
    <3>2. e = call[c].e => Known(e)'
      BY <3>1 DEF Known
    <3>3. e \in remote \cup head \cup idx \cup work \/ e = call[c].e
      BY <2>2, <2>8 DEF TreeSteps, Edit, Commit, Push, Apply, trees
    <3> QED
      BY <2>4, <3>2, <3>3
  <2> QED
    BY <1>2, <2>6, <2>7, <2>8 DEF Acts, Step, SaveSteps, TreeSteps
<1> QED
  BY <1>1, <1>2, NextCases

-----------------------------------------------------------------------------
(* The theorems. *)

\* The initial states satisfy the invariant.
LEMMA Initially ==
    ASSUME Init
    PROVE  IInv
<1> USE DEF Init
<1>1. \A c \in Calls : call[c] = Idle
  OBVIOUS
<1>2. Record("ready", FALSE) \in Records /\ Record("ready", FALSE).st = "ready" /\ Record("ready", FALSE) # NoRecord
  BY Constants DEF Statuses
<1>3. mem = [Lost EXCEPT ![Retried] = Record("ready", FALSE)] /\ file = mem /\ Lost \in [Envs -> Records]
      /\ Retried \in Envs /\ \A e \in Envs : Lost[e] = NoRecord
  BY Constants, EnvironmentsAssumption DEF Lost
<1>4. /\ mem \in [Envs -> Records] /\ mem[Retried] # NoRecord
      /\ \A e \in Envs : mem[e].st = "none" => mem[e] = NoRecord
  BY <1>2, <1>3
<1>5. call \in [Calls -> CallType] /\ \A c \in Calls : call[c].rec \in Records /\ call[c].earlier \subseteq Calls \ {c}
  BY Constants
<1>6. starts \in 0 .. MaxStarts /\ faults \in 0 .. MaxFaults /\ restarts \in 0 .. faults
  BY EnvironmentsAssumption
<1>7. work \subseteq Envs /\ idx \subseteq Envs /\ head \subseteq Envs /\ remote \subseteq Envs /\ rel \subseteq Envs
  BY EnvironmentsAssumption
<1>8. Types
  <2>1. TypeOK
    BY <1>3, <1>4, <1>5, <1>6, <1>7 DEF TypeOK
  <2> QED
    BY <1>3, <1>4, <1>5, <2>1 DEF Types
<1>9. Line
  BY <1>1, Constants DEF Line, LineOf, Inside
<1>10. Workspace
  BY <1>1, Constants DEF Workspace, AloneOf
<1>11. NoOrphans
  BY <1>4 DEF NoOrphans, Known
<1> QED
  BY <1>8, <1>9, <1>10, <1>11 DEF IInv

\* Every step keeps the invariant.
LEMMA InductiveStep ==
    ASSUME IInv, [Next]_vars
    PROVE  IInv'
<1>1. CASE Next
  BY <1>1, TypesStep, LineStep, WorkspaceStep, NoOrphansStep DEF IInv
<1>2. CASE UNCHANGED vars
  <2> USE <1>2 DEF vars, config, records, trees, budget
  <2>1. Types'
    BY DEF IInv, Types, TypeOK
  <2>2. Line'
    BY DEF IInv, Line, LineOf
  <2>3. Workspace'
    BY DEF IInv, Workspace, AloneOf
  <2>4. NoOrphans'
    BY DEF IInv, NoOrphans, Known, Active
  <2> QED
    BY <2>1, <2>2, <2>3, <2>4 DEF IInv
<1> QED
  BY <1>1, <1>2

\* The inductive invariant holds in every reachable state.
THEOREM Invariance == Spec => []IInv
  BY Initially, InductiveStep, PTL DEF Spec

\* Every variable of the orchestrator, the stores and the workspace keeps its type.
THEOREM TypeCorrect == Spec => []TypeOK
<1>1. IInv => TypeOK
  BY DEF IInv, Types
<1> QED
  BY <1>1, Invariance, PTL

\* Without a restart, what is in the GitOps branch is known to the JSON store or
\* being worked on: Create and Delete record their failures too.
THEOREM NothingOrphaned == Spec => []NoOrphanWithoutRestart
<1>1. IInv => NoOrphanWithoutRestart
  BY DEF IInv, NoOrphans, Known, NoOrphanWithoutRestart
<1> QED
  BY <1>1, Invariance, PTL

\* When RepositoryWriter.Commit succeeds for a call that was alone in the
\* workspace, the remote branch shows what the call wrote or removed.
THEOREM CommitPublishes == Spec => SuccessIsPublished
<1> DEFINE A == \A c \in Calls : (call[c].alone /\ call[c].pc \in Inside /\ call'[c].pc = "save")
                    => (call[c].e \in remote' <=> call[c].op = "create")
<1>1. ASSUME IInv, [Next]_vars PROVE A
  <2> SUFFICES ASSUME NEW c \in Calls, call[c].alone, call[c].pc \in Inside, call'[c].pc = "save"
               PROVE  call[c].e \in remote' <=> call[c].op = "create"
    OBVIOUS
  <2>1. Types /\ Line /\ Workspace /\ AloneOf(call[c]) /\ call[c].pc # "save" /\ "save" \notin Inside
    BY <1>1 DEF IInv, Workspace, Inside
  <2>2. Next
    BY <1>1, <2>1 DEF vars
  <2>3. ~Restart
    BY <2>1, Constants DEF Restart
  <2>4. PICK d \in Calls : Acts(d)
    BY <2>2, <2>3, NextCases
  <2>5. d = c
    <3>1. Effect(d)
      BY <2>1, <2>4, ActEffect
    <3> QED
      BY <2>1, <3>1 DEF Effect
  <2>6. TreeSteps(c)
    <3>1. ~(Prepare(c) \/ Undeploy(c)) /\ ~(\E e \in Envs : StartCreate(c, e) \/ StartDelete(c, e) \/ StartStatus(c, e))
      BY <2>1, Preparations, Starts DEF Inside
    <3>2. ~(SaveSteps(c) \/ Ask(c))
      BY <2>1, Saves
    <3> QED
      BY <2>4, <2>5, <3>1, <3>2 DEF Acts, Step, SaveSteps, TreeSteps
  <2>7. \A pc \in Lines : Goto(c, pc) => call'[c].pc = pc
    BY <2>1, GotoFields
  <2>8. {"apply", "commit", "push", "save", "fail"} \subseteq Lines
    BY DEF Lines, Inside
  <2>9. CASE Edit(c) \/ Apply(c)
    BY <2>7, <2>8, <2>9 DEF Edit, Apply, Fails
  <2>10. CASE Commit(c)
    <3>1. call[c].pc = "commit" /\ work = head /\ remote' = remote
      BY <2>7, <2>8, <2>10 DEF Commit, Fails, At
    <3> QED
      BY <2>1, <3>1 DEF AloneOf
  <2>11. CASE Push(c)
    <3>1. call[c].pc = "push" /\ remote' = head
      BY <2>7, <2>8, <2>11 DEF Push, Fails, At
    <3> QED
      BY <2>1, <3>1 DEF AloneOf
  <2> QED
    BY <2>6, <2>9, <2>10, <2>11 DEF TreeSteps
<1>2. IInv /\ [Next]_vars => [A]_vars
  BY <1>1
<1>3. Spec => [][A]_vars
  BY <1>2, Invariance, PTL DEF Spec
<1> QED
  BY <1>3 DEF SuccessIsPublished

\* The record of one environment changes to the one that is saved, by SaveCreated
\* only if it is not older.
LEMMA RecordChange ==
    ASSUME Types, Line, Workspace, NEW c \in Calls, Acts(c), NEW e \in Envs, mem'[e] # mem[e], mem[e] # NoRecord
    PROVE  /\ call[c].e = e
           /\ \/ call[c].pc = "save" /\ ~call[c].old /\ call'[c] = Idle
              \/ call[c].pc = "ask" /\ call'[c] = Idle
              \/ mem'[e].st # "creating"
<1> USE DEF At
<1>1. call[c].e \in Envs /\ call[c] \in CallType /\ LineOf(call[c]) /\ Idle \in CallType
      /\ call[c].rec.verified \in BOOLEAN /\ call[c].rec.st \in Statuses \cup {"none"}
  BY Fields, Constants DEF Line, Records
<1>2. {"creating", "failed", "deleteFailed", "deleteRequested", "deletePending", "terminated", "ready"} \subseteq Statuses
      /\ "none" \notin Statuses
  BY DEF Statuses, DeleteFamily
<1>3. ASSUME NEW st \in Statuses, NEW v \in BOOLEAN
      PROVE  Record(st, v) \in Records /\ Record(st, v).st = st /\ Record(st, v).st # "none"
  BY <1>2, <1>3, Constants
<1>4. ASSUME NEW st \in Statuses, NEW v \in BOOLEAN, NEW old, NEW late, NEW next \in CallType,
             Save(c, call[c].e, Record(st, v), old, late, next)
      PROVE  call[c].e = e /\ mem'[e].st = st /\ ~old /\ call'[c] = next
  <2>1. Saved(c, call[c].e, Record(st, v), old, next)
    BY <1>1, <1>3, <1>4, SaveFields
  <2> QED
    BY <1>3, <1>4, <2>1 DEF Saved
<1>5. CASE SaveCreated(c)
  <2>1. call[c].rec = Record("creating", FALSE)
    BY <1>1, <1>5 DEF SaveCreated, LineOf
  <2>2. Save(c, call[c].e, Record("creating", FALSE), call[c].old, call[c].earlier, Idle) /\ call[c].pc = "save"
    BY <1>5, <2>1, Zenon DEF SaveCreated
  <2>3. "creating" \in Statuses /\ Idle \in CallType
    BY <1>1, <1>2
  <2>4. call[c].e = e /\ ~call[c].old /\ call'[c] = Idle
    BY <1>4, <2>2, <2>3
  <2> QED
    BY <2>2, <2>4
<1>6. CASE Fail(c) \/ SaveDeleted(c) \/ UpdateStatus(c)
  <2>1. \E st \in {"failed", "deleteFailed", "terminated", "ready"}, v \in BOOLEAN :
            Save(c, call[c].e, Record(st, v), FALSE, Creating(call[c].e), Idle)
    BY <1>1, <1>6 DEF Fail, SaveDeleted, UpdateStatus, SaveNow
  <2> QED
    BY <1>1, <1>2, <1>4, <2>1
<1>7. CASE Request(c) \/ Pending(c)
  <2>1. \E st \in {"deleteRequested", "deletePending"}, pc \in {"pending", "undeploy", "prepare"} :
            Save(c, call[c].e, Record(st, FALSE), FALSE, Creating(call[c].e), [call[c] EXCEPT !.pc = pc])
    BY <1>7 DEF Request, Pending, SaveNow
  <2>2. \A pc \in {"pending", "undeploy", "prepare"} : [call[c] EXCEPT !.pc = pc] \in CallType
    BY <1>1 DEF CallType, Lines
  <2> QED
    BY <1>2, <1>4, <2>1, <2>2
<1>8. CASE Ask(c)
  <2>1. Answers(c) \subseteq Statuses
    <3>1. call[c].rec.st \in Statuses
      BY <1>1, <1>8 DEF Ask, LineOf
    <3> QED
      BY <3>1 DEF Answers, Statuses, DeleteFamily
  <2>2. PICK st \in Answers(c) : Save(c, call[c].e, Record(st, call[c].rec.verified), FALSE, Creating(call[c].e), Idle)
    BY <1>8 DEF Ask, SaveNow, records
  <2> QED
    BY <1>1, <1>4, <1>8, <2>1, <2>2 DEF Ask
<1>9. SaveSteps(c) \/ Ask(c)
  <2>1. ~(UNCHANGED records)
    BY DEF records
  <2> QED
    BY <2>1 DEF Acts, Step, SaveSteps, Prepare, Edit, Commit, Push, Apply, Undeploy, StartCreate, StartDelete, StartStatus
<1> QED
  BY <1>5, <1>6, <1>7, <1>8, <1>9 DEF SaveSteps

\* Save refuses the record of a Create that began before the record of the
\* environment said terminated; only the answer of a Status, or a later Create,
\* makes it creating again.
THEOREM LateCreatesLose == Spec => LateCreateLoses
<1> DEFINE A == \A e \in Envs : (restarts' = restarts /\ mem[e].st = "terminated" /\ mem'[e].st = "creating")
                    => \E c \in Calls : call[c].e = e /\ call'[c] = Idle
                                         /\ (call[c].pc = "ask" \/ (call[c].pc = "save" /\ ~call[c].old))
<1>1. ASSUME IInv, [Next]_vars PROVE A
  <2> SUFFICES ASSUME NEW e \in Envs, restarts' = restarts, mem[e].st = "terminated", mem'[e].st = "creating"
               PROVE  \E c \in Calls : call[c].e = e /\ call'[c] = Idle
                                        /\ (call[c].pc = "ask" \/ (call[c].pc = "save" /\ ~call[c].old))
    OBVIOUS
  <2>1. Types /\ Line /\ Workspace /\ mem[e] # NoRecord
    BY <1>1, Constants DEF IInv
  <2>2. Next
    BY <1>1 DEF vars, records
  <2>3. ~Restart
    BY <2>1, RestartCounts
  <2>4. PICK c \in Calls : Acts(c)
    BY <2>2, <2>3, NextCases
  <2> QED
    BY <2>1, <2>4, RecordChange
<1>2. IInv /\ [Next]_vars => [A]_vars
  BY <1>1
<1>3. Spec => [][A]_vars
  BY <1>2, Invariance, PTL DEF Spec
<1> QED
  BY <1>3 DEF LateCreateLoses

-----------------------------------------------------------------------------
(* What a terminated record says while nothing but deletions has been started. *)

Clean == Retried \notin remote \cup rel

\* How far an attempt has come, in the workspace and on the cluster.
DeletingOf(q) ==
    /\ q.pc # "idle" => q.op = "delete" /\ q.e = Retried
    /\ q.ready => q.pc \in Inside
    /\ q.pc \in {"prepare", "edit", "commit", "push", "save"} => Retried \notin rel
    /\ q.pc \in {"edit", "commit"} => head = remote
    /\ q.pc = "commit" => Retried \notin work
    /\ q.pc = "push" => Retried \notin head
    /\ q.pc = "save" => Retried \notin remote

\* The file counts too: a restart makes it the record.
Deletes ==
    /\ \A c \in Calls \ {Retrier} : call[c].pc = "idle"
    /\ DeletingOf(call[Retrier])
    /\ backend = "flux" => Retried \notin rel
    /\ (mem[Retried].st = "terminated" \/ file[Retried].st = "terminated") => Clean

OnlyDeletes == (perOp /\ starts = 0) => Deletes

\* A call that goes to another line is prepared there only inside the workspace.
LEMMA GotoReady ==
    ASSUME Types, NEW c \in Calls, NEW pc \in Lines, Goto(c, pc)
    PROVE  call'[c].ready <=> call[c].ready /\ pc \in Inside
<1> DEFINE q == [call[c] EXCEPT !.pc = pc, !.ready = @ /\ pc \in Inside, !.alone = @ /\ pc \in Inside]
<1>1. call \in [Calls -> CallType] /\ call[c] \in CallType
  BY DEF Types
<1>2. call' = [call EXCEPT ![c] = q]
  BY <1>1 DEF Goto
<1>3. q.ready <=> call[c].ready /\ pc \in Inside
  BY <1>1 DEF CallType
<1> HIDE DEF q
<1> QED
  BY <1>1, <1>2, <1>3

\* What Save leaves in memory and in the file.
LEMMA SaveRecords ==
    ASSUME Types, NEW c \in Calls, NEW e \in Envs, NEW rec \in Records, NEW old, NEW late, NEW next,
           Save(c, e, rec, old, late, next), NEW d \in Envs
    PROVE  /\ mem'[d].st \in {mem[d].st, rec.st}
           /\ file'[d].st \in {file[d].st, "none", mem'[d].st}
<1>1. mem \in [Envs -> Records] /\ file \in [Envs -> Records]
  BY DEF Types, TypeOK
<1>2. \/ mem' = mem /\ file' = file
      \/ mem' = [mem EXCEPT ![e] = rec] /\ file' \in {file, Lost, mem'}
  BY DEF Save, records
<1>3. Lost[d].st = "none"
  BY Constants DEF Lost
<1>4. mem'[d] \in {mem[d], rec}
  BY <1>1, <1>2
<1>5. file'[d] \in {file[d], Lost[d], mem'[d]}
  BY <1>2
<1> QED
  BY <1>3, <1>4, <1>5

\* A record is saved: it may say terminated only when nothing is left.
LEMMA DeletesSave ==
    ASSUME Types, Deletes, NEW rec \in Records, rec.st # "none", rec.st = "terminated" => Clean,
           NEW old, NEW late, NEW next \in CallType, DeletingOf(next),
           Save(Retrier, Retried, rec, old, late, next), UNCHANGED <<config, trees, rel>>
    PROVE  Deletes'
<1>1. Retrier \in Calls /\ Retried \in Envs
  BY EnvironmentsAssumption
<1>2. Saved(Retrier, Retried, rec, old, next)
  BY <1>1, SaveFields
<1>3. UNCHANGED <<backend, work, head, remote, rel>>
  BY DEF config, trees
<1>4. ASSUME NEW d \in Calls \ {Retrier} PROVE call'[d].pc = "idle"
  <2>1. call[d] \in CallType /\ call[d].pc = "idle"
    BY Fields DEF Deletes
  <2>2. [call[d] EXCEPT !.old = TRUE].pc = call[d].pc
    BY <2>1 DEF CallType
  <2>3. call'[d] \in {call[d], [call[d] EXCEPT !.old = TRUE]}
    BY <1>2 DEF Saved
  <2> QED
    BY <2>1, <2>2, <2>3
<1>5. DeletingOf(call[Retrier])'
  <2>1. call'[Retrier] = next
    BY <1>2 DEF Saved
  <2> QED
    BY <1>3, <2>1 DEF DeletingOf
<1>6. (backend = "flux" => Retried \notin rel)'
  BY <1>3 DEF Deletes
<1>7. (mem'[Retried].st = "terminated" \/ file'[Retried].st = "terminated") => Clean'
  <2>1. /\ mem'[Retried].st \in {mem[Retried].st, rec.st}
        /\ file'[Retried].st \in {file[Retried].st, "none", mem'[Retried].st}
    BY <1>1, SaveRecords
  <2>2. Clean => Clean'
    BY <1>3 DEF Clean
  <2> QED
    BY <2>1, <2>2 DEF Deletes
<1> QED
  BY <1>4, <1>5, <1>6, <1>7 DEF Deletes

\* The steps of an attempt that save a record.
LEMMA DeletesSaves ==
    ASSUME Types, Line, Deletes, SaveSteps(Retrier) \/ Ask(Retrier)
    PROVE  Deletes'
<1> USE DEF At
<1> DEFINE q == call[Retrier]
<1>1. Retrier \in Calls /\ q \in CallType /\ LineOf(q) /\ DeletingOf(q)
  BY EnvironmentsAssumption, Fields DEF Line, Deletes
<1>2. q.pc \in {"save", "fail", "request", "pending", "ask", "update"}
  BY DEF SaveSteps, SaveCreated, Fail, Request, Pending, SaveDeleted, UpdateStatus, Ask
<1>3. q.op = "delete" /\ q.e = Retried /\ q.pc \in {"save", "fail", "request", "pending"} /\ q.ready = FALSE
  <2>1. q.op = "delete" /\ q.e = Retried
    BY <1>1, <1>2 DEF DeletingOf
  <2>2. q.pc \notin {"ask", "update"}
    BY <1>1, <2>1 DEF LineOf
  <2>3. ~q.ready /\ q.ready \in BOOLEAN
    BY <1>1, <1>2 DEF DeletingOf, Inside, CallType
  <2> QED
    BY <1>2, <2>1, <2>2, <2>3
<1>4. UNCHANGED <<config, trees, rel>>
  BY DEF SaveSteps, SaveCreated, Fail, Request, Pending, SaveDeleted, UpdateStatus, Ask
<1>5. Idle \in CallType /\ DeletingOf(Idle)
  <2>1. Idle \in CallType /\ Idle.pc = "idle" /\ Idle.ready = FALSE
    BY Constants DEF Idle
  <2> QED
    BY <2>1 DEF DeletingOf
<1>6. ASSUME NEW st \in {"deleteFailed", "deleteRequested", "deletePending", "terminated"}, NEW v \in BOOLEAN
      PROVE  Record(st, v) \in Records /\ Record(st, v).st = st /\ Record(st, v).st # "none"
  BY Constants DEF Statuses, DeleteFamily
<1>7. ASSUME NEW pc \in {"pending", "undeploy", "prepare"}, pc = "prepare" => Retried \notin rel
      PROVE  [q EXCEPT !.pc = pc] \in CallType /\ DeletingOf([q EXCEPT !.pc = pc])
  <2> DEFINE n == [q EXCEPT !.pc = pc]
  <2>1. n \in CallType /\ n.pc = pc /\ n.op = q.op /\ n.e = q.e /\ n.ready = q.ready
    BY <1>1 DEF CallType, Lines
  <2> HIDE DEF n
  <2>2. DeletingOf(n)
    BY <1>3, <1>7, <2>1 DEF DeletingOf
  <2> QED
    BY <2>1, <2>2 DEF n
<1> HIDE DEF q
<1>8. CASE Fail(Retrier)
  <2>1. Save(Retrier, Retried, Record("deleteFailed", FALSE), FALSE, Creating(Retried), Idle)
    BY <1>3, <1>8 DEF Fail, SaveNow, q
  <2> QED
    BY <1>4, <1>5, <1>6, <2>1, DeletesSave
<1>9. CASE Request(Retrier)
  <2>1. Save(Retrier, Retried, Record("deleteRequested", FALSE), FALSE, Creating(Retried), [q EXCEPT !.pc = "pending"])
    BY <1>3, <1>9 DEF Request, SaveNow, q
  <2> QED
    BY <1>4, <1>6, <1>7, <2>1, DeletesSave
<1>10. CASE Pending(Retrier)
  <2> DEFINE pc == IF backend = "helm" THEN "undeploy" ELSE "prepare"
  <2>1. Save(Retrier, Retried, Record("deletePending", FALSE), FALSE, Creating(Retried), [q EXCEPT !.pc = pc])
    BY <1>3, <1>10 DEF Pending, SaveNow, q
  <2>2. pc \in {"pending", "undeploy", "prepare"} /\ (pc = "prepare" => Retried \notin rel)
    BY DEF Types, TypeOK, Deletes
  <2> HIDE DEF pc
  <2>3. [q EXCEPT !.pc = pc] \in CallType /\ DeletingOf([q EXCEPT !.pc = pc])
    BY <1>7, <2>2
  <2> QED
    BY <1>4, <1>6, <2>1, <2>3, DeletesSave
<1>11. CASE SaveDeleted(Retrier)
  <2>1. Save(Retrier, Retried, Record("terminated", TRUE), FALSE, Creating(Retried), Idle) /\ q.pc = "save"
    BY <1>3, <1>11 DEF SaveDeleted, SaveNow, q
  <2>2. Clean
    BY <1>1, <2>1 DEF DeletingOf, Clean
  <2> QED
    BY <1>4, <1>5, <1>6, <2>1, <2>2, DeletesSave
<1>12. ~SaveCreated(Retrier) /\ ~UpdateStatus(Retrier) /\ ~Ask(Retrier)
  BY <1>3 DEF SaveCreated, UpdateStatus, Ask, q
<1> QED
  BY <1>8, <1>9, <1>10, <1>11, <1>12 DEF SaveSteps

\* An attempt goes to another line, with nothing back that was gone.
LEMMA DeletesGoto ==
    ASSUME Types, Deletes, NEW pc \in Lines \ {"idle"}, Goto(Retrier, pc), call[Retrier].pc # "idle",
           UNCHANGED <<config, records>>, rel' \subseteq rel, Clean => Retried \notin remote',
           pc \in {"prepare", "edit", "commit", "push", "save"} => Retried \notin rel',
           pc \in {"edit", "commit"} => head' = remote', pc = "commit" => Retried \notin work',
           pc = "push" => Retried \notin head', pc = "save" => Retried \notin remote'
    PROVE  Deletes'
<1>1. Retrier \in Calls /\ DeletingOf(call[Retrier])
  BY EnvironmentsAssumption DEF Deletes
<1>2. /\ \A d \in Calls \ {Retrier} : call'[d] = call[d]
      /\ call'[Retrier].pc = pc /\ call'[Retrier].op = call[Retrier].op /\ call'[Retrier].e = call[Retrier].e
  BY <1>1, GotoFields
<1>3. call'[Retrier].ready => pc \in Inside
  BY <1>1, GotoReady
<1>4. UNCHANGED <<backend, mem, file>>
  BY DEF config, records
<1>5. DeletingOf(call[Retrier])'
  BY <1>1, <1>2, <1>3 DEF DeletingOf
<1>6. Clean => Clean'
  BY DEF Clean
<1> QED
  BY <1>2, <1>4, <1>5, <1>6 DEF Deletes

\* The steps of an attempt in the workspace, on the remote and on the cluster.
LEMMA DeletesWorks ==
    ASSUME Types, Line, Deletes, perOp, TreeSteps(Retrier) \/ Prepare(Retrier) \/ Undeploy(Retrier)
    PROVE  Deletes'
<1> USE DEF At
<1> DEFINE q == call[Retrier]
<1>1. Retrier \in Calls /\ q \in CallType /\ LineOf(q) /\ DeletingOf(q)
  BY EnvironmentsAssumption, Fields DEF Line, Deletes
<1>2. q.pc \in {"edit", "commit", "push", "apply", "prepare", "undeploy"}
  BY DEF TreeSteps, Edit, Commit, Push, Apply, Prepare, Undeploy
<1>3. q.op = "delete" /\ q.e = Retried /\ q.pc # "idle" /\ q.pc # "apply"
  BY <1>1, <1>2 DEF DeletingOf, LineOf
<1>4. UNCHANGED <<config, records>>
  BY DEF TreeSteps, Edit, Commit, Push, Apply, Prepare, Undeploy
<1>5. {"edit", "commit", "push", "save", "fail", "prepare"} \subseteq Lines \ {"idle"}
  BY DEF Lines, Inside
<1>6. CASE Edit(Retrier)
  <2>1. q.pc = "edit" /\ UNCHANGED <<head, remote, rel>> /\ head = remote /\ Retried \notin rel
    BY <1>1, <1>6 DEF Edit, DeletingOf
  <2>2. \/ Goto(Retrier, "commit") /\ work' = work \ {Retried}
        \/ Goto(Retrier, "fail")
    BY <1>3, <1>6 DEF Edit, Fails
  <2> QED
    BY <1>3, <1>4, <1>5, <2>1, <2>2, DeletesGoto DEF Clean
<1>7. CASE Commit(Retrier)
  <2>1. q.pc = "commit" /\ UNCHANGED <<work, remote, rel>> /\ head = remote /\ Retried \notin rel /\ Retried \notin work
    BY <1>1, <1>7 DEF Commit, DeletingOf
  <2>2. \/ Goto(Retrier, "save") /\ work = head
        \/ Goto(Retrier, "push") /\ head' = work
        \/ Goto(Retrier, "fail")
    BY <1>7 DEF Commit, Fails
  <2> QED
    BY <1>3, <1>4, <1>5, <2>1, <2>2, DeletesGoto DEF Clean
<1>8. CASE Push(Retrier)
  <2>1. q.pc = "push" /\ UNCHANGED <<head, rel>> /\ Retried \notin head /\ Retried \notin rel
    BY <1>1, <1>8 DEF Push, DeletingOf
  <2>2. \/ Goto(Retrier, "save") /\ remote' = head
        \/ Goto(Retrier, "fail") /\ remote' \in {remote, head}
    BY <1>8 DEF Push, Fails
  <2> QED
    BY <1>3, <1>4, <1>5, <2>1, <2>2, DeletesGoto DEF Clean
<1>9. CASE Undeploy(Retrier)
  <2>1. UNCHANGED remote
    BY <1>9 DEF Undeploy, trees
  <2>2. \/ Goto(Retrier, "prepare") /\ rel' = rel \ {Retried}
        \/ Goto(Retrier, "fail") /\ rel' \in {rel, rel \ {Retried}}
    BY <1>3, <1>9 DEF Undeploy, Fails
  <2> QED
    BY <1>3, <1>4, <1>5, <2>1, <2>2, DeletesGoto DEF Clean
<1>10. CASE Prepare(Retrier)
  <2>1. q.pc = "prepare" /\ Retried \notin rel /\ ~q.ready
    BY <1>1, <1>10 DEF Prepare, DeletingOf, Inside
  <2>2. \/ Enter(Retrier, TRUE) /\ head' = remote /\ remote' = remote
        \/ Goto(Retrier, "fail") /\ UNCHANGED trees
    BY <1>10, <2>1 DEF Prepare, Prepared, Fails
  <2>3. UNCHANGED rel
    BY <1>10 DEF Prepare
  <2>4. CASE Goto(Retrier, "fail") /\ UNCHANGED trees
    <3>1. UNCHANGED remote
      BY <2>4 DEF trees
    <3> QED
      BY <1>3, <1>4, <1>5, <2>3, <2>4, <3>1, DeletesGoto DEF Clean
  <2>5. CASE Enter(Retrier, TRUE) /\ head' = remote /\ remote' = remote
    <3>1. /\ \A d \in Calls \ {Retrier} : call'[d] = [call[d] EXCEPT !.alone = FALSE]
          /\ call'[Retrier].pc = "edit" /\ call'[Retrier].op = q.op /\ call'[Retrier].e = q.e
      BY <1>1, <2>5, EnterFields
    <3>2. ASSUME NEW d \in Calls \ {Retrier} PROVE call'[d].pc = "idle"
      <4>1. call[d] \in CallType /\ call[d].pc = "idle" /\ call'[d] = [call[d] EXCEPT !.alone = FALSE]
        BY <3>1, Fields DEF Deletes
      <4> QED
        BY <4>1 DEF CallType
    <3>3. UNCHANGED <<backend, mem, file, remote, rel>>
      BY <1>4, <2>3, <2>5 DEF config, records
    <3>4. DeletingOf(call[Retrier])'
      BY <1>3, <2>1, <2>5, <3>1, <3>3 DEF DeletingOf, Inside
    <3> QED
      BY <3>2, <3>3, <3>4 DEF Deletes, Clean
  <2> QED
    BY <2>2, <2>4, <2>5
<1>11. ~Apply(Retrier)
  BY <1>3 DEF Apply
<1> QED
  BY <1>6, <1>7, <1>8, <1>9, <1>10, <1>11 DEF TreeSteps

\* While no other call has been started, only the attempts to delete Retried act.
LEMMA FreeActs ==
    ASSUME Types, Deletes, starts = 0, starts' = 0, NEW c \in Calls, Acts(c)
    PROVE  c = Retrier /\ (Step(Retrier) \/ StartDelete(Retrier, Retried))
<1>1. ~Start
  BY DEF Start
<1>2. Step(c) => c = Retrier
  <2>1. Step(c) => call[c].pc # "idle"
    BY DEF Step, Prepare, Edit, Commit, Push, Apply, SaveCreated, Fail, Request, Pending, Undeploy, SaveDeleted,
       Ask, UpdateStatus, At
  <2> QED
    BY <2>1 DEF Deletes
<1>3. \A e \in Envs : ~StartCreate(c, e) /\ ~StartStatus(c, e)
  BY <1>1 DEF StartCreate, StartStatus
<1>4. \A e \in Envs : StartDelete(c, e) => c = Retrier /\ e = Retried
  BY <1>1 DEF StartDelete
<1> QED
  BY <1>2, <1>3, <1>4 DEF Acts

\* Every step keeps what only deletions can have made.
LEMMA OnlyDeletesStep ==
    ASSUME Types, Line, Workspace, OnlyDeletes, Next
    PROVE  OnlyDeletes'
<1> SUFFICES ASSUME perOp', starts' = 0 PROVE Deletes'
  BY DEF OnlyDeletes
<1>1. Idle.pc = "idle" /\ Idle.ready = FALSE /\ Idle \in CallType
  BY Constants DEF Idle
<1>2. CASE Restart
  <2>1. Deletes /\ Retrier \in Calls
    BY <1>2, EnvironmentsAssumption DEF OnlyDeletes, Restart, config
  <2>2. call' = [d \in Calls |-> Idle]
    BY <1>2 DEF Restart
  <2>3. \A d \in Calls : call'[d].pc = "idle" /\ call'[d].ready = FALSE
    BY <1>1, <2>2
  <2>4. mem' = file /\ file' = file /\ UNCHANGED <<backend, remote, rel>>
    BY <1>2 DEF Restart, config, trees
  <2>5. DeletingOf(call[Retrier])'
    BY <2>1, <2>3 DEF DeletingOf
  <2> QED
    BY <2>1, <2>3, <2>4, <2>5 DEF Deletes, Clean
<1>3. ASSUME NEW c \in Calls, Acts(c) PROVE Deletes'
  <2>1. perOp /\ starts = 0
    <3>1. UNCHANGED config
      BY <1>3, ActEffect DEF Effect
    <3>2. starts' = starts \/ starts' = starts + 1
      BY <1>3 DEF Acts, Step, Prepare, Edit, Commit, Push, Apply, SaveCreated, Fail, Request, Pending, Undeploy,
         SaveDeleted, Ask, UpdateStatus, StartCreate, StartDelete, StartStatus, Start
    <3>3. starts \in 0 .. MaxStarts
      BY DEF Types, TypeOK
    <3> QED
      BY <3>1, <3>2, <3>3 DEF config
  <2>2. Deletes
    BY <2>1 DEF OnlyDeletes
  <2>3. Step(Retrier) \/ StartDelete(Retrier, Retried)
    BY <1>3, <2>1, <2>2, FreeActs
  <2>4. CASE Step(Retrier)
    BY <2>1, <2>2, <2>4, DeletesSaves, DeletesWorks DEF Step, SaveSteps, TreeSteps
  <2>5. CASE StartDelete(Retrier, Retried)
    <3> DEFINE n == [Idle EXCEPT !.pc = "request", !.op = "delete", !.e = Retried]
    <3>1. n.pc = "request" /\ n.op = "delete" /\ n.e = Retried /\ n.ready = FALSE
      BY DEF Idle
    <3>2. call' = [call EXCEPT ![Retrier] = n] /\ call \in [Calls -> CallType] /\ Retrier \in Calls
      BY <2>5, EnvironmentsAssumption DEF StartDelete, Types
    <3> HIDE DEF n
    <3>3. call'[Retrier] = n /\ \A d \in Calls \ {Retrier} : call'[d] = call[d]
      BY <3>2
    <3>4. UNCHANGED <<backend, mem, file, remote, rel>>
      BY <2>5 DEF StartDelete, config, records, trees
    <3>5. DeletingOf(call[Retrier])'
      BY <3>1, <3>3 DEF DeletingOf
    <3> QED
      BY <2>2, <3>3, <3>4, <3>5 DEF Deletes, Clean
  <2> QED
    BY <2>3, <2>4, <2>5
<1> QED
  BY <1>2, <1>3, NextCases

\* A record that says terminated tells the truth when nothing but attempts to
\* delete the environment has been started, with a writer of its own for each:
\* wherever attempts failed, whatever of a failed step took effect and however
\* often the process ended, manifests and release are gone.
THEOREM TerminatedRecordsAreClean == Spec => []TerminatedIsClean
<1>1. Init => OnlyDeletes
  <2> SUFFICES ASSUME Init PROVE Deletes
    BY DEF OnlyDeletes
  <2>1. call = [c \in Calls |-> Idle] /\ Retrier \in Calls /\ Retried \in Envs
    BY EnvironmentsAssumption DEF Init
  <2>2. Idle.pc = "idle" /\ Idle.ready = FALSE
    BY DEF Idle
  <2>3. mem[Retried].st = "ready" /\ file = mem
    BY <2>1, Constants DEF Init, Record
  <2>4. backend = "flux" => Retried \notin rel
    BY DEF Init
  <2>5. \A c \in Calls : call[c].pc = "idle" /\ call[c].ready = FALSE
    BY <2>1, <2>2
  <2>6. DeletingOf(call[Retrier])
    BY <2>1, <2>5 DEF DeletingOf
  <2> QED
    BY <2>3, <2>4, <2>5, <2>6 DEF Deletes
<1>2. IInv /\ OnlyDeletes /\ [Next]_vars => OnlyDeletes'
  <2> SUFFICES ASSUME IInv, OnlyDeletes, [Next]_vars PROVE OnlyDeletes'
    OBVIOUS
  <2>1. CASE Next
    BY <2>1, OnlyDeletesStep DEF IInv
  <2>2. CASE UNCHANGED vars
    BY <2>2 DEF vars, config, records, trees, budget, OnlyDeletes, Deletes, DeletingOf, Clean
  <2> QED
    BY <2>1, <2>2
<1>3. OnlyDeletes => TerminatedIsClean
  BY DEF OnlyDeletes, Deletes, Clean, TerminatedIsClean
<1> QED
  BY <1>1, <1>2, <1>3, Invariance, PTL DEF Spec

=============================================================================
