------------------------- MODULE PvcCopyPlanProofs -------------------------
(***************************************************************************)
(* Proofs about PvcCopyPlan for any number of items, replaced claims,      *)
(* foreign consumers and faults: a plan writes to no volume it did not     *)
(* provision, although helpers mount claims by name, and an item it is     *)
(* through with is copied.                                                 *)
(***************************************************************************)
EXTENDS PvcCopyPlan, TLAPS

\* The lines at which the claim of the item is pinned, and those at which its
\* target helper is there.
Pinned == {"check0", "mkSource", "check1", "mkTarget", "check2", "copy", "check3", "delete"}
Mounted == {"check2", "copy", "check3"}

\* A helper mounts the claim that has the name, which its presence protects; the
\* check after it was created makes that the pinned claim, one of the plan's.
IInv ==
    /\ TypeOK
    /\ WritesOnlyPlannedTargets
    /\ step \in Pinned => pin \in planned
    /\ step \in Mounted => tgtHelper[k] = "running"
    /\ step = "copy" => claim[k] = pin
    /\ \A i \in Items : tgtHelper[i] # "none" => mount[i] = claim[i] /\ claim[i] # 0

\* The executor's reading lines leave the cluster alone.
LEMMA ReadingStep ==
    ASSUME IInv, Preflight \/ ItemPreflight \/ TargetUnused \/ ReadTarget \/ LeafCheck
    PROVE  IInv'
<1> USE DEF claims, helpers, outside
<1>1. UNCHANGED <<k, claim, planned, uids, copied, srcHelper, tgtHelper, mount, foreign, swaps, consumers, faults>>
  BY DEF Preflight, ItemPreflight, TargetUnused, ReadTarget, LeafCheck, Line
<1>2. CASE Preflight \/ ItemPreflight \/ TargetUnused
  BY <1>1, <1>2 DEF IInv, TypeOK, WritesOnlyPlannedTargets, Preflight, ItemPreflight, TargetUnused, Line, Steps,
     Pinned, Mounted
<1>3. CASE ReadTarget
  <2>1. step' \in {"create", "check0"} /\ pin' = claim[k] /\ (step' = "check0" => claim[k] \in planned)
    BY <1>3 DEF ReadTarget, Line, Accepts
  <2> QED
    BY <1>1, <2>1 DEF IInv, TypeOK, WritesOnlyPlannedTargets, Steps, Pinned, Mounted
<1>4. CASE LeafCheck
  <2>1. /\ pin' = pin /\ LeafSafe
        /\ \/ step = "check0" /\ step' = "mkSource"
           \/ step = "check1" /\ step' = "mkTarget"
           \/ step = "check2" /\ step' = "copy"
           \/ step = "check3" /\ step' = "delete"
    BY <1>4 DEF LeafCheck, Line, Accepts
  <2> QED
    BY <1>1, <2>1 DEF IInv, TypeOK, WritesOnlyPlannedTargets, LeafSafe, Steps, Pinned, Mounted
<1> QED
  BY <1>2, <1>3, <1>4

\* The lines that create claims and helpers, copy, and delete helpers.
LEMMA WritingStep ==
    ASSUME IInv, CreateTarget \/ SourceHelper \/ TargetHelper \/ CopyItem \/ DeleteHelpers
    PROVE  IInv'
<1> USE DEF claims, helpers, outside
<1>1. CASE CreateTarget
  <2>1. /\ step = "create" /\ step' = "check0" /\ claim[k] = 0 /\ uids' = uids + 1
        /\ claim' = [claim EXCEPT ![k] = uids + 1] /\ planned' = planned \cup {uids + 1} /\ pin' = uids + 1
        /\ UNCHANGED <<k, copied, srcHelper, tgtHelper, mount, foreign, swaps, consumers, faults>>
    BY <1>1 DEF CreateTarget, Line, Accepts
  <2>2. tgtHelper[k] = "none"
    BY <2>1 DEF IInv, TypeOK
  <2>3. TypeOK'
    BY <2>1 DEF IInv, TypeOK, Steps
  <2>4. \A i \in Items : tgtHelper'[i] # "none" => mount'[i] = claim'[i] /\ claim'[i] # 0
    BY <2>1, <2>2 DEF IInv, TypeOK
  <2> QED
    BY <2>1, <2>3, <2>4 DEF IInv, WritesOnlyPlannedTargets, Pinned, Mounted
<1>2. CASE SourceHelper
  BY <1>2 DEF SourceHelper, Line, IInv, TypeOK, WritesOnlyPlannedTargets, Steps, PodStates, Pinned, Mounted
<1>3. CASE TargetHelper
  BY <1>3 DEF TargetHelper, Line, Accepts, IInv, TypeOK, WritesOnlyPlannedTargets, Steps, PodStates, Pinned, Mounted
<1>4. CASE CopyItem
  <2>1. mount[k] = pin /\ pin \in planned
    BY <1>4 DEF CopyItem, Line, IInv, TypeOK, Pinned, Mounted
  <2> QED
    BY <1>4, <2>1 DEF CopyItem, Line, IInv, TypeOK, WritesOnlyPlannedTargets, Steps, Pinned, Mounted
<1>5. CASE DeleteHelpers
  <2>1. /\ step' \in {"ok", "item"} /\ k' \in Items
        /\ UNCHANGED <<pin, claim, planned, uids, copied, mount, foreign, swaps, consumers, faults>>
    BY <1>5, PlanAssumption DEF DeleteHelpers, Line, IInv, TypeOK, Items
  <2>2. /\ srcHelper' \in [Items -> PodStates] /\ tgtHelper' \in [Items -> PodStates]
        /\ \A i \in Items : tgtHelper'[i] # "none" => tgtHelper[i] # "none"
    BY <1>5 DEF DeleteHelpers, Terminate, IInv, TypeOK, PodStates
  <2> QED
    BY <2>1, <2>2 DEF IInv, TypeOK, WritesOnlyPlannedTargets, Steps, Pinned, Mounted
<1> QED
  BY <1>1, <1>2, <1>3, <1>4, <1>5

\* A refusal, a fault and a new attempt leave the line where claims are pinned.
LEMMA AbortStep ==
    ASSUME IInv, Refuse \/ Fault \/ Retry
    PROVE  IInv'
<1> USE DEF claims, helpers, outside
<1>1. CASE Refuse \/ Fault
  <2>1. /\ step' = "refused"
        /\ UNCHANGED <<k, pin, claim, planned, uids, copied, mount, foreign, swaps, consumers>>
        /\ faults' \in 0..MaxFaults
    BY <1>1, PlanAssumption DEF Refuse, Fault, Abort, IInv, TypeOK
  <2>2. /\ srcHelper' \in [Items -> PodStates] /\ tgtHelper' \in [Items -> PodStates]
        /\ \A i \in Items : tgtHelper'[i] # "none" => tgtHelper[i] # "none"
    BY <1>1 DEF Refuse, Fault, Abort, Terminate, IInv, TypeOK, PodStates
  <2> QED
    BY <2>1, <2>2 DEF IInv, TypeOK, WritesOnlyPlannedTargets, Steps, Pinned, Mounted
<1>2. CASE Retry
  BY <1>2, PlanAssumption DEF Retry, IInv, TypeOK, WritesOnlyPlannedTargets, Steps, Pinned, Mounted, Items
<1> QED
  BY <1>1, <1>2

\* Nobody deletes a claim that a helper mounts.
LEMMA ClusterStep ==
    ASSUME IInv, PodsEnd \/ Cluster
    PROVE  IInv'
<1> USE DEF exec, claims, helpers, outside
<1>1. ASSUME NEW i \in Items, SourceHelperGone(i) \/ TargetHelperGone(i) PROVE IInv'
  <2>1. CASE SourceHelperGone(i)
    BY <2>1 DEF SourceHelperGone, IInv, TypeOK, WritesOnlyPlannedTargets, PodStates
  <2>2. CASE TargetHelperGone(i)
    <3>1. TypeOK'
      BY <2>2 DEF TargetHelperGone, IInv, TypeOK, PodStates
    <3>2. /\ step \in Mounted => i # k
          /\ \A j \in Items \ {i} : tgtHelper'[j] = tgtHelper[j] /\ mount'[j] = mount[j]
          /\ tgtHelper'[i] = "none"
      BY <2>2 DEF TargetHelperGone, IInv, TypeOK
    <3>3. UNCHANGED <<step, k, pin, claim, planned, uids, copied>> /\ k \in Items
      BY <2>2 DEF TargetHelperGone, IInv, TypeOK
    <3> QED
      BY <3>1, <3>2, <3>3 DEF IInv, WritesOnlyPlannedTargets
  <2> QED
    BY <1>1, <2>1, <2>2
<1>2. ASSUME NEW i \in Items, ForeignDelete(i) PROVE IInv'
  <2>1. TypeOK'
    BY <1>2, PlanAssumption DEF ForeignDelete, IInv, TypeOK
  <2>2. \A j \in Items : tgtHelper[j] # "none" => claim'[j] = claim[j]
    BY <1>2 DEF ForeignDelete, IInv, TypeOK
  <2> QED
    BY <1>2, <2>1, <2>2 DEF ForeignDelete, IInv, TypeOK, WritesOnlyPlannedTargets, Mounted
<1>3. ASSUME NEW i \in Items, ForeignCreate(i) PROVE IInv'
  <2>1. TypeOK'
    BY <1>3, PlanAssumption DEF ForeignCreate, IInv, TypeOK
  <2>2. \A j \in Items : tgtHelper[j] # "none" => claim'[j] = claim[j]
    BY <1>3 DEF ForeignCreate, IInv, TypeOK
  <2> QED
    BY <1>3, <2>1, <2>2 DEF ForeignCreate, IInv, TypeOK, WritesOnlyPlannedTargets, Mounted
<1>4. ASSUME NEW i \in Items, ConsumerStarts(i) \/ ConsumerStops(i) PROVE IInv'
  <2>1. foreign' \subseteq Items /\ consumers' \in 0..MaxConsumers
    BY <1>4, PlanAssumption DEF ConsumerStarts, ConsumerStops, IInv, TypeOK
  <2>2. UNCHANGED <<step, k, pin, claim, planned, uids, copied, srcHelper, tgtHelper, mount, swaps, faults>>
    BY <1>4 DEF ConsumerStarts, ConsumerStops
  <2> QED
    BY <2>1, <2>2 DEF IInv, TypeOK, WritesOnlyPlannedTargets
<1> QED
  BY <1>1, <1>2, <1>3, <1>4 DEF PodsEnd, Cluster

\* The inductive invariant holds throughout.
THEOREM Invariance == Spec => []IInv
<1>1. Init => IInv
  BY PlanAssumption DEF Init, IInv, TypeOK, WritesOnlyPlannedTargets, Items, Steps, PodStates, Pinned, Mounted
<1>2. IInv /\ [Next]_vars => IInv'
  <2> SUFFICES ASSUME IInv, [Next]_vars PROVE IInv'
    OBVIOUS
  <2>1. CASE Next
    BY <2>1, ReadingStep, WritingStep, AbortStep, ClusterStep DEF Next, ExecuteDomain
  <2>2. CASE UNCHANGED vars
    BY <2>2 DEF vars, exec, claims, helpers, outside, IInv, TypeOK, WritesOnlyPlannedTargets
  <2> QED
    BY <2>1, <2>2
<1> QED
  BY <1>1, <1>2, PTL DEF Spec

\* Every variable keeps its type, and the item index of ExecuteDomain's loop
\* stays an item of the plan.
THEOREM TypeCorrect == Spec => []TypeOK
<1>1. IInv => TypeOK
  BY DEF IInv
<1> QED
  BY <1>1, Invariance, PTL

\* No byte goes to a volume the plan did not provision, whoever replaces claims
\* between the calls of Executor.check.
THEOREM PlannedTargets == Spec => []WritesOnlyPlannedTargets
<1>1. IInv => WritesOnlyPlannedTargets
  BY DEF IInv
<1> QED
  BY <1>1, Invariance, PTL

\* After the copy the helper that wrote is still there, on the volume it wrote to.
Written == step \in {"check3", "delete"} => tgtHelper[k] = "running" /\ mount[k] \in copied

\* Every step keeps the written volume under its helper until the helper is deleted.
LEMMA WrittenStep ==
    ASSUME IInv, Written, [Next]_vars
    PROVE  Written'
<1> USE DEF exec, claims, helpers, outside
<1>0. k \in Items /\ step \in Steps /\ tgtHelper \in [Items -> PodStates] /\ mount \in [Items -> 0..uids]
  BY DEF IInv, TypeOK
<1>1. CASE \/ Preflight \/ ItemPreflight \/ TargetUnused \/ ReadTarget \/ CreateTarget \/ SourceHelper
           \/ TargetHelper \/ DeleteHelpers \/ Refuse \/ Fault \/ Retry
  <2>1. step' \notin {"check3", "delete"}
    BY <1>1 DEF Preflight, ItemPreflight, TargetUnused, ReadTarget, CreateTarget, SourceHelper,
       TargetHelper, DeleteHelpers, Refuse, Fault, Abort, Retry, Line
  <2> QED
    BY <2>1 DEF Written
<1>2. CASE LeafCheck
  <2>1. UNCHANGED <<k, copied, tgtHelper, mount>> /\ (step' = "delete" => step = "check3") /\ step' # "check3"
    BY <1>2 DEF LeafCheck, Line
  <2> QED
    BY <2>1 DEF Written
<1>3. CASE CopyItem
  <2>1. step = "copy" /\ UNCHANGED <<k, tgtHelper, mount>> /\ copied' = copied \cup {mount[k]}
    BY <1>3 DEF CopyItem, Line
  <2>2. tgtHelper[k] = "running"
    BY <2>1 DEF IInv, Mounted
  <2> QED
    BY <2>1, <2>2 DEF Written
<1>4. CASE PodsEnd
  <2> PICK i \in Items : SourceHelperGone(i) \/ TargetHelperGone(i)
    BY <1>4 DEF PodsEnd
  <2>1. CASE SourceHelperGone(i)
    BY <2>1 DEF SourceHelperGone, Written
  <2>2. CASE TargetHelperGone(i)
    <3>1. UNCHANGED <<step, k, copied>> /\ tgtHelper[i] = "terminating"
      BY <2>2 DEF TargetHelperGone
    <3>2. i # k => tgtHelper'[k] = tgtHelper[k] /\ mount'[k] = mount[k]
      BY <1>0, <2>2 DEF TargetHelperGone
    <3> QED
      BY <3>1, <3>2 DEF Written
  <2> QED
    BY <2>1, <2>2
<1>5. CASE Cluster
  <2>1. UNCHANGED <<step, k, copied, tgtHelper, mount>>
    BY <1>5 DEF Cluster, ForeignDelete, ForeignCreate, ConsumerStarts, ConsumerStops
  <2> QED
    BY <2>1 DEF Written
<1>6. CASE UNCHANGED vars
  BY <1>6 DEF vars, Written
<1> QED
  BY <1>1, <1>2, <1>3, <1>4, <1>5, <1>6 DEF Next, ExecuteDomain

\* An item that ExecuteDomain is through with is copied to the claim that has the
\* name of its target, whoever replaced claims while it was copied.
THEOREM DoneItemsAreCopied == Spec => []DoneItemIsCopied
<1>1. Init => Written
  BY DEF Init, Written
<1>2. IInv /\ Written /\ [Next]_vars => Written'
  BY WrittenStep
<1>3. IInv /\ Written => DoneItemIsCopied
  <2> SUFFICES ASSUME IInv, Written, step = "delete" PROVE claim[k] \in copied \cap planned
    BY DEF DoneItemIsCopied
  <2>1. k \in Items /\ tgtHelper[k] = "running" /\ mount[k] \in copied
    BY DEF IInv, TypeOK, Written
  <2> QED
    BY <2>1 DEF IInv, WritesOnlyPlannedTargets
<1> QED
  BY <1>1, <1>2, <1>3, Invariance, PTL DEF Spec

=============================================================================
