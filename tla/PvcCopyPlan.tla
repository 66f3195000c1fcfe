---------------------------- MODULE PvcCopyPlan ----------------------------
(***************************************************************************)
(* A plan of several PVC copies: DomainExecutor.ExecuteDomain of           *)
(* internal/pvccopy/domain.go around Executor.Execute, whose single item   *)
(* PvcCopy models in detail. Here an item is its Pods and its target       *)
(* claim: helpers mount the claim that has the name when the Pod is        *)
(* scheduled, the executor thinks in UIDs. The control plane sends a       *)
(* refused plan again.                                                     *)
(***************************************************************************)
EXTENDS Naturals

CONSTANTS NItems,       \* items of the plan
          MaxSwaps,     \* claims that others delete or create
          MaxConsumers, \* foreign Pods that mount a source
          MaxFaults     \* transport errors and deaths of the runner

ASSUME PlanAssumption ==
    NItems \in Nat \ {0} /\ MaxSwaps \in Nat /\ MaxConsumers \in Nat /\ MaxFaults \in Nat

VARIABLES
    step, k, pin,        \* ExecuteDomain: next line, item, UID of its target
    claim, planned,      \* UID at each target name (0: none); UIDs the plan created
    copied,              \* UIDs whose volume the plan has written
    srcHelper, tgtHelper, mount,  \* helper Pods, and the UID a target helper mounts
    foreign,             \* sources a foreign Pod consumes
    uids, swaps, consumers, faults

exec == <<step, k, pin>>
claims == <<claim, planned, uids>>
helpers == <<srcHelper, tgtHelper, mount>>
outside == <<foreign, swaps, consumers, faults>>
vars == <<exec, claims, copied, helpers, outside>>

Items == 1..NItems
PodStates == {"none", "running", "terminating"}
Steps == {"preflight", "item", "target", "read", "create", "check0", "mkSource", "check1",
          "mkTarget", "check2", "copy", "check3", "delete", "ok", "refused"}

-----------------------------------------------------------------------------
\* preflight: no nonterminal Pod consumes any source of the plan.
SourcesFree == foreign = {} /\ \A i \in Items : srcHelper[i] = "none"

\* Mutant: the UID of the target is not read again.
LeafUnpinned ==
    /\ claim[k] # 0
    /\ k \notin foreign
    /\ srcHelper[k] # "terminating" /\ tgtHelper[k] # "terminating"

\* Executor.check with the Permission of ExecuteDomain: the claim still has the
\* pinned UID, and nobody but the helpers of this item uses its volumes.
LeafSafe ==
    /\ claim[k] = pin
    /\ k \notin foreign
    /\ srcHelper[k] # "terminating" /\ tgtHelper[k] # "terminating"

\* What each line that can refuse demands of the cluster.
Accepts ==
    CASE step \in {"preflight", "item"} -> SourcesFree
      [] step = "target" -> tgtHelper[k] = "none"
      [] step = "read" -> claim[k] = 0 \/ claim[k] \in planned
      [] step = "create" -> claim[k] = 0
      [] step \in {"check0", "check1", "check2", "check3"} -> LeafSafe
      [] step = "mkSource" -> srcHelper[k] = "none"
      [] step = "mkTarget" -> claim[k] # 0
      [] OTHER -> TRUE

Refusable == Steps \ {"ok", "refused"}

\* ExecuteDomain reaches line "from" and goes on at line "to".
Line(from, to) ==
    /\ step = from /\ Accepts
    /\ step' = to
    /\ UNCHANGED outside

Preflight ==
    /\ Line("preflight", "item")
    /\ UNCHANGED <<k, pin, claims, copied, helpers>>

ItemPreflight ==
    /\ Line("item", "target")
    /\ UNCHANGED <<k, pin, claims, copied, helpers>>

TargetUnused ==
    /\ Line("target", "read")
    /\ UNCHANGED <<k, pin, claims, copied, helpers>>

ReadTarget ==
    /\ Line("read", IF claim[k] = 0 THEN "create" ELSE "check0")
    /\ pin' = claim[k]
    /\ UNCHANGED <<k, claims, copied, helpers>>

CreateTarget ==
    /\ Line("create", "check0")
    /\ uids' = uids + 1
    /\ claim' = [claim EXCEPT ![k] = uids']
    /\ planned' = planned \cup {uids'}
    /\ pin' = uids'
    /\ UNCHANGED <<k, copied, helpers>>

\* The calls of Executor.check around the two helpers and the copy.
LeafCheck ==
    /\ \/ Line("check0", "mkSource") \/ Line("check1", "mkTarget")
       \/ Line("check2", "copy") \/ Line("check3", "delete")
    /\ UNCHANGED <<k, pin, claims, copied, helpers>>

SourceHelper ==
    /\ Line("mkSource", "check1")
    /\ srcHelper' = [srcHelper EXCEPT ![k] = "running"]
    /\ UNCHANGED <<k, pin, claims, copied, tgtHelper, mount>>

TargetHelper ==
    /\ Line("mkTarget", "check2")
    /\ tgtHelper' = [tgtHelper EXCEPT ![k] = "running"]
    /\ mount' = [mount EXCEPT ![k] = claim[k]]
    /\ UNCHANGED <<k, pin, claims, copied, srcHelper>>

\* Stream, second read and completion, or the verification of an earlier copy.
CopyItem ==
    /\ Line("copy", "check3")
    /\ copied' = copied \cup {mount[k]}
    /\ UNCHANGED <<k, pin, claims, helpers>>

\* DeleteHelper sends the DELETE and does not wait for the Pod to go.
Terminate(pod) == [i \in Items |-> IF pod[i] = "running" THEN "terminating" ELSE pod[i]]

\* Mutant: the item index runs past the last item.
DeleteHelpersPastEnd ==
    /\ Line("delete", IF k = NItems THEN "ok" ELSE "item")
    /\ srcHelper' = Terminate(srcHelper) /\ tgtHelper' = Terminate(tgtHelper)
    /\ k' = k + 1
    /\ UNCHANGED <<pin, claims, copied, mount>>

DeleteHelpers ==
    /\ Line("delete", IF k = NItems THEN "ok" ELSE "item")
    /\ srcHelper' = Terminate(srcHelper) /\ tgtHelper' = Terminate(tgtHelper)
    /\ k' = IF k = NItems THEN k ELSE k + 1
    /\ UNCHANGED <<pin, claims, copied, mount>>

\* Mutant: no deferred cleanup.
AbortLeaksHelpers ==
    /\ step' = "refused"
    /\ UNCHANGED <<k, pin, claims, copied, helpers>>

\* A refusal or an error ends the plan; the deferred cleanup deletes the helpers.
\* The helpers of a runner that died stop at their deadline; their owner removes them.
Abort ==
    /\ step' = "refused"
    /\ srcHelper' = Terminate(srcHelper) /\ tgtHelper' = Terminate(tgtHelper)
    /\ UNCHANGED <<k, pin, claims, copied, mount>>

Refuse ==
    /\ step \in Refusable /\ ~Accepts
    /\ Abort
    /\ UNCHANGED outside

Fault ==
    /\ step \in Refusable /\ faults < MaxFaults
    /\ faults' = faults + 1
    /\ Abort
    /\ UNCHANGED <<foreign, swaps, consumers>>

Retry ==
    /\ step = "refused"
    /\ step' = "preflight" /\ k' = 1 /\ pin' = 0
    /\ UNCHANGED <<claims, copied, helpers, outside>>

-----------------------------------------------------------------------------
(* The cluster. *)

SourceHelperGone(i) ==
    /\ srcHelper[i] = "terminating"
    /\ srcHelper' = [srcHelper EXCEPT ![i] = "none"]
    /\ UNCHANGED <<exec, claims, copied, tgtHelper, mount, outside>>

TargetHelperGone(i) ==
    /\ tgtHelper[i] = "terminating"
    /\ tgtHelper' = [tgtHelper EXCEPT ![i] = "none"]
    /\ mount' = [mount EXCEPT ![i] = 0]
    /\ UNCHANGED <<exec, claims, copied, srcHelper, outside>>

\* A claim that a Pod mounts is protected from deletion.
ForeignDelete(i) ==
    /\ swaps < MaxSwaps /\ claim[i] # 0 /\ tgtHelper[i] = "none"
    /\ claim' = [claim EXCEPT ![i] = 0]
    /\ swaps' = swaps + 1
    /\ UNCHANGED <<exec, planned, uids, copied, helpers, foreign, consumers, faults>>

ForeignCreate(i) ==
    /\ swaps < MaxSwaps /\ claim[i] = 0
    /\ uids' = uids + 1
    /\ claim' = [claim EXCEPT ![i] = uids']
    /\ swaps' = swaps + 1
    /\ UNCHANGED <<exec, planned, copied, helpers, foreign, consumers, faults>>

ConsumerStarts(i) ==
    /\ consumers < MaxConsumers /\ i \notin foreign
    /\ foreign' = foreign \cup {i}
    /\ consumers' = consumers + 1
    /\ UNCHANGED <<exec, claims, copied, helpers, swaps, faults>>

ConsumerStops(i) ==
    /\ i \in foreign
    /\ foreign' = foreign \ {i}
    /\ UNCHANGED <<exec, claims, copied, helpers, swaps, consumers, faults>>

-----------------------------------------------------------------------------
Init ==
    /\ step = "preflight" /\ k = 1 /\ pin = 0
    /\ claim = [i \in Items |-> 0] /\ planned = {} /\ uids = 0
    /\ copied = {}
    /\ srcHelper = [i \in Items |-> "none"] /\ tgtHelper = [i \in Items |-> "none"]
    /\ mount = [i \in Items |-> 0]
    /\ foreign = {} /\ swaps = 0 /\ consumers = 0 /\ faults = 0

ExecuteDomain ==
    \/ Preflight \/ ItemPreflight \/ TargetUnused \/ ReadTarget \/ CreateTarget
    \/ LeafCheck \/ SourceHelper \/ TargetHelper \/ CopyItem \/ DeleteHelpers \/ Refuse

PodsEnd == \E i \in Items : SourceHelperGone(i) \/ TargetHelperGone(i)

Cluster == \E i \in Items :
    ForeignDelete(i) \/ ForeignCreate(i) \/ ConsumerStarts(i) \/ ConsumerStops(i)

Next == ExecuteDomain \/ Fault \/ Retry \/ PodsEnd \/ Cluster

Spec == Init /\ [][Next]_vars

\* The runner takes its next step, Pods that were told to go are gone in the end,
\* foreign consumers stop, and the control plane keeps sending a refused plan.
Fairness ==
    /\ WF_vars(ExecuteDomain) /\ WF_vars(Retry)
    /\ \A i \in Items : /\ WF_vars(SourceHelperGone(i)) /\ WF_vars(TargetHelperGone(i))
                        /\ WF_vars(ConsumerStops(i))

FairSpec == Spec /\ Fairness

-----------------------------------------------------------------------------
(* Properties. *)

\* Types. The item index of ExecuteDomain's loop stays an item of the plan.
TypeOK ==
    /\ step \in Steps /\ k \in Items /\ pin \in 0..uids
    /\ claim \in [Items -> 0..uids] /\ planned \subseteq 1..uids /\ uids \in Nat
    /\ copied \subseteq 1..uids
    /\ srcHelper \in [Items -> PodStates] /\ tgtHelper \in [Items -> PodStates]
    /\ mount \in [Items -> 0..uids]
    /\ foreign \subseteq Items
    /\ swaps \in 0..MaxSwaps /\ consumers \in 0..MaxConsumers /\ faults \in 0..MaxFaults

\* "Never adopts foreign claims": whoever deletes and recreates a target claim
\* between two calls of the runner, no byte is written to a volume that the plan
\* did not provision, although helpers mount claims by name.
WritesOnlyPlannedTargets == copied \subseteq planned

\* When ExecuteDomain is through with an item, the claim that has the name of its
\* target is one the plan provisioned, and the one the helper wrote to.
DoneItemIsCopied == step = "delete" => claim[k] \in copied \cap planned

\* Whatever foreign Pods and faults of the runner come in between, a plan that is
\* sent again after each refusal gets through its first item, unless others
\* replace claims: no helper that ExecuteDomain left behind blocks it for ever.
FirstItemCompletes == <>(k > 1 \/ step = "ok" \/ swaps > 0)

\* The "multi-item provision-and-copy adapter": with nobody else on its volumes
\* in the end, a plan that is sent again after each refusal returns success.
PlanCompletes == <>(step = "ok")

=============================================================================
