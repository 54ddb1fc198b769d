---------------------------- MODULE ExecutionPlan ----------------------------
(***************************************************************************)
(* The capabilities, the steps of the plan that serves one of them, and    *)
(* the conditions on a plan that may be executed.                          *)
(***************************************************************************)
EXTENDS Integers, Sequences

Capabilities == {"single_image_vqa", "grounding", "change_vqa", "optical_sar"}
PairCapabilities == {"change_vqa", "optical_sar"}

Needs == [single_image_vqa |-> <<"single_scene">>, grounding |-> <<"single_scene">>,
          change_vqa |-> <<"scene_pair">>, optical_sar |-> <<"optical_scene", "sar_scene">>]

\* The capabilities of the steps: a combined request is a change, then its
\* localisation.
Chain(capability, combined) ==
  IF combined THEN <<"change_vqa", "grounding">> ELSE <<capability>>

\* Each step but the first depends on the one before it and takes its output.
PlanSteps(chain) ==
  [k \in DOMAIN chain |->
     [id |-> k, capability |-> chain[k], dependsOn |-> {j \in {k - 1} : j >= 1},
      inputs |-> IF k = 1 THEN Needs[chain[k]] ELSE <<"step_1.output">>]]

Ids(plan) == {plan[k].id : k \in DOMAIN plan}
Position(plan, i) == CHOOSE k \in DOMAIN plan : plan[k].id = i

\* _reject_cycles: no step awaits itself, directly or through others, when any
\* steps there are have one among them that awaits none of them.
Acyclic(plan) ==
  \A S \in (SUBSET Ids(plan)) \ {{}} :
    \E i \in S : plan[Position(plan, i)].dependsOn \cap S = {}

\* validate_plan.
ValidPlan(plan) ==
  /\ plan # <<>>
  /\ \A j, k \in DOMAIN plan : plan[j].id = plan[k].id => j = k
  /\ \A k \in DOMAIN plan :
       /\ plan[k].capability \in Capabilities
       /\ plan[k].dependsOn \subseteq Ids(plan) \ {plan[k].id}
  /\ Acyclic(plan)
  /\ \A k \in DOMAIN plan : \A i \in plan[k].dependsOn : Position(plan, i) <= k
  /\ \A j, k \in DOMAIN plan :
       plan[j].capability = plan[k].capability /\ plan[j].inputs = plan[k].inputs => j = k

\* _assert_single_step_shape, of the only shape there is an executor for.
SingleStep(plan) == Len(plan) = 1 /\ plan[1].inputs = Needs[plan[1].capability]
=============================================================================
