---------------------------- MODULE TrainingPlan ----------------------------
(***************************************************************************)
(* How a session of scripts/run_stage1_full.py is sized: its total steps,  *)
(* which also fix the schedule of the learning rate, and the steps the     *)
(* session may run, from a measured throughput and never from a guess.     *)
(* Seconds are whole, and so is the rate of samples per second.            *)
(***************************************************************************)
EXTENDS Integers

CONSTANTS
  Accum,    \* gradient_accumulation_steps; with batch_size 1 the whole batch
  Budget, Limit, Reserve, \* seconds, as the config gives them
  Identity, \* shard manifest, config and device of the session
  Asks,     \* bound: command lines and the throughput records they name
  Measures, \* bound: the steps a throughput measurement may be asked for
  None      \* model value: an option that is not given

Given(option, default) == IF option = None THEN default ELSE option

ASSUME PlanAssumption ==
  /\ Accum \in Nat \ {0} /\ Reserve \in Int
  /\ Measures \subseteq Nat \ {0}
  /\ \A a \in Asks : /\ a.throughput.rate \in Int
                     /\ Given(a.budget, Budget) \in Int
                     /\ Given(a.limit, Limit) \in Int

\* load_throughput: a record that is complete, positive, and of this session's
\* shards, config, device and precision.
Usable(throughput) ==
  throughput.complete /\ throughput.rate > 0 /\ throughput.of = Identity

\* Training reads the train side; an evaluation reads tiles of the other.
SidesFit(ask) ==
  /\ ask.train.side = "train"
  /\ ask.eval # None =>
       ask.eval.side = "eval" /\ ask.train.tiles \cap ask.eval.tiles = {}

\* plan_from_throughput.
StepsIn(seconds, rate) == IF seconds > 0 THEN (seconds * rate) \div Accum ELSE 0
TotalSteps(ask) == StepsIn(Given(ask.budget, Budget), ask.throughput.rate)
SessionCap(ask) == StepsIn(Given(ask.limit, Limit) - Reserve, ask.throughput.rate)

Planned(ask) == SidesFit(ask) /\ Usable(ask.throughput) /\ TotalSteps(ask) > 0

Plans == {[total |-> TotalSteps(a), cap |-> SessionCap(a)] : a \in {x \in Asks : Planned(x)}}

\* The totals of every session.
Totals == {p.total : p \in Plans} \cup Measures
=============================================================================
