----------------------------- MODULE MCTraining -----------------------------
(***************************************************************************)
(* Training on three patches, with permutations that differ, and steps of  *)
(* two micro-batches: an epoch ends in mid-step, and another at the end.   *)
(***************************************************************************)
EXTENDS Training

\* Records of throughput that are used, and that are of another config, not
\* positive or not complete; budgets of three steps and of none; sessions cut
\* to two steps, or to none by the reserve.
MCThroughput == [complete |-> TRUE, rate |-> 1, of |-> "this"]
Ask(t, b, l) ==
  [throughput |-> t, budget |-> b, limit |-> l,
   train |-> [side |-> "train", tiles |-> {1}], eval |-> [side |-> "eval", tiles |-> {2}]]
MCAsks ==
  {Ask(MCThroughput, None, None), Ask(MCThroughput, None, 3),
   Ask(MCThroughput, 1, None), Ask(MCThroughput, 0, None),
   Ask([MCThroughput EXCEPT !.of = "other"], None, None),
   Ask([MCThroughput EXCEPT !.rate = 0], None, None),
   Ask([MCThroughput EXCEPT !.complete = FALSE], None, None),
   [Ask(MCThroughput, 9, None) EXCEPT !.eval = [side |-> "eval", tiles |-> {1}]],
   [Ask(MCThroughput, 9, None) EXCEPT !.train = [side |-> "eval", tiles |-> {2}]]}

MCOrder ==
  [e \in 0 .. 2 |-> IF e % 2 = 0 THEN [c \in 0 .. 2 |-> c]
                   ELSE [c \in 0 .. 2 |-> (c + 2) % 3]]
=============================================================================
