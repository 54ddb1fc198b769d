\* Two inputs of each kind: see MCDecisions.
CONSTANTS
  PlanRequests <- MCPlanRequests
  Pairs <- MCPairs
  MaxWidth = 10
SPECIFICATION DecisionSpec
INVARIANTS PlanKeepsQuestion PairVerdict
CHECK_DEADLOCK FALSE
