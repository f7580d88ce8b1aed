\* The bare runner dies while the fixer works and the run is resumed.
SPECIFICATION Spec
CONSTANTS
  Tasks = {t1}
  NoNode = "None"
  Planner = "planner"
  Fixer = "fixer"
  DefaultNode = "knowledge_lookup"
  Entry = "writer"
  Checkpoints = {"human_approve"}
  ReviseTargets = {"writer"}
  Plans = {}
  Nodes <- MCNodes
  Edges <- MCEdges
  FallbackNode <- MCFallbackNode
  MaxAttempts <- MCMaxAttempts
  Conditions <- MCConditions
  MaxHumanRevisions = 1
  Requests = {"resume"}
  SweepOnRestart = FALSE
  MaxCrashes = 1
INVARIANT CompletedMeansDelivered
CHECK_DEADLOCK FALSE
