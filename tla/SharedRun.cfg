\* The server: two requests at once, of any kind, and a restart.
SPECIFICATION Spec
CONSTANTS
  Tasks = {t1, t2}
  NoNode = "None"
  Planner = "planner"
  Fixer = "fixer"
  DefaultNode = "knowledge_lookup"
  Entry = "writer"
  Checkpoints = {"human_approve"}
  ReviseTargets = {"writer"}
  Plans = {}
  Nodes <- MCNodes
  Edges <- MCEdges
  FallbackNode <- MCFallbackNode
  MaxAttempts <- MCMaxAttempts
  Conditions <- MCConditions
  MaxHumanRevisions = 0
  Requests = {"approve", "reject", "revise", "resume"}
  SweepOnRestart = TRUE
  MaxCrashes = 1
SYMMETRY TaskSymmetry
INVARIANT NoGhost
CHECK_DEADLOCK FALSE
