\* The same instance; the claim is that the critic sends a draft back at most MaxAutoRevisions times.
SPECIFICATION Spec
CONSTANTS
  Overrun = 3
  NotInt = NotInt
  DefaultTokens = 4
  DeepTokens = 6
  DefaultSteps = 3
  DeepSteps = 4
  Ceiling = 8
  CallCosts = {2}
  Scores = {"low", "high", "junk", "absent"}
  MaxAttempts = 2
  MaxAutoRevisions = 3
  MaxHumanRevisions = 1
  MaxCrashes = 1
  MaxAutoCounted = 4
  Caps <- MCCaps
  StartRequests <- MCStartRequests
  PlanAnswers <- MCPlanAnswers
INVARIANT AutoRevisionsBounded
CHECK_DEADLOCK FALSE
