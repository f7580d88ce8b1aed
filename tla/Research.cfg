\* A research run with every kind of planner, critic and human, and one crash.
SPECIFICATION FairSpec
CONSTANTS
  Overrun = 3
  NotInt = NotInt
  DefaultTokens = 4
  DeepTokens = 6
  DefaultSteps = 3
  DeepSteps = 4
  Ceiling = 8
  CallCosts = {2}
  Scores = {"low", "high", "junk", "absent"}
  MaxAttempts = 2
  MaxAutoRevisions = 2
  MaxHumanRevisions = 1
  MaxCrashes = 1
  MaxAutoCounted = 0
  Caps <- MCCaps
  StartRequests <- MCStartRequests
  PlanAnswers <- MCPlanAnswers
INVARIANTS
  TypeOK
  ToolCallsCapped
  OvershootIsOneCall
  DeliveredIsGuarded
  DeliveredIsJudged
  DeliveredIsWritten
  BriefReachesWriter
PROPERTIES
  BreakerIsFinal
  Settles
CHECK_DEADLOCK FALSE
