\* A ticket with every answer of every agent, two human revisions and one crash.
SPECIFICATION FairSpec
CONSTANTS
  Configs <- MCConfigs
  MaxHumanRevisions = 2
  MaxCrashes = 1
INVARIANTS
  EscalationReachesHuman
  ForcedReviewIsSigned
  UnapprovedAfterTwoRefusals
  RightSpecialist
  AnsweredOncePerCrash
PROPERTY Settles
CHECK_DEADLOCK FALSE
