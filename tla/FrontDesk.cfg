\* Three runs in a store that keeps two, and any two troubles, of one run or of several.
SPECIFICATION Spec
CONSTANTS
  Keep = 2
  Tickets = {"z1"}
  Samples = {"z1"}
  Requests <- MCRequests
  Headers = {"no key"}
  NoKey = "no key"
  NoTicket = "no ticket"
  MaxRuns = 3
  MaxTroubles = 2
INVARIANTS
  TypeOK
  KeysResolve
  OneRunPerKey
  NewestKept
  DeletedStaysDeleted
  NoGhostRow
  OneAnswerPerLoop
  CompletedAnswersTicket
  SolvedMeansDelivered
CHECK_DEADLOCK FALSE
