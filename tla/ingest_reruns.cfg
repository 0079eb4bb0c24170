\* Re-runs after failures, crashes and a new prompt.
SPECIFICATION FairSpec
CONSTANTS
  NumSources = 3
  EntityOf <- SharedEntity
  LetterOf <- SharedStem
  Concurrency = 2
  Policies = {"skip", "dead_letter"}
  Faults = {"load", "transform", "entity", "index", "unreadable", "crash"}
  MaxRuns = 2
  MaxEditions = 2
INVARIANTS
  EntitiesCurrent
  ReportAccounts
PROPERTIES
  IndexKept
  RunEnds
