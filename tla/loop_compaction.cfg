\* Steering, compaction, cancellation and termination, under fairness.
SPECIFICATION FairSpec
CONSTANTS
  MaxIterations = 2
  NudgeInterval = 1
  MaxErrors = 2
  KeepRecent = 2
  MaxNotes = 1
  OracleConfigured = FALSE
  Tiers = {1, 2, 3}
  Facts = {}
  Replies <- CompactionReplies
  Faults = {"cancel"}
  MaxQueries = 2
  MaxSteers = 2
INVARIANTS
  SteeringConserved
  OrphansBehindSummary
PROPERTIES
  QueryTerminates
