\* Two queries under every fault, without compaction.
SPECIFICATION Spec
CONSTANTS
  MaxIterations = 2
  NudgeInterval = 1
  MaxErrors = 1
  KeepRecent = 3
  MaxNotes = 1
  OracleConfigured = TRUE
  Tiers = {}
  Facts = {"f"}
  Replies <- MixedReplies
  Faults = {"tool", "adapter", "hook", "cancel", "no_adapter"}
  MaxQueries = 2
  MaxSteers = 0
INVARIANTS
  AnswersInCallOrder
  PromptAnswersThisQuery
  ExactlyOneTerminal
  OneNudgePerStreak
