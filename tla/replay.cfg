\* Rounds of one session, cancelled and resumed.
SPECIFICATION Spec
CONSTANTS
  Files = {"f", "g"}
  Readers = {"read"}
  Writers = {"write"}
  Faults = {"tool", "edit", "cancel", "adapter"}
  MaxVersion = 1
  Replies <- SomeReplies
  MaxRounds = 2
  MaxTurns = 2
  MaxReplies = 2
  MaxSteers = 1
  Oracle = FALSE
  Truncate <- SomeTruncate
  Limits <- SomeLimits
  Sizes = {1, 4, 60}
  Parts <- SomeParts
  MaxParts = 4
INVARIANTS
  NoOvertaking
  RebuiltHistory
  NamedResults
  TruncationBounded
  RepliesEchoed
  ToolsAsOffered
