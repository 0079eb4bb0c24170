\* Runs that raise or are abandoned leave threads behind.
SPECIFICATION Spec
CONSTANTS
  NumSources = 3
  EntityOf <- OwnEntity
  LetterOf <- SharedStem
  Concurrency = 2
  Policies = {"raise", "skip", "dead_letter"}
  Faults = {"index", "unreadable", "letter", "abandon"}
  MaxRuns = 2
  MaxEditions = 1
INVARIANTS
  SeqInOrderUnfiled
