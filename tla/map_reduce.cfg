\* Two documents at once, one of three windows and one sharing a window, re-run.
SPECIFICATION FairSpec
CONSTANTS
  Docs = {"a", "b"}
  Pages <- TwoDocs
  x = x
  y = y
  z = z
  Sections = {x, y}
  Required = {x}
  Answers <- SomeAnswers
  ChunkChars = 8
  ReduceChars = 20
  MaxChars = 6
  FragmentChars = 5
  Concurrency = 2
  MaxRetries = 1
  Caching = TRUE
  Faults = {"transient", "adapter", "garbled", "disk", "crash", "damage"}
  MaxRuns = 3
INVARIANTS
  NoPartialResult
  PaidOnce
  TallyIsOwn
PROPERTIES
  RunEnds
