\* Two writers on one session id.  A log broken with no Session open on it
\* can never be loaded again: there the model stops, as the session does.
SPECIFICATION Spec
CONSTANTS
  w1 = w1
  w2 = w2
  Writers <- TwoWriters
  AutoSave <- TwoAutoSave
  Faults = {"kill", "abandon", "hook", "disk", "torn"}
  MaxEvents = 3
  MaxTexts = 2
CHECK_DEADLOCK FALSE
INVARIANTS
  SeenIsDurable
  LogOrdered
