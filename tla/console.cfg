\* Lines, steering, Ctrl+C and leaving in every order.  A program that has
\* ended, and one that hangs after /exit, may stop.
SPECIFICATION Spec
CONSTANTS
  MaxLines = 3
  MaxSteers = 3
INVARIANTS
  CancelsItsRun
  SteeringKept
PROPERTIES
  LinesServed
CHECK_DEADLOCK FALSE
