\* A process with live sessions, and commands beside it, on one directory.
SPECIFICATION Spec
CONSTANTS
  repl = repl
  cmd = cmd
  Hosts <- OneHost
  Commands <- OneCommand
  NumIds = 2
  Name <- Names
  MaxEvents = 3
  TreeSize = 4
  Accidents = {"kill", "abandon"}
INVARIANTS
  SelfContained
  LineageKept
  ViewsAgree
  ReadersExact
\* Every process may have ended for good.
CHECK_DEADLOCK FALSE
