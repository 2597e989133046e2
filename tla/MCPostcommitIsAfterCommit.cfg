CONSTANTS
  Stacks <- MCStacks
  MaxRequests = 1
SPECIFICATION Spec
INVARIANTS
  PostcommitIsAfterCommit
\* The requests of the thread are bounded.
CHECK_DEADLOCK FALSE
