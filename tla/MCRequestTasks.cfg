CONSTANTS
  Stacks <- MCStacks
  MaxRequests = 3
SPECIFICATION Spec
INVARIANTS
  TypeOK
  SentIsCommitted
  ResponsesAreTrue
PROPERTIES
  SentInItsRequest
\* The requests of the thread are bounded.
CHECK_DEADLOCK FALSE
