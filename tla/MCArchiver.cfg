CONSTANTS
  root = root
  child = child
  osfstorage = osfstorage
  addon = addon
  Nodes = {root, child}
  Root = root
  Order <- Tree2
  Parent <- Parent2
  Targets <- TwoAddons
  MaxRetries = 1
  Timeouts = FALSE
SPECIFICATION Spec
INVARIANTS
  SuccessIsComplete
PROPERTIES
  ImplementsOutcome
\* The archiver stops when it has nothing left to do.
CHECK_DEADLOCK FALSE
