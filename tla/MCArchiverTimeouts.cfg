CONSTANTS
  root = root
  child = child
  osfstorage = osfstorage
  addon = addon
  Nodes = {root, child}
  Root = root
  Order <- Tree2
  Parent <- Parent2
  Targets <- StorageOnly
  MaxRetries = 1
  Timeouts = TRUE
SPECIFICATION FairSpec
INVARIANTS
  TypeOK
  AskedIsReported
PROPERTIES
  Settles
\* The archiver stops when it has nothing left to do.
CHECK_DEADLOCK FALSE
