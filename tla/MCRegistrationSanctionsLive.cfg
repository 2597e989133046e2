CONSTANTS
  admin1 = admin1
  admin2 = admin2
  root = root
  child = child
  approval = approval
  embargo = embargo
  term1 = term1
  term2 = term2
  retr1 = retr1
  retr2 = retr2
  none = none
  Admins = {admin1, admin2}
  Nodes = {root, child}
  Root = root
  Approval = approval
  Embargo = embargo
  Terminations = {term1}
  Retractions = {retr1}
  None = none
SPECIFICATION SettledSpec
INVARIANTS
  PublicIsApproved
PROPERTIES
  FollowsWorkflow
  SanctionsAreDecided
