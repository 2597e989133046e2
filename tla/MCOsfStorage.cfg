CONSTANTS
  project = project
  preprint = preprint
  r1 = r1
  r2 = r2
  d1 = d1
  d2 = d2
  f1 = f1
  u1 = u1
  u2 = u2
  none = none
  Projects <- MCProjects
  Preprints <- MCPreprints
  Root <- MCRoot
  Folders <- MCFolders
  Files <- MCFiles
  Users <- MCUsers
  None = none
  Wanted <- MCWanted
  MaxCheckouts = 1
  MaxTasks = 1
SPECIFICATION Spec
SYMMETRY MCSymmetry
INVARIANTS
  TypeOK
  TargetsAgree
  CheckedOutByContributors
  PrimaryStays
  NothingOutlivesItsProject
PROPERTIES
  CheckedOutStays
