CONSTANTS
  u1 = u1
  u2 = u2
  u3 = u3
  Users <- MCUsers
  Creator = u1
  Permissions <- MCPermissions
  Slots = 1
SPECIFICATION Spec
SYMMETRY MCSymmetry
INVARIANTS
  TypeOK
  GroupsAgree
  SomeVisible
  RegisteredAdmin
PROPERTIES
  MergeKeepsTheBest
\* Nobody is left to ask once the accounts are deleted.
CHECK_DEADLOCK FALSE
