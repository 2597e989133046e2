CONSTANTS
  admin1 = admin1
  admin2 = admin2
  design = design
  sample = sample
  x = x
  y = y
  markedX = markedX
  blank = blank
  false = false
  none = none
  Admins = {admin1, admin2}
  Creators = {admin1, admin2}
  Keys = {design}
  Required = {design}
  Answers = {x, y}
  Registered <- MCRegistered
  Blank = blank
  Empty = false
  Inputs <- MCInputs
  StripHtml <- MCStripHtml
  None = none
  MaxResponses = 3
SPECIFICATION Spec
INVARIANTS
  OneOpenRevision
\* Nothing moves once the registration is deleted.
CHECK_DEADLOCK FALSE
