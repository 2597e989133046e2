CONSTANTS
  request1 = request1
  request2 = request2
  none = none
  Workflows = {"none", "pre-moderation", "post-moderation"}
  Requests = {request1, request2}
  MaxVersions = 2
  None = none
SPECIFICATION Spec
SYMMETRY MCSymmetry
INVARIANTS
  TypeOK
  PublishedAgreesWithState
  DecisionsShow
  OneDraft
\* Nothing is left once the only version is deleted.
CHECK_DEADLOCK FALSE
