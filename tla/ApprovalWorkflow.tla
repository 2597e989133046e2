--------------------------- MODULE ApprovalWorkflow ---------------------------
(***************************************************************************)
(* What an approval promises, whatever it approves: the transitions of     *)
(* APPROVAL_TRANSITIONS for an approvable entity that cannot be revised,   *)
(* with the two doors beside them (a moderator's own request, and          *)
(* forcibly_reject).  One row, one actor at a time; nothing is said of     *)
(* what the approval does when it takes effect.                            *)
(***************************************************************************)
CONSTANT Authorizers      \* the admins listed in approval_state

VARIABLES
  moderated,   \* is_moderated
  stage,       \* approval_stage; NONE before the row exists
  approvals    \* the authorizers who have approved

wfVars == <<moderated, stage, approvals>>

Stages == {"NONE", "UNAPPROVED", "PENDING_MODERATION", "APPROVED",
           "REJECTED", "MODERATOR_REJECTED"}

WorkflowInit ==
  /\ moderated \in BOOLEAN
  /\ stage \in {"NONE", "UNAPPROVED"}
  /\ approvals = {}

Create ==
  /\ stage = "NONE"
  /\ stage' = "UNAPPROVED"
  /\ UNCHANGED approvals

\* A moderator's own request skips the admins, not the moderation.
CreateByModerator ==
  /\ stage = "NONE"
  /\ moderated
  /\ stage' = "APPROVED"
  /\ UNCHANGED approvals

Accepted == IF moderated THEN "PENDING_MODERATION" ELSE "APPROVED"

\* One admin approves; the last one of them also accepts.
Approve(a) ==
  /\ stage = "UNAPPROVED"
  /\ approvals' = approvals \cup {a}
  /\ stage' = IF approvals' = Authorizers THEN Accepted ELSE stage

\* The approval period is over, or another decision takes this one along.
TimeOut ==
  /\ stage = "UNAPPROVED"
  /\ stage' = Accepted
  /\ UNCHANGED approvals

RejectByAdmin ==
  /\ stage = "UNAPPROVED"
  /\ stage' = "REJECTED"
  /\ UNCHANGED approvals

DecideByModerator ==
  /\ stage = "PENDING_MODERATION"
  /\ stage' \in {"APPROVED", "MODERATOR_REJECTED"}
  /\ UNCHANGED approvals

ForciblyReject ==
  /\ stage # "NONE"
  /\ stage' = "REJECTED"
  /\ UNCHANGED approvals

WorkflowNext ==
  /\ UNCHANGED moderated
  /\ \/ Create
     \/ CreateByModerator
     \/ \E a \in Authorizers : Approve(a)
     \/ TimeOut
     \/ RejectByAdmin
     \/ DecideByModerator
     \/ ForciblyReject

WorkflowSpec == WorkflowInit /\ [][WorkflowNext]_wfVars
=============================================================================
