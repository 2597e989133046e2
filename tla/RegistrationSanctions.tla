------------------------ MODULE RegistrationSanctions ------------------------
(***************************************************************************)
(* The life of one registration under its sanctions: the registration      *)
(* approval or embargo it is created with, the early termination of that   *)
(* embargo, and its retraction (shown to users as withdrawal).             *)
(*                                                                         *)
(* Actors: the admin contributors (token links and API), the moderators of *)
(* the registration provider, the nightly scripts, the archiver and the    *)
(* admin application.  An HTTP request is one database transaction         *)
(* (ATOMIC_REQUESTS) and so one step.  A nightly script runs in autocommit *)
(* mode outside of any transaction, so a script whose publication step     *)
(* fails leaves behind what it had already saved.                          *)
(*                                                                         *)
(* Time is abstracted: a pending sanction may become overdue, and an       *)
(* embargo may reach its end date, at any moment.                          *)
(***************************************************************************)
EXTENDS Naturals

CONSTANTS
  Admins,        \* admin contributors, the authorizers of every sanction
  Nodes,         \* the registration and its components
  Root,          \* the registration itself: sanctions hang on the root only
  Approval,      \* the RegistrationApproval row
  Embargo,       \* the Embargo row
  Terminations,  \* EmbargoTerminationApproval rows that may be created
  Retractions,   \* Retraction rows that may be created
  None           \* a null foreign key

Sanctions == {Approval, Embargo} \cup Terminations \cup Retractions

ASSUME RootAssumption == Root \in Nodes

ASSUME AdminsAssumption == Admins # {}

ASSUME SanctionsAssumption ==
  /\ Approval # Embargo
  /\ {Approval, Embargo} \cap (Terminations \cup Retractions) = {}
  /\ Terminations \cap Retractions = {}
  /\ None \notin Sanctions

\* ApprovalStates a sanction can be in; NONE is a row not yet created.
ApprovalStates == {"NONE", "UNAPPROVED", "PENDING_MODERATION", "APPROVED",
                   "REJECTED", "MODERATOR_REJECTED", "COMPLETED"}

\* The moderation states a row may hold: not UNDEFINED, which stands for a
\* sanction that determines none.
RegistrationModerationStates ==
  {"INITIAL", "REVERTED", "PENDING", "REJECTED", "ACCEPTED",
   "EMBARGO", "PENDING_EMBARGO_TERMINATION", "PENDING_WITHDRAW_REQUEST",
   "PENDING_WITHDRAW", "WITHDRAWN"}

VARIABLES
  moderated,    \* provider.is_reviewed
  archive,      \* stage of the archive job tree
  state,        \* state of each sanction row
  approved,     \* approval_state: the admins whose has_approved is set
  retraction,   \* foreign key of the root
  termination,  \* foreign key of the root: embargo_termination_approval
  forExisting,  \* embargo.for_existing_registration
  modState,     \* moderation_state of each node
  public,       \* is_public of each node
  deleted,      \* is_deleted, set on the whole tree
  source        \* whether registered_from is still set

links == <<retraction, termination>>
fixed == <<moderated, archive>>
tree  == <<forExisting, deleted, source>>
vars  == <<fixed, state, approved, links, tree, modState, public>>

-----------------------------------------------------------------------------
\* RegistrationModerationStates.from_sanction

FromApproval(st) ==
  CASE st = "UNAPPROVED"         -> "INITIAL"
    [] st = "PENDING_MODERATION" -> "PENDING"
    [] st = "APPROVED"           -> "ACCEPTED"
    [] st = "REJECTED"           -> "REVERTED"
    [] st = "MODERATOR_REJECTED" -> "REJECTED"
    [] OTHER                     -> "UNDEFINED"

\* Fault: no entry for a completed embargo.
FromEmbargo_Incomplete(st) == IF st = "APPROVED" THEN "EMBARGO" ELSE FromApproval(st)

FromEmbargo(st) ==
  CASE st = "APPROVED"  -> "EMBARGO"
    [] st = "COMPLETED" -> "ACCEPTED"
    [] OTHER            -> FromApproval(st)

FromRetraction(st) ==
  CASE st = "UNAPPROVED"         -> "PENDING_WITHDRAW_REQUEST"
    [] st = "PENDING_MODERATION" -> "PENDING_WITHDRAW"
    [] st = "APPROVED"           -> "WITHDRAWN"
    [] OTHER                     -> "UNDEFINED"

FromTermination(st) ==
  CASE st = "UNAPPROVED"                              -> "PENDING_EMBARGO_TERMINATION"
    [] st \in {"PENDING_MODERATION", "APPROVED"}      -> "ACCEPTED"
    [] st \in {"REJECTED", "MODERATOR_REJECTED"}      -> "EMBARGO"
    [] OTHER                                          -> "UNDEFINED"

\* Fault: a termination is looked for before a retraction.
ActiveSanction_TerminationFirst(st, ret, term) ==
  IF term # None THEN term
  ELSE IF ret # None THEN ret
  ELSE IF st[Embargo] # "NONE" THEN Embargo
  ELSE Approval

\* Registration.sanction: the first foreign key set, in this order.
ActiveSanction(st, ret, term) ==
  IF ret # None THEN ret
  ELSE IF term # None THEN term
  ELSE IF st[Embargo] # "NONE" THEN Embargo
  ELSE Approval

FromSanction(s, st) ==
  IF s \in Retractions THEN FromRetraction(st)
  ELSE IF s \in Terminations THEN FromTermination(st)
  ELSE IF s = Embargo THEN FromEmbargo(st)
  ELSE FromApproval(st)

\* The state update_moderation_state derives: that of the active sanction or,
\* when it has none (a rejected retraction), of the sanction underneath.
Derived(st, ret, term) ==
  LET active     == ActiveSanction(st, ret, term)
      underlying == IF st[Embargo] # "NONE" THEN Embargo ELSE Approval
      direct     == FromSanction(active, st[active])
  IN  IF direct # "UNDEFINED" THEN direct
                              ELSE FromSanction(underlying, st[underlying])

\* RegistrationModerationTriggers.from_transition, for the triggers a
\* moderator can request; "NONE" writes no RegistrationAction.
FromTransition(from, to) ==
  CASE from = "PENDING" /\ to \in {"ACCEPTED", "EMBARGO"}          -> "ACCEPT_SUBMISSION"
    [] from = "PENDING" /\ to = "REJECTED"                         -> "REJECT_SUBMISSION"
    [] from = "PENDING_WITHDRAW" /\ to = "WITHDRAWN"               -> "ACCEPT_WITHDRAWAL"
    [] from = "PENDING_WITHDRAW" /\ to \in {"ACCEPTED", "EMBARGO"} -> "REJECT_WITHDRAWAL"
    [] from \in {"ACCEPTED", "EMBARGO"} /\ to = "WITHDRAWN"        -> "FORCE_WITHDRAW"
    [] OTHER                                                       -> "NONE"

-----------------------------------------------------------------------------
\* What the handlers ask of a registration

IsEmbargoed == ~public[Root] /\ state[Embargo] = "APPROVED"

HasCurrentEmbargo == state[Embargo] \in {"UNAPPROVED", "APPROVED"}

IsPendingRetraction == retraction # None /\ state[retraction] = "UNAPPROVED"

\* Save the sanction rows and foreign keys, then update_moderation_state:
\* the derived state is written to every node of the tree.
Settle(st, ret, term) ==
  /\ state' = st
  /\ retraction' = ret
  /\ termination' = term
  /\ modState' = [n \in Nodes |-> Derived(st, ret, term)]

\* Fault: only the registration approval is looked at.
MayPublish_EmbargoUnchecked(st) ==
  /\ st[Approval] # "UNAPPROVED"
  /\ public[Root] \/ st[Embargo] # "APPROVED"

\* set_privacy('public') refuses while the sanction the registration was
\* created with is pending approval, or an embargo is in force.
MayPublish(st) ==
  /\ st[Approval] # "UNAPPROVED"
  /\ st[Embargo] # "UNAPPROVED"
  /\ public[Root] \/ st[Embargo] # "APPROVED"

\* Make the nodes of P public; a node that is public already is skipped.
Publish(st, P) ==
  /\ (\E n \in P : ~public[n]) => MayPublish(st)
  /\ public' = [n \in Nodes |-> public[n] \/ n \in P]

Init ==
  /\ moderated \in BOOLEAN
  /\ archive = "ARCHIVING"
  /\ \E first \in {Approval, Embargo} :
       state = [s \in Sanctions |-> IF s = first THEN "UNAPPROVED" ELSE "NONE"]
  /\ approved = [s \in Sanctions |-> {}]
  /\ retraction = None
  /\ termination = None
  /\ forExisting = FALSE
  /\ modState = [n \in Nodes |-> "INITIAL"]
  /\ public = [n \in Nodes |-> FALSE]
  /\ deleted = FALSE
  /\ source = TRUE

-----------------------------------------------------------------------------
\* What a sanction does when it is accepted (_on_complete) and rejected
\* (_on_reject).  These run inside the step of the caller.

CompleteApproval ==
  /\ source
  /\ LET st == [state EXCEPT ![Approval] = "APPROVED"]
     IN  Settle(st, retraction, termination) /\ Publish(st, Nodes)

CompleteEmbargo ==
  /\ source
  /\ Settle([state EXCEPT ![Embargo] = "APPROVED"], retraction, termination)
  /\ UNCHANGED public

\* Fault: the pending request is left to itself.
Lifted_RequestForgotten(st) == [st EXCEPT ![Embargo] = "COMPLETED"]

\* terminate_embargo: the embargo is completed and a pending request to
\* terminate it early is accepted along with it.
Lifted(st) ==
  [s \in Sanctions |-> IF s = Embargo THEN "COMPLETED"
                       ELSE IF s = termination /\ st[s] = "UNAPPROVED" THEN "APPROVED"
                       ELSE st[s]]

CompleteTermination(t) ==
  LET st == [state EXCEPT ![t] = "APPROVED"]
  IN  IF IsEmbargoed
      THEN /\ source
           /\ Settle(Lifted(st), retraction, termination)
           /\ Publish(Lifted(st), Nodes)
      ELSE /\ Settle(st, retraction, termination)
           /\ UNCHANGED public

\* withdraw: cancel an embargo that is pending or in force, then publish.
Cancelled(st) ==
  [st EXCEPT ![Embargo] = IF ~HasCurrentEmbargo THEN @
                          ELSE IF moderated THEN "MODERATOR_REJECTED" ELSE "REJECTED"]

\* Fault: the log on the source project is skipped when there is none.
CompleteRetraction_Orphan(r) ==
  LET st == [Cancelled(state) EXCEPT ![r] = "APPROVED"]
  IN  Settle(st, r, termination) /\ Publish(st, Nodes)

CompleteRetraction(r) ==
  /\ source
  /\ LET st == [Cancelled(state) EXCEPT ![r] = "APPROVED"]
     IN  Settle(st, r, termination) /\ Publish(st, Nodes)

Complete(s) ==
  \/ s = Approval /\ CompleteApproval
  \/ s = Embargo /\ CompleteEmbargo
  \/ s \in Terminations /\ CompleteTermination(s)
  \/ s \in Retractions /\ s = retraction /\ CompleteRetraction(s)

\* Fault: the moderators are passed over.
Accept_Unmoderated(s) == Complete(s)

\* The accept trigger on a sanction awaiting its admins: to the moderators when
\* the provider has them, and into effect otherwise.  The termination of an
\* embargo is never moderated.
Accept(s) ==
  IF moderated /\ s \notin Terminations
  THEN /\ s \in Retractions => s = retraction
       /\ Settle([state EXCEPT ![s] = "PENDING_MODERATION"], retraction, termination)
       /\ UNCHANGED public
  ELSE Complete(s)

\* Fault: a rejected approval deletes under the condition of an embargo.
RejectFirst_EmbargoRule(s, outcome) ==
  /\ s \in {Approval, Embargo}
  /\ source
  /\ Settle([state EXCEPT ![s] = outcome], retraction, termination)
  /\ deleted' = (deleted \/ ~forExisting)
  /\ source' = forExisting

\* Rejecting the sanction a registration was created with deletes it, and cuts
\* it off the project it came from; an embargo put on an existing registration
\* is only dropped.
RejectFirst(s, outcome) ==
  /\ s \in {Approval, Embargo}
  /\ source
  /\ Settle([state EXCEPT ![s] = outcome], retraction, termination)
  /\ deleted' = (deleted \/ s = Approval \/ ~forExisting)
  /\ source' = forExisting

RejectTermination(t, outcome) ==
  /\ t \in Terminations
  /\ Settle([state EXCEPT ![t] = outcome], retraction, None)
  /\ UNCHANGED <<deleted, source>>

RejectRetraction(r, outcome) ==
  /\ r \in Retractions
  /\ r = retraction
  /\ source
  /\ Settle([state EXCEPT ![r] = outcome], retraction, termination)
  /\ UNCHANGED <<deleted, source>>

Reject(s, outcome) ==
  /\ RejectFirst(s, outcome) \/ RejectTermination(s, outcome) \/ RejectRetraction(s, outcome)
  /\ UNCHANGED <<public, forExisting>>

-----------------------------------------------------------------------------
\* Admin contributors

\* Approval links are mailed once the archive is complete; nobody is asked to
\* approve an embargo the admin application put on an existing registration.
Asked(s) == s \in {Approval, Embargo} => archive = "SENT" /\ ~(s = Embargo /\ forExisting)

AdminApprove(s, a) ==
  /\ Asked(s)
  /\ state[s] = "UNAPPROVED"
  /\ approved' = [approved EXCEPT ![s] = @ \cup {a}]
  /\ IF approved[s] \cup {a} = Admins
     THEN Accept(s)
     ELSE UNCHANGED <<state, links, modState, public>>
  /\ UNCHANGED <<fixed, tree>>

\* Fault: a rejection link works after the sanction took effect.
AdminReject_Late(s) ==
  /\ state[s] \in {"UNAPPROVED", "APPROVED"}
  /\ Reject(s, "REJECTED")
  /\ UNCHANGED <<fixed, approved>>

AdminReject(s) ==
  /\ state[s] = "UNAPPROVED"
  /\ Reject(s, "REJECTED")
  /\ UNCHANGED <<fixed, approved>>

RequestRetraction(r) ==
  /\ ~deleted /\ source
  /\ ~IsPendingRetraction
  /\ public[Root] \/ HasCurrentEmbargo
  /\ state[r] = "NONE"
  /\ Settle([state EXCEPT ![r] = "UNAPPROVED"], r, termination)
  /\ UNCHANGED <<fixed, approved, tree, public>>

\* Making an embargoed registration public asks for an early termination.
RequestTermination(t) ==
  /\ ~deleted
  /\ IsEmbargoed
  /\ state[Approval] # "UNAPPROVED"
  /\ state[t] = "NONE"
  /\ Settle([state EXCEPT ![t] = "UNAPPROVED"], retraction, t)
  /\ UNCHANGED <<fixed, approved, tree, public>>

MakePublic(n) ==
  /\ ~deleted
  /\ ~public[n]
  /\ Publish(state, {n})
  /\ UNCHANGED <<fixed, state, approved, links, tree, modState>>

-----------------------------------------------------------------------------
\* Moderators, through the registration actions of the API: the request is
\* rolled back unless the last change recorded is of the trigger asked for,
\* which takes a change that is recorded, but for forced withdrawals.

ModeratorAccept ==
  LET s == ActiveSanction(state, retraction, termination)
  IN  /\ state[s] = "PENDING_MODERATION"
      /\ Complete(s)
      /\ FromTransition(modState[Root], modState'[Root])
           \in {"ACCEPT_SUBMISSION", "ACCEPT_WITHDRAWAL"}
      /\ UNCHANGED <<fixed, approved, tree>>

ModeratorReject ==
  LET s == ActiveSanction(state, retraction, termination)
  IN  /\ state[s] = "PENDING_MODERATION"
      /\ Reject(s, "MODERATOR_REJECTED")
      /\ FromTransition(modState[Root], modState'[Root])
           \in {"REJECT_SUBMISSION", "REJECT_WITHDRAWAL"}
      /\ UNCHANGED <<fixed, approved>>

\* The request passes on the last action of the registration, be it of this
\* withdrawal or of an earlier one (whoever asked for that one: the actions are
\* not kept here, so this allows a little more than the code).
ForceWithdraw(r) ==
  /\ moderated
  /\ public[Root] \/ HasCurrentEmbargo
  /\ state[r] = "NONE"
  /\ CompleteRetraction(r)
  /\ LET trigger == FromTransition(modState[Root], modState'[Root])
     IN  \/ trigger = "FORCE_WITHDRAW"
         \/ trigger = "NONE" /\ \E o \in Retractions : state[o] = "APPROVED"
  /\ UNCHANGED <<fixed, approved, tree>>

-----------------------------------------------------------------------------
\* Nightly scripts.  They act for nobody (user = None), which the sanctions
\* allow only for accept and only while awaiting the admins.

\* Fault: deleted registrations are passed over.
NightlyApproval_SkipsDeleted ==
  /\ state[Approval] = "UNAPPROVED"
  /\ ~deleted
  /\ archive # "ARCHIVING"
  /\ Accept(Approval)
  /\ UNCHANGED <<fixed, approved, tree>>

\* approve_registrations; also what the admin application runs on its backlog.
NightlyApproval ==
  /\ state[Approval] = "UNAPPROVED"
  /\ IF deleted
     THEN /\ state' = [state EXCEPT ![Approval] = "REJECTED"]
          /\ UNCHANGED <<links, modState, public>>
     ELSE /\ archive # "ARCHIVING"
          /\ Accept(Approval)
  /\ UNCHANGED <<fixed, approved, tree>>

\* Fault: a registration with a retraction attached is passed over.
NightlyEmbargo_SkipsRetraction ==
  /\ state[Embargo] = "UNAPPROVED"
  /\ ~deleted
  /\ retraction = None
  /\ Accept(Embargo)
  /\ UNCHANGED <<fixed, approved, tree>>

\* embargo_registrations, first loop: it does not look at the archive.
NightlyEmbargo ==
  /\ state[Embargo] = "UNAPPROVED"
  /\ ~deleted
  /\ Accept(Embargo)
  /\ UNCHANGED <<fixed, approved, tree>>

\* The sets of nodes a publication loop may have saved when it ends: the root
\* comes first, and the loop stops at the node it fails to publish.
Published == {P \in SUBSET Nodes : P # {} => Root \in P}

\* embargo_registrations, second loop: terminate_embargo for an embargo past
\* its end date, on the registration the script loaded.  A failure to publish
\* (no DOI could be minted) rolls nothing back.  Publishing the root writes the
\* whole row, with the moderation_state read before the pending termination
\* request was accepted.
NightlyExpiry(P) ==
  /\ IsEmbargoed
  /\ ~deleted /\ source
  /\ LET read == [state EXCEPT ![Embargo] = "COMPLETED"]
         st   == Lifted(state)
     IN  /\ state' = st
         /\ modState' = [n \in Nodes |-> IF n = Root /\ Root \in P
                                         THEN Derived(read, retraction, termination)
                                         ELSE Derived(st, retraction, termination)]
         /\ Publish(st, P)
  /\ UNCHANGED <<fixed, approved, links, tree>>

\* approve_embargo_terminations: one transaction for the whole run.
NightlyTermination(t) ==
  /\ state[t] = "UNAPPROVED"
  /\ termination = t
  /\ IF IsEmbargoed
     THEN Accept(t)
     ELSE /\ termination' = None
          /\ UNCHANGED <<state, retraction, modState, public>>
  /\ UNCHANGED <<fixed, approved, tree>>

\* Fault: only public registrations are looked at.
NightlyRetraction_PublicOnly(r) ==
  /\ state[r] = "UNAPPROVED"
  /\ retraction = r
  /\ public[Root]
  /\ Accept(r)
  /\ UNCHANGED <<fixed, approved, tree>>

\* retract_registrations
NightlyRetraction(r) ==
  /\ state[r] = "UNAPPROVED"
  /\ retraction = r
  /\ Accept(r)
  /\ UNCHANGED <<fixed, approved, tree>>

\* The same, when publishing fails after the nodes of P: the embargo has been
\* cancelled and they are public, but the retraction is not saved.
NightlyRetractionFails(r, P) ==
  /\ ~moderated
  /\ state[r] = "UNAPPROVED"
  /\ retraction = r
  /\ source
  /\ \E n \in Nodes \ P : ~public[n]
  /\ state' = Cancelled(state)
  /\ Publish(Cancelled(state), P)
  /\ UNCHANGED <<fixed, approved, links, tree, modState>>

-----------------------------------------------------------------------------
\* The archiver and the admin application

\* The archive job of the root is done (job.done, all that `archiving` looks at:
\* the jobs of the components may still be copying).
ArchiveFinished ==
  /\ archive = "ARCHIVING"
  /\ archive' = "FINISHED"
  /\ UNCHANGED <<moderated, state, approved, links, tree, modState, public>>

\* archive_success: ask the contributors for their approval.
ArchiveSuccess ==
  /\ archive = "FINISHED"
  /\ archive' = "SENT"
  /\ UNCHANGED <<moderated, state, approved, links, tree, modState, public>>

\* handle_archive_fail: forcibly reject the active sanction, whatever it is,
\* and delete the registration.
ArchiveFail ==
  /\ archive \in {"ARCHIVING", "FINISHED"}
  /\ source
  /\ archive' = "FAILED"
  /\ state' = [state EXCEPT ![ActiveSanction(state, retraction, termination)] = "REJECTED"]
  /\ deleted' = TRUE
  /\ source' = forExisting
  /\ UNCHANGED <<moderated, approved, links, forExisting, modState, public>>

\* Fault: the state is assigned instead of triggering the transition.
UpdateEmbargo_Assigned ==
  /\ state[Embargo] # "NONE"
  /\ state' = [state EXCEPT ![Embargo] = "APPROVED"]
  /\ public' = [public EXCEPT ![Root] = FALSE]
  /\ UNCHANGED <<fixed, approved, links, tree, modState>>

\* Fault: the registration keeps its visibility.
UpdateEmbargo_StaysPublic ==
  /\ state[Embargo] # "NONE"
  /\ state' = [state EXCEPT ![Embargo] = "APPROVED"]
  /\ modState' = [n \in Nodes |-> IF n = Root THEN modState[Root]
                                  ELSE Derived(state', retraction, termination)]
  /\ UNCHANGED <<fixed, approved, links, tree, public>>

\* change_embargo_date on a registration with an embargo approves that embargo.
\* The new moderation_state is overwritten on the root by the saved copy of the
\* registration the request began with.
UpdateEmbargo ==
  /\ state[Embargo] # "NONE"
  /\ state' = [state EXCEPT ![Embargo] = "APPROVED"]
  /\ modState' = [n \in Nodes |-> IF n = Root THEN modState[Root]
                                  ELSE Derived(state', retraction, termination)]
  /\ public' = [public EXCEPT ![Root] = FALSE]
  /\ UNCHANGED <<fixed, approved, links, tree>>

\* change_embargo_date on a registration without one
AddEmbargo ==
  /\ state[Embargo] = "NONE"
  /\ Settle([state EXCEPT ![Embargo] = "UNAPPROVED"], retraction, termination)
  /\ forExisting' = TRUE
  /\ public' = [public EXCEPT ![Root] = FALSE]
  /\ UNCHANGED <<fixed, approved, deleted, source>>

\* NodeUpdateModerationStateView
UpdateModerationState ==
  /\ Settle(state, retraction, termination)
  /\ UNCHANGED <<fixed, approved, tree, public>>

-----------------------------------------------------------------------------
AdminContributors ==
  \/ \E s \in Sanctions : AdminReject(s) \/ \E a \in Admins : AdminApprove(s, a)
  \/ \E r \in Retractions : RequestRetraction(r)
  \/ \E t \in Terminations : RequestTermination(t)
  \/ \E n \in Nodes : MakePublic(n)

Moderators ==
  \/ ModeratorAccept
  \/ ModeratorReject
  \/ \E r \in Retractions : ForceWithdraw(r)

Scripts ==
  \/ NightlyApproval
  \/ NightlyEmbargo
  \/ \E P \in Published : NightlyExpiry(P)
  \/ \E t \in Terminations : NightlyTermination(t)
  \/ \E r \in Retractions :
       NightlyRetraction(r) \/ \E P \in Published : NightlyRetractionFails(r, P)

Archiver == ArchiveFinished \/ ArchiveSuccess \/ ArchiveFail

AdminApp == UpdateEmbargo \/ AddEmbargo \/ UpdateModerationState

Next == AdminContributors \/ Moderators \/ Scripts \/ Archiver \/ AdminApp

Spec == Init /\ [][Next]_vars

\* The beat runs every script daily; the archiver ends one way or the other.
\* People (contributors, moderators, site admins) owe us nothing.
Fairness ==
  /\ WF_vars(NightlyApproval)
  /\ WF_vars(NightlyEmbargo)
  /\ WF_vars(\E P \in Published : NightlyExpiry(P))
  /\ \A t \in Terminations : WF_vars(NightlyTermination(t))
  /\ \A r \in Retractions : WF_vars(NightlyRetraction(r))
  /\ WF_vars(ArchiveFinished \/ ArchiveFail)
  /\ WF_vars(ArchiveSuccess \/ ArchiveFail)

FairSpec == Spec /\ Fairness

-----------------------------------------------------------------------------
\* The foreign keys point at rows of their type, every field at a value it may
\* hold: the shape of the tables update_moderation_state reads.
TypeOK ==
  /\ moderated \in BOOLEAN
  /\ archive \in {"ARCHIVING", "FINISHED", "SENT", "FAILED"}
  /\ state \in [Sanctions -> ApprovalStates]
  /\ approved \in [Sanctions -> SUBSET Admins]
  /\ retraction \in Retractions \cup {None}
  /\ termination \in Terminations \cup {None}
  /\ forExisting \in BOOLEAN
  /\ modState \in [Nodes -> RegistrationModerationStates]
  /\ public \in [Nodes -> BOOLEAN]
  /\ deleted \in BOOLEAN
  /\ source \in BOOLEAN

\* No order of approvals, scripts, retractions and admin changes publishes a
\* registration while the sanction it was created with awaits its admins: the
\* promise behind set_privacy's 'An unapproved registration cannot be made
\* public', which withdraw and terminate_embargo rely on as well.
PublicIsApproved ==
  public[Root] => state[Approval] # "UNAPPROVED" /\ state[Embargo] # "UNAPPROVED"

\* On a registry without moderation an embargo in force keeps the registration
\* private, however it came to be in force (admins, script, site admin) and
\* whatever else (terminations, retractions, failed publications) went on.
EmbargoIsHonoured ==
  state[Embargo] = "APPROVED" /\ ~moderated => ~public[Root]

\* A live registration reads WITHDRAWN exactly when the retraction attached to
\* it has been approved: no stale copy of the row written by a script or the
\* admin application, and no later request, separates the two places
\* is_retracted looks at.
WithdrawnAgrees ==
  ~deleted => \A n \in Nodes :
    modState[n] = "WITHDRAWN" <=> retraction # None /\ state[retraction] = "APPROVED"

\* A request to terminate the embargo never outlives it: while one is attached
\* and undecided the embargo has not been completed, and unless the
\* registration is being retracted it is in force.  terminate_embargo settles
\* the request in the same breath, an old request approved late included.
TerminationIsSettled ==
  termination # None /\ state[termination] = "UNAPPROVED" =>
    /\ state[Embargo] # "COMPLETED"
    /\ retraction = None => IsEmbargoed

\* The components of a live registration always show the state derived from
\* the sanctions, after every handler and every half-finished script.  (The
\* root does not: see ExpiredIsAccepted.)
ComponentsAreCurrent ==
  ~deleted => \A n \in Nodes \ {Root} :
    modState[n] = Derived(state, retraction, termination)

\* A rejected registration approval leaves the registration deleted with its
\* tree, and a registration cut off from its project is always a deleted one.
\* (Of a rejected embargo it does not speak: a forced withdrawal rejects one
\* too, and deletes nothing.)
RejectedIsDeleted ==
  /\ state[Approval] \in {"REJECTED", "MODERATOR_REJECTED"} => deleted
  /\ ~source => deleted

\* Nothing publishes a registration that was deleted and cut off its project:
\* not a script that still finds its sanctions, nor a link used afterwards.
\* (Only an embargo added by the site admins leaves the deleted registration
\* attached, and then a pending retraction does publish it.)
DeletedStaysPrivate ==
  [][~source => \A n \in Nodes : public'[n] => public[n]]_vars

\* A decision on an approval, a termination or a retraction is final; only a
\* failing archive overturns one.
DecisionsAreFinal ==
  [][\A s \in Sanctions \ {Embargo} :
       state[s] \in {"APPROVED", "REJECTED", "MODERATOR_REJECTED"}
         => state'[s] = state[s] \/ archive' = "FAILED"]_vars

\* Every retraction, every registration approval and every termination request
\* follows the workflow of ApprovalWorkflow, the last without moderators.
Workflow(s) == INSTANCE ApprovalWorkflow
  WITH Authorizers <- Admins,
       moderated   <- moderated /\ s \notin Terminations,
       stage       <- state[s],
       approvals   <- approved[s]

FollowsWorkflow ==
  /\ \A s \in Sanctions \ {Embargo} : Workflow(s)!WorkflowInit
  /\ [][\A s \in Sanctions \ {Embargo} :
         [Workflow(s)!WorkflowNext]_<<moderated, state[s], approved[s]>>]_vars

-----------------------------------------------------------------------------
\* Provided the site admins eventually leave the registration alone ...
SettledSpec == FairSpec /\ <>[][~AdminApp]_vars

\* ... no registration approval waits for its admins for ever: the script
\* accepts it, and a failed archive rejects it.
ApprovalIsDecided ==
  state[Approval] = "UNAPPROVED" ~> state[Approval] # "UNAPPROVED"

\* ... an embargo of a live registration leaves the pending and the active
\* stage: it is moderated, rejected, or lifted at its end.
EmbargoEnds ==
  state[Embargo] \in {"UNAPPROVED", "APPROVED"}
    ~> state[Embargo] \notin {"UNAPPROVED", "APPROVED"} \/ deleted \/ public[Root]

\* ... a request for retraction attached to a live registration is decided or
\* handed to the moderators.
RetractionIsDecided ==
  \A r \in Retractions :
    retraction = r /\ state[r] = "UNAPPROVED"
      ~> retraction # r \/ state[r] # "UNAPPROVED" \/ deleted

\* Whatever the other sanctions of the registration come to, none of the three
\* waits for ever (the scripts of the celery beat).
SanctionsAreDecided == ApprovalIsDecided /\ EmbargoEnds /\ RetractionIsDecided

-----------------------------------------------------------------------------
\* What the repository says and the code does not do.

\* An embargo that is COMPLETED puts its registration in ACCEPTED
\* (SANCTION_STATE_MAP, and the embargo termination flow tests).
ExpiredIsAccepted ==
  state[Embargo] = "COMPLETED" /\ retraction = None /\ ~deleted
    => modState[Root] = "ACCEPTED"

=============================================================================
