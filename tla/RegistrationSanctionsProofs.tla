--------------------- MODULE RegistrationSanctionsProofs ---------------------
(***************************************************************************)
(* Proofs of the safety properties of RegistrationSanctions, for any       *)
(* number of admins, nodes, terminations and retractions.                  *)
(***************************************************************************)
EXTENDS RegistrationSanctions, TLAPS

\* What the rows of the sanctions look like: the registration was created with
\* an approval or an embargo, the foreign keys point at rows that exist, only an
\* embargo completes, and nothing waits for the moderators of a registry that
\* has none.
RowsOK ==
  /\ state[Approval] # "NONE" \/ state[Embargo] # "NONE"
  /\ retraction # None => state[retraction] # "NONE"
  /\ termination # None => state[termination] # "NONE"
  /\ \A s \in Sanctions \ {Embargo} : state[s] # "COMPLETED"
  /\ ~moderated => \A s \in Sanctions : state[s] # "PENDING_MODERATION"

\* The inductive invariant.
Inv ==
  /\ TypeOK
  /\ RowsOK
  /\ PublicIsApproved
  /\ EmbargoIsHonoured
  /\ TerminationIsSettled
  /\ RejectedIsDeleted
  /\ WithdrawnAgrees
  /\ ComponentsAreCurrent

-----------------------------------------------------------------------------
\* Values that Settle and the other handlers may store.
Storable(st) ==
  /\ st \in [Sanctions -> ApprovalStates]
  /\ st[Approval] # "NONE" \/ st[Embargo] # "NONE"
  /\ \A s \in Sanctions \ {Embargo} : st[s] # "COMPLETED"

\* The derived moderation state is always one a row may hold.
LEMMA DerivedType ==
  ASSUME NEW st, Storable(st),
         NEW ret \in Retractions \cup {None},
         NEW term \in Terminations \cup {None}
  PROVE  Derived(st, ret, term) \in RegistrationModerationStates
<1>1. FromApproval(st[Approval]) \in RegistrationModerationStates \/ st[Approval] = "NONE"
  BY SanctionsAssumption
  DEF Storable, FromApproval, RegistrationModerationStates, ApprovalStates, Sanctions
<1>2. FromEmbargo(st[Embargo]) \in RegistrationModerationStates \/ st[Embargo] = "NONE"
  BY SanctionsAssumption
  DEF Storable, FromEmbargo, FromApproval, RegistrationModerationStates, ApprovalStates, Sanctions
<1>3. \A x : FromRetraction(x) \in RegistrationModerationStates \cup {"UNDEFINED"}
  BY DEF FromRetraction, RegistrationModerationStates
<1>4. \A x : FromTermination(x) \in RegistrationModerationStates \cup {"UNDEFINED"}
  BY DEF FromTermination, RegistrationModerationStates
<1>5. /\ Approval \notin Retractions \cup Terminations
      /\ Embargo \notin Retractions \cup Terminations
      /\ Approval # Embargo
  BY SanctionsAssumption
<1> QED
  BY <1>1, <1>2, <1>3, <1>4, <1>5
  DEF Storable, Derived, FromSanction, ActiveSanction

\* It is WITHDRAWN exactly under an approved retraction.
LEMMA DerivedWithdrawn ==
  ASSUME NEW st, Storable(st),
         NEW ret \in Retractions \cup {None},
         NEW term \in Terminations \cup {None}
  PROVE  Derived(st, ret, term) = "WITHDRAWN" <=> ret # None /\ st[ret] = "APPROVED"
<1>1. FromApproval(st[Approval]) # "WITHDRAWN"
  BY DEF FromApproval
<1>2. FromEmbargo(st[Embargo]) # "WITHDRAWN"
  BY DEF FromEmbargo, FromApproval
<1>3. \A x : FromRetraction(x) = "WITHDRAWN" <=> x = "APPROVED"
  BY DEF FromRetraction
<1>4. \A x : FromTermination(x) # "WITHDRAWN"
  BY DEF FromTermination
<1>5. /\ Approval \notin Retractions \cup Terminations
      /\ Embargo \notin Retractions \cup Terminations
      /\ Approval # Embargo
      /\ Retractions \cap Terminations = {}
      /\ None \notin Sanctions
  BY SanctionsAssumption DEF Sanctions
<1> QED
  BY <1>1, <1>2, <1>3, <1>4, <1>5
  DEF Storable, Derived, FromSanction, ActiveSanction, Sanctions

\* Settle leaves every node in the state derived from what it stores, so the
\* two properties about moderation states hold after it.
LEMMA SettleStep ==
  ASSUME NEW st, Storable(st),
         NEW ret \in Retractions \cup {None},
         NEW term \in Terminations \cup {None},
         Settle(st, ret, term)
  PROVE  /\ modState' \in [Nodes -> RegistrationModerationStates]
         /\ WithdrawnAgrees'
         /\ ComponentsAreCurrent'
<1>1. /\ state' = st
      /\ retraction' = ret
      /\ termination' = term
      /\ modState' = [n \in Nodes |-> Derived(st, ret, term)]
  BY DEF Settle
<1>2. modState' \in [Nodes -> RegistrationModerationStates]
  BY <1>1, DerivedType
<1>3. WithdrawnAgrees'
  BY <1>1, DerivedWithdrawn DEF WithdrawnAgrees
<1>4. ComponentsAreCurrent'
  BY <1>1 DEF ComponentsAreCurrent
<1> QED
  BY <1>2, <1>3, <1>4

\* Publish makes the root public only past the checks of set_privacy.
LEMMA PublishStep ==
  ASSUME TypeOK, NEW st, NEW P \in SUBSET Nodes, Publish(st, P)
  PROVE  /\ public' \in [Nodes -> BOOLEAN]
         /\ public'[Root] => public[Root] \/ MayPublish(st)
BY RootAssumption DEF TypeOK, Publish

-----------------------------------------------------------------------------
\* Accepting a sanction that is pending preserves the invariant, whatever the
\* caller does to approval_state.

\* The context in which the callers run a sanction's effect.
Within ==
  /\ Inv
  /\ UNCHANGED <<fixed, tree>>
  /\ approved' \in [Sanctions -> SUBSET Admins]

LEMMA CompleteApprovalStep ==
  ASSUME Within, CompleteApproval
  PROVE  Inv'
<1> DEFINE st == [state EXCEPT ![Approval] = "APPROVED"]
<1>1. Settle(st, retraction, termination) /\ Publish(st, Nodes)
  BY DEF CompleteApproval
<1>2. Storable(st)
  BY SanctionsAssumption DEF Within, Inv, TypeOK, RowsOK, Storable, Sanctions, ApprovalStates
<1>3. /\ modState' \in [Nodes -> RegistrationModerationStates]
      /\ WithdrawnAgrees'
      /\ ComponentsAreCurrent'
  BY <1>1, <1>2, SettleStep DEF Within, Inv, TypeOK
<1>4. /\ public' \in [Nodes -> BOOLEAN]
      /\ public'[Root] => public[Root] \/ MayPublish(st)
  BY <1>1, PublishStep DEF Within, Inv
<1>5. state' = st /\ UNCHANGED links
  BY <1>1 DEF Settle, links
<1>6. TypeOK' /\ RowsOK'
  BY <1>2, <1>3, <1>4, <1>5
  DEF Within, Inv, TypeOK, RowsOK, Storable, links, fixed, tree
<1>7. PublicIsApproved' /\ EmbargoIsHonoured'
  BY <1>4, <1>5, SanctionsAssumption
  DEF Within, Inv, TypeOK, PublicIsApproved, EmbargoIsHonoured, MayPublish, fixed, Sanctions
<1>8. TerminationIsSettled' /\ RejectedIsDeleted'
  BY <1>4, <1>5, SanctionsAssumption
  DEF Within, Inv, TypeOK, TerminationIsSettled, RejectedIsDeleted, IsEmbargoed, MayPublish, links, tree, Sanctions
<1> QED
  BY <1>3, <1>6, <1>7, <1>8 DEF Inv

LEMMA CompleteEmbargoStep ==
  ASSUME Within, CompleteEmbargo,
         state[Embargo] \in {"UNAPPROVED", "PENDING_MODERATION"}
  PROVE  Inv'
<1> DEFINE st == [state EXCEPT ![Embargo] = "APPROVED"]
<1>1. Settle(st, retraction, termination) /\ UNCHANGED public
  BY DEF CompleteEmbargo
<1>2. Storable(st)
  BY SanctionsAssumption DEF Within, Inv, TypeOK, RowsOK, Storable, Sanctions, ApprovalStates
<1>3. /\ modState' \in [Nodes -> RegistrationModerationStates]
      /\ WithdrawnAgrees'
      /\ ComponentsAreCurrent'
  BY <1>1, <1>2, SettleStep DEF Within, Inv, TypeOK
<1>4. state' = st /\ UNCHANGED links
  BY <1>1 DEF Settle, links
<1>5. TypeOK' /\ RowsOK'
  BY <1>1, <1>2, <1>3, <1>4
  DEF Within, Inv, TypeOK, RowsOK, Storable, links, fixed, tree
<1>6. PublicIsApproved' /\ EmbargoIsHonoured'
  <2>1. PublicIsApproved'
    BY <1>1, <1>4, SanctionsAssumption
    DEF Within, Inv, TypeOK, PublicIsApproved, Sanctions
  <2>2. ~moderated => ~public[Root]
    BY DEF Within, Inv, RowsOK, PublicIsApproved, Sanctions
  <2> QED
    BY <1>1, <2>1, <2>2 DEF EmbargoIsHonoured, Within, fixed
<1>7. TerminationIsSettled' /\ RejectedIsDeleted'
  BY <1>4, SanctionsAssumption
  DEF Within, Inv, TypeOK, TerminationIsSettled, RejectedIsDeleted, IsEmbargoed, MayPublish, links, tree, Sanctions
<1> QED
  BY <1>3, <1>5, <1>6, <1>7 DEF Inv

\* Completing an embargo settles the request attached to it, and nothing else
\* changes for the sanctions the registration was created with.
LEMMA LiftedStep ==
  ASSUME Inv
  PROVE  /\ Storable(Lifted(state))
         /\ Lifted(state)[Embargo] = "COMPLETED"
         /\ Lifted(state)[Approval] = state[Approval]
         /\ termination # None => Lifted(state)[termination] # "UNAPPROVED"
         /\ \A r \in Retractions : Lifted(state)[r] = state[r]
         /\ \A s \in Sanctions :
              Lifted(state)[s] \in {"NONE", "PENDING_MODERATION"} => Lifted(state)[s] = state[s]
BY SanctionsAssumption
DEF Inv, TypeOK, RowsOK, Storable, Lifted, Sanctions, ApprovalStates

LEMMA CompleteTerminationStep ==
  ASSUME Within, NEW t \in Terminations, CompleteTermination(t)
  PROVE  Inv'
<1> DEFINE st == [state EXCEPT ![t] = "APPROVED"]
<1>1. CASE IsEmbargoed
  <2>1. /\ Settle(Lifted(st), retraction, termination)
        /\ Publish(Lifted(st), Nodes)
    BY <1>1 DEF CompleteTermination
  <2>2. /\ Storable(Lifted(st))
        /\ Lifted(st)[Embargo] = "COMPLETED"
        /\ Lifted(st)[Approval] = state[Approval]
        /\ termination # None => Lifted(st)[termination] # "UNAPPROVED"
        /\ \A s \in Sanctions :
             Lifted(st)[s] \in {"NONE", "PENDING_MODERATION"} => Lifted(st)[s] = state[s]
    BY SanctionsAssumption
    DEF Within, Inv, TypeOK, RowsOK, Storable, Lifted, Sanctions, ApprovalStates
  <2>3. /\ modState' \in [Nodes -> RegistrationModerationStates]
        /\ WithdrawnAgrees'
        /\ ComponentsAreCurrent'
    BY <2>1, <2>2, SettleStep DEF Within, Inv, TypeOK
  <2>4. /\ public' \in [Nodes -> BOOLEAN]
        /\ public'[Root] => public[Root] \/ MayPublish(Lifted(st))
    BY <2>1, PublishStep DEF Within, Inv
  <2>5. state' = Lifted(st) /\ UNCHANGED links
    BY <2>1 DEF Settle, links
  <2>6. TypeOK' /\ RowsOK'
    BY <2>2, <2>3, <2>4, <2>5
    DEF Within, Inv, TypeOK, RowsOK, Storable, links, fixed, tree, Sanctions
  <2>7. PublicIsApproved' /\ EmbargoIsHonoured'
    BY <2>2, <2>4, <2>5
    DEF Within, Inv, PublicIsApproved, EmbargoIsHonoured, MayPublish
  <2>8. TerminationIsSettled' /\ RejectedIsDeleted'
    BY <2>2, <2>5
    DEF Within, Inv, TerminationIsSettled, RejectedIsDeleted, IsEmbargoed, MayPublish, links, tree
  <2> QED
    BY <2>3, <2>6, <2>7, <2>8 DEF Inv
<1>2. CASE ~IsEmbargoed
  <2>1. Settle(st, retraction, termination) /\ UNCHANGED public
    BY <1>2 DEF CompleteTermination
  <2>2. Storable(st)
    BY SanctionsAssumption
    DEF Within, Inv, TypeOK, RowsOK, Storable, Sanctions, ApprovalStates
  <2>3. /\ modState' \in [Nodes -> RegistrationModerationStates]
        /\ WithdrawnAgrees'
        /\ ComponentsAreCurrent'
    BY <2>1, <2>2, SettleStep DEF Within, Inv, TypeOK
  <2>4. state' = st /\ UNCHANGED links
    BY <2>1 DEF Settle, links
  <2>5. TypeOK' /\ RowsOK'
    BY <2>1, <2>2, <2>3, <2>4
    DEF Within, Inv, TypeOK, RowsOK, Storable, links, fixed, tree
  <2>6. PublicIsApproved' /\ EmbargoIsHonoured'
    BY <2>1, <2>4, SanctionsAssumption
    DEF Within, Inv, TypeOK, PublicIsApproved, EmbargoIsHonoured, fixed, Sanctions
  <2>7. TerminationIsSettled' /\ RejectedIsDeleted'
    BY <2>1, <2>4, SanctionsAssumption
    DEF Within, Inv, TypeOK, TerminationIsSettled, RejectedIsDeleted, IsEmbargoed, MayPublish, links, tree, Sanctions
  <2> QED
    BY <2>3, <2>5, <2>6, <2>7 DEF Inv
<1> QED
  BY <1>1, <1>2

LEMMA CancelledStep ==
  ASSUME Inv
  PROVE  /\ Storable(Cancelled(state))
         /\ \A s \in Sanctions \ {Embargo} : Cancelled(state)[s] = state[s]
         /\ \/ Cancelled(state)[Embargo] = state[Embargo]
            \/ Cancelled(state)[Embargo] \in {"REJECTED", "MODERATOR_REJECTED"}
         /\ Cancelled(state)[Embargo] \notin {"UNAPPROVED", "APPROVED"}
         /\ Cancelled(state)[Embargo] = "PENDING_MODERATION"
              => state[Embargo] = "PENDING_MODERATION"
BY SanctionsAssumption
DEF Inv, TypeOK, RowsOK, Storable, Cancelled, HasCurrentEmbargo, Sanctions, ApprovalStates

LEMMA CompleteRetractionStep ==
  ASSUME Within, NEW r \in Retractions, CompleteRetraction(r)
  PROVE  Inv'
<1> DEFINE st == [Cancelled(state) EXCEPT ![r] = "APPROVED"]
<1>1. Settle(st, r, termination) /\ Publish(st, Nodes)
  BY DEF CompleteRetraction
<1>2. /\ Storable(st)
      /\ st[Approval] = state[Approval]
      /\ \A t \in Terminations : st[t] = state[t]
      /\ st[Embargo] = Cancelled(state)[Embargo]
      /\ \A s \in Sanctions : st[s] = "PENDING_MODERATION" => state[s] = "PENDING_MODERATION"
  BY CancelledStep, SanctionsAssumption
  DEF Within, Inv, TypeOK, Storable, Sanctions, ApprovalStates
<1>3. /\ modState' \in [Nodes -> RegistrationModerationStates]
      /\ WithdrawnAgrees'
      /\ ComponentsAreCurrent'
  BY <1>1, <1>2, SettleStep DEF Within, Inv, TypeOK
<1>4. /\ public' \in [Nodes -> BOOLEAN]
      /\ public'[Root] => public[Root] \/ MayPublish(st)
  BY <1>1, PublishStep DEF Within, Inv
<1>5. state' = st /\ retraction' = r /\ termination' = termination
  BY <1>1 DEF Settle
<1>6. TypeOK' /\ RowsOK'
  BY <1>2, <1>3, <1>4, <1>5
  DEF Within, Inv, TypeOK, RowsOK, Storable, fixed, tree
<1>7. PublicIsApproved' /\ EmbargoIsHonoured'
  BY <1>2, <1>4, <1>5, CancelledStep
  DEF Within, Inv, PublicIsApproved, EmbargoIsHonoured, MayPublish
<1>8. TerminationIsSettled' /\ RejectedIsDeleted'
  BY <1>2, <1>5, CancelledStep, SanctionsAssumption
  DEF Within, Inv, TypeOK, TerminationIsSettled, RejectedIsDeleted, IsEmbargoed, tree, Sanctions
<1> QED
  BY <1>3, <1>6, <1>7, <1>8 DEF Inv

LEMMA CompleteStep ==
  ASSUME Within, NEW s \in Sanctions, Complete(s),
         state[s] \in {"UNAPPROVED", "PENDING_MODERATION"}
  PROVE  Inv'
BY CompleteApprovalStep, CompleteEmbargoStep, CompleteTerminationStep, CompleteRetractionStep
DEF Complete

\* Handing a sanction over to the moderators, or completing it.
LEMMA AcceptStep ==
  ASSUME Within, NEW s \in Sanctions, Accept(s), state[s] = "UNAPPROVED"
  PROVE  Inv'
<1> DEFINE st == [state EXCEPT ![s] = "PENDING_MODERATION"]
<1>1. CASE moderated /\ s \notin Terminations
  <2>1. Settle(st, retraction, termination) /\ UNCHANGED public
    BY <1>1 DEF Accept
  <2>2. Storable(st)
    BY SanctionsAssumption
    DEF Within, Inv, TypeOK, RowsOK, Storable, Sanctions, ApprovalStates
  <2>3. /\ modState' \in [Nodes -> RegistrationModerationStates]
        /\ WithdrawnAgrees'
        /\ ComponentsAreCurrent'
    BY <2>1, <2>2, SettleStep DEF Within, Inv, TypeOK
  <2>4. state' = st /\ UNCHANGED links
    BY <2>1 DEF Settle, links
  <2>5. TypeOK' /\ RowsOK'
    BY <1>1, <2>1, <2>2, <2>3, <2>4
    DEF Within, Inv, TypeOK, RowsOK, Storable, links, fixed, tree
  <2>6. PublicIsApproved' /\ EmbargoIsHonoured'
    BY <2>1, <2>4, SanctionsAssumption
    DEF Within, Inv, TypeOK, PublicIsApproved, EmbargoIsHonoured, fixed, Sanctions
  <2>7. TerminationIsSettled' /\ RejectedIsDeleted'
    BY <2>1, <2>4, SanctionsAssumption
    DEF Within, Inv, TypeOK, TerminationIsSettled, RejectedIsDeleted, IsEmbargoed, MayPublish, links, tree, Sanctions
  <2> QED
    BY <2>3, <2>5, <2>6, <2>7 DEF Inv
<1>2. CASE ~(moderated /\ s \notin Terminations)
  BY <1>2, CompleteStep DEF Accept
<1> QED
  BY <1>1, <1>2

\* Rejecting a pending sanction preserves it too.
LEMMA RejectStep ==
  ASSUME Inv, NEW s \in Sanctions, NEW outcome \in {"REJECTED", "MODERATOR_REJECTED"},
         state[s] \in {"UNAPPROVED", "PENDING_MODERATION"},
         Reject(s, outcome), UNCHANGED <<fixed, approved>>
  PROVE  Inv'
<1> DEFINE st == [state EXCEPT ![s] = outcome]
<1>1. PICK term \in {termination, None} :
        /\ Settle(st, retraction, term)
        /\ UNCHANGED <<public, forExisting>>
  BY DEF Reject, RejectFirst, RejectTermination, RejectRetraction
<1>2. Storable(st)
  BY SanctionsAssumption
  DEF Inv, TypeOK, RowsOK, Storable, Sanctions, ApprovalStates
<1>3. /\ modState' \in [Nodes -> RegistrationModerationStates]
      /\ WithdrawnAgrees'
      /\ ComponentsAreCurrent'
  BY <1>1, <1>2, SettleStep DEF Inv, TypeOK
<1>4. state' = st /\ retraction' = retraction /\ termination' = term
  BY <1>1 DEF Settle
<1>5. /\ deleted' \in BOOLEAN
      /\ source' \in BOOLEAN
      /\ deleted => deleted'
      /\ s = Approval => deleted'
      /\ ~source' => ~source \/ deleted'
  BY SanctionsAssumption
  DEF Inv, TypeOK, Reject, RejectFirst, RejectTermination, RejectRetraction
<1>6. TypeOK' /\ RowsOK'
  BY <1>1, <1>2, <1>3, <1>4, <1>5
  DEF Inv, TypeOK, RowsOK, Storable, fixed
<1>7. PublicIsApproved' /\ EmbargoIsHonoured'
  BY <1>1, <1>4, SanctionsAssumption
  DEF Inv, TypeOK, PublicIsApproved, EmbargoIsHonoured, fixed, Sanctions
<1>8. TerminationIsSettled' /\ RejectedIsDeleted'
  BY <1>1, <1>4, <1>5, SanctionsAssumption
  DEF Inv, TypeOK, TerminationIsSettled, RejectedIsDeleted, IsEmbargoed, MayPublish, Sanctions
<1> QED
  BY <1>3, <1>6, <1>7, <1>8 DEF Inv

-----------------------------------------------------------------------------
\* One lemma per group of actions.

LEMMA AdminContributorsStep ==
  ASSUME Inv, AdminContributors
  PROVE  Inv'
<1>1. ASSUME NEW s \in Sanctions, NEW a \in Admins, AdminApprove(s, a)
      PROVE  Inv'
  <2>1. Within
    BY <1>1 DEF AdminApprove, Within, Inv, TypeOK
  <2>2. CASE approved[s] \cup {a} = Admins
    BY <1>1, <2>1, <2>2, AcceptStep DEF AdminApprove
  <2>3. CASE approved[s] \cup {a} # Admins
    <3>1. UNCHANGED <<state, links, modState, public, fixed, tree>>
      BY <1>1, <2>3 DEF AdminApprove
    <3> QED
      BY <2>1, <3>1
      DEF Within, Inv, TypeOK, RowsOK, PublicIsApproved, EmbargoIsHonoured,
          TerminationIsSettled, RejectedIsDeleted, IsEmbargoed, MayPublish, WithdrawnAgrees,
          ComponentsAreCurrent, links, fixed, tree
  <2> QED
    BY <2>2, <2>3
<1>2. ASSUME NEW s \in Sanctions, AdminReject(s)
      PROVE  Inv'
  BY <1>2, RejectStep DEF AdminReject
<1>3. ASSUME NEW r \in Retractions, RequestRetraction(r)
      PROVE  Inv'
  <2> DEFINE st == [state EXCEPT ![r] = "UNAPPROVED"]
  <2>1. /\ Settle(st, r, termination)
        /\ UNCHANGED <<fixed, approved, tree, public>>
    BY <1>3 DEF RequestRetraction
  <2>2. Storable(st)
    BY SanctionsAssumption
    DEF Inv, TypeOK, RowsOK, Storable, Sanctions, ApprovalStates
  <2>3. /\ modState' \in [Nodes -> RegistrationModerationStates]
        /\ WithdrawnAgrees'
        /\ ComponentsAreCurrent'
    BY <2>1, <2>2, SettleStep DEF Inv, TypeOK
  <2>4. state' = st /\ retraction' = r /\ termination' = termination
    BY <2>1 DEF Settle
  <2>5. TypeOK' /\ RowsOK'
    BY <2>1, <2>2, <2>3, <2>4
    DEF Inv, TypeOK, RowsOK, Storable, fixed, tree
  <2>6. PublicIsApproved' /\ EmbargoIsHonoured' /\ TerminationIsSettled' /\ RejectedIsDeleted'
    BY <2>1, <2>4, SanctionsAssumption
    DEF Inv, TypeOK, PublicIsApproved, EmbargoIsHonoured, TerminationIsSettled,
        RejectedIsDeleted, fixed, tree, Sanctions
  <2> QED
    BY <2>3, <2>5, <2>6 DEF Inv
<1>4. ASSUME NEW t \in Terminations, RequestTermination(t)
      PROVE  Inv'
  <2> DEFINE st == [state EXCEPT ![t] = "UNAPPROVED"]
  <2>1. /\ Settle(st, retraction, t)
        /\ UNCHANGED <<fixed, approved, tree, public>>
        /\ IsEmbargoed
    BY <1>4 DEF RequestTermination
  <2>2. Storable(st)
    BY SanctionsAssumption
    DEF Inv, TypeOK, RowsOK, Storable, Sanctions, ApprovalStates
  <2>3. /\ modState' \in [Nodes -> RegistrationModerationStates]
        /\ WithdrawnAgrees'
        /\ ComponentsAreCurrent'
    BY <2>1, <2>2, SettleStep DEF Inv, TypeOK
  <2>4. state' = st /\ retraction' = retraction /\ termination' = t
    BY <2>1 DEF Settle
  <2>5. TypeOK' /\ RowsOK'
    BY <2>1, <2>2, <2>3, <2>4
    DEF Inv, TypeOK, RowsOK, Storable, fixed, tree
  <2>6. PublicIsApproved' /\ EmbargoIsHonoured' /\ TerminationIsSettled' /\ RejectedIsDeleted'
    BY <2>1, <2>4, SanctionsAssumption
    DEF Inv, TypeOK, PublicIsApproved, EmbargoIsHonoured, TerminationIsSettled,
        RejectedIsDeleted, IsEmbargoed, fixed, tree, Sanctions
  <2> QED
    BY <2>3, <2>5, <2>6 DEF Inv
<1>5. ASSUME NEW n \in Nodes, MakePublic(n)
      PROVE  Inv'
  <2>1. /\ Publish(state, {n})
        /\ UNCHANGED <<fixed, state, approved, links, tree, modState>>
    BY <1>5 DEF MakePublic
  <2>2. /\ public' \in [Nodes -> BOOLEAN]
        /\ public'[Root] => public[Root] \/ MayPublish(state)
    BY <2>1, PublishStep DEF Inv
  <2>3. PublicIsApproved' /\ EmbargoIsHonoured'
    BY <2>1, <2>2 DEF Inv, PublicIsApproved, EmbargoIsHonoured, MayPublish, fixed
  <2> QED
    BY <2>1, <2>2, <2>3
    DEF Inv, TypeOK, RowsOK, TerminationIsSettled, RejectedIsDeleted, IsEmbargoed, MayPublish,
        WithdrawnAgrees, ComponentsAreCurrent, links, fixed, tree
<1> QED
  BY <1>1, <1>2, <1>3, <1>4, <1>5 DEF AdminContributors

LEMMA ActiveSanctionType ==
  ASSUME TypeOK
  PROVE  ActiveSanction(state, retraction, termination) \in Sanctions
BY DEF TypeOK, ActiveSanction, Sanctions

LEMMA ModeratorsStep ==
  ASSUME Inv, Moderators
  PROVE  Inv'
<1> DEFINE s == ActiveSanction(state, retraction, termination)
<1>1. s \in Sanctions
  BY ActiveSanctionType DEF Inv
<1>2. CASE ModeratorAccept
  <2>1. /\ state[s] = "PENDING_MODERATION"
        /\ Complete(s)
        /\ Within
    BY <1>2 DEF ModeratorAccept, Within, Inv, TypeOK
  <2> QED
    BY <1>1, <2>1, CompleteStep
<1>3. CASE ModeratorReject
  <2>1. /\ state[s] = "PENDING_MODERATION"
        /\ Reject(s, "MODERATOR_REJECTED")
        /\ UNCHANGED <<fixed, approved>>
    BY <1>3 DEF ModeratorReject
  <2> QED
    BY <1>1, <2>1, RejectStep
<1>4. ASSUME NEW r \in Retractions, ForceWithdraw(r)
      PROVE  Inv'
  <2>1. CompleteRetraction(r) /\ Within
    BY <1>4 DEF ForceWithdraw, Within, Inv, TypeOK
  <2> QED
    BY <2>1, CompleteRetractionStep
<1> QED
  BY <1>2, <1>3, <1>4 DEF Moderators

\* The step of a script that accepts a pending sanction.
LEMMA ScriptAcceptStep ==
  ASSUME Inv, NEW s \in Sanctions, state[s] = "UNAPPROVED", Accept(s),
         UNCHANGED <<fixed, approved, tree>>
  PROVE  Inv'
<1>1. Within
  BY DEF Within, Inv, TypeOK
<1> QED
  BY <1>1, AcceptStep

LEMMA NightlyApprovalStep ==
  ASSUME Inv, NightlyApproval
  PROVE  Inv'
<1>1. CASE deleted
  <2>1. /\ state' = [state EXCEPT ![Approval] = "REJECTED"]
        /\ deleted'
        /\ UNCHANGED <<links, modState, public, fixed, approved, tree>>
    BY <1>1 DEF NightlyApproval, tree
  <2>2. TypeOK' /\ RowsOK'
    BY <2>1, SanctionsAssumption
    DEF Inv, TypeOK, RowsOK, Sanctions, ApprovalStates, links, fixed, tree
  <2>3. /\ PublicIsApproved'
        /\ EmbargoIsHonoured'
        /\ TerminationIsSettled'
        /\ RejectedIsDeleted'
    BY <2>1, SanctionsAssumption
    DEF Inv, TypeOK, PublicIsApproved, EmbargoIsHonoured, TerminationIsSettled,
        RejectedIsDeleted, IsEmbargoed, links, fixed, Sanctions
  <2>4. WithdrawnAgrees' /\ ComponentsAreCurrent'
    BY <2>1 DEF WithdrawnAgrees, ComponentsAreCurrent
  <2> QED
    BY <2>2, <2>3, <2>4 DEF Inv
<1>2. CASE ~deleted
  BY <1>2, ScriptAcceptStep DEF NightlyApproval, Sanctions
<1> QED
  BY <1>1, <1>2

LEMMA NightlyExpiryStep ==
  ASSUME Inv, NEW P \in Published, NightlyExpiry(P)
  PROVE  Inv'
<1> DEFINE read == [state EXCEPT ![Embargo] = "COMPLETED"]
           st   == Lifted(state)
<1>1. /\ state' = st
      /\ modState' = [n \in Nodes |-> IF n = Root /\ Root \in P
                                      THEN Derived(read, retraction, termination)
                                      ELSE Derived(st, retraction, termination)]
      /\ Publish(st, P)
      /\ UNCHANGED <<fixed, approved, links, tree>>
  BY DEF NightlyExpiry
<1>2. /\ Storable(st)
      /\ st[Embargo] = "COMPLETED"
      /\ st[Approval] = state[Approval]
      /\ termination # None => st[termination] # "UNAPPROVED"
      /\ \A r \in Retractions : st[r] = state[r]
      /\ \A s \in Sanctions : st[s] \in {"NONE", "PENDING_MODERATION"} => st[s] = state[s]
  BY LiftedStep
<1>3. Storable(read) /\ \A r \in Retractions : read[r] = state[r]
  BY SanctionsAssumption
  DEF Inv, TypeOK, RowsOK, Storable, Sanctions, ApprovalStates
<1> HIDE DEF read, st
<1>4. modState' \in [Nodes -> RegistrationModerationStates]
  <2>1. Derived(read, retraction, termination) \in RegistrationModerationStates
    BY <1>3, DerivedType DEF Inv, TypeOK
  <2>2. Derived(st, retraction, termination) \in RegistrationModerationStates
    BY <1>2, DerivedType DEF Inv, TypeOK
  <2> QED
    BY <1>1, <2>1, <2>2
<1>5. WithdrawnAgrees'
  <2>1. Derived(read, retraction, termination) = "WITHDRAWN"
          <=> retraction # None /\ state[retraction] = "APPROVED"
    BY <1>3, DerivedWithdrawn DEF Inv, TypeOK
  <2>2. Derived(st, retraction, termination) = "WITHDRAWN"
          <=> retraction # None /\ state[retraction] = "APPROVED"
    BY <1>2, DerivedWithdrawn DEF Inv, TypeOK
  <2> QED
    BY <1>1, <1>2, <2>1, <2>2 DEF Inv, TypeOK, WithdrawnAgrees, links
<1>6. ComponentsAreCurrent'
  BY <1>1 DEF ComponentsAreCurrent, links
<1>7. /\ public' \in [Nodes -> BOOLEAN]
      /\ public'[Root] => public[Root] \/ MayPublish(st)
  BY <1>1, PublishStep DEF Inv, Published
<1>8. TypeOK' /\ RowsOK'
  BY <1>1, <1>2, <1>4, <1>7
  DEF Inv, TypeOK, RowsOK, Storable, links, fixed, tree, Sanctions
<1>9. PublicIsApproved' /\ EmbargoIsHonoured'
  BY <1>1, <1>2, <1>7
  DEF Inv, PublicIsApproved, EmbargoIsHonoured, MayPublish
<1>10. TerminationIsSettled' /\ RejectedIsDeleted'
  BY <1>1, <1>2
  DEF Inv, TerminationIsSettled, RejectedIsDeleted, IsEmbargoed, MayPublish, links, tree
<1> QED
  BY <1>4, <1>5, <1>6, <1>8, <1>9, <1>10 DEF Inv

LEMMA NightlyTerminationStep ==
  ASSUME Inv, NEW t \in Terminations, NightlyTermination(t)
  PROVE  Inv'
<1>1. CASE IsEmbargoed
  BY <1>1, ScriptAcceptStep DEF NightlyTermination, Sanctions
<1>2. CASE ~IsEmbargoed
  <2>1. /\ termination' = None
        /\ termination = t
        /\ state[t] = "UNAPPROVED"
        /\ UNCHANGED <<state, retraction, modState, public, fixed, approved, tree>>
    BY <1>2 DEF NightlyTermination
  <2>2. retraction # None
    BY <1>2, <2>1, SanctionsAssumption DEF Sanctions, Inv, TypeOK, TerminationIsSettled
  <2>3. Derived(state, retraction, termination) = Derived(state, retraction, None)
    BY <2>2 DEF Derived, ActiveSanction
  <2>4. WithdrawnAgrees' /\ ComponentsAreCurrent'
    BY <2>1, <2>3 DEF Inv, WithdrawnAgrees, ComponentsAreCurrent, tree
  <2> QED
    BY <2>1, <2>4
    DEF Inv, TypeOK, RowsOK, PublicIsApproved, EmbargoIsHonoured,
        TerminationIsSettled, RejectedIsDeleted, fixed, tree
<1> QED
  BY <1>1, <1>2

LEMMA NightlyRetractionFailsStep ==
  ASSUME Inv, NEW r \in Retractions, NEW P \in Published, NightlyRetractionFails(r, P)
  PROVE  Inv'
<1> DEFINE st == Cancelled(state)
<1>1. /\ state' = st
      /\ state[r] = "UNAPPROVED"
      /\ retraction = r
      /\ Publish(st, P)
      /\ UNCHANGED <<fixed, approved, links, tree, modState>>
  BY DEF NightlyRetractionFails
<1>2. /\ Storable(st)
      /\ \A s \in Sanctions \ {Embargo} : st[s] = state[s]
      /\ st[Embargo] = state[Embargo] \/ st[Embargo] \in {"REJECTED", "MODERATOR_REJECTED"}
      /\ st[Embargo] \notin {"UNAPPROVED", "APPROVED"}
  BY CancelledStep
<1> HIDE DEF st
<1>3. retraction # None /\ retraction # Embargo /\ Approval # Embargo
  BY <1>1, SanctionsAssumption DEF Sanctions
<1>4. /\ public' \in [Nodes -> BOOLEAN]
      /\ public'[Root] => public[Root] \/ MayPublish(st)
  BY <1>1, PublishStep DEF Inv, Published
<1>5. TypeOK' /\ RowsOK'
  BY <1>1, <1>2, <1>3, <1>4, SanctionsAssumption
  DEF Inv, TypeOK, RowsOK, Storable, links, fixed, tree, Sanctions
<1>6. PublicIsApproved' /\ EmbargoIsHonoured'
  BY <1>1, <1>2, <1>3, <1>4
  DEF Inv, PublicIsApproved, EmbargoIsHonoured, MayPublish, Sanctions
<1>7. TerminationIsSettled' /\ RejectedIsDeleted'
  BY <1>1, <1>2, <1>3, SanctionsAssumption
  DEF Inv, TypeOK, TerminationIsSettled, RejectedIsDeleted, links, tree, Sanctions
<1>8. WithdrawnAgrees'
  BY <1>1, <1>2, <1>3 DEF Inv, WithdrawnAgrees, links, tree, Sanctions
<1>9. ComponentsAreCurrent'
  <2>1. /\ Derived(state, r, termination) = FromRetraction("UNAPPROVED")
        /\ Derived(st, r, termination) = FromRetraction("UNAPPROVED")
    BY <1>1, <1>2, <1>3
    DEF Derived, ActiveSanction, FromSanction, FromRetraction, Sanctions
  <2> QED
    BY <1>1, <2>1 DEF Inv, ComponentsAreCurrent, links, tree
<1> QED
  BY <1>5, <1>6, <1>7, <1>8, <1>9 DEF Inv

LEMMA ScriptsStep ==
  ASSUME Inv, Scripts
  PROVE  Inv'
<1>1. ASSUME NightlyEmbargo
      PROVE  Inv'
  BY <1>1, ScriptAcceptStep DEF NightlyEmbargo, Sanctions
<1>2. ASSUME NEW r \in Retractions, NightlyRetraction(r)
      PROVE  Inv'
  BY <1>2, ScriptAcceptStep DEF NightlyRetraction, Sanctions
<1> QED
  BY <1>1, <1>2, NightlyApprovalStep, NightlyExpiryStep, NightlyTerminationStep,
     NightlyRetractionFailsStep
  DEF Scripts

LEMMA ArchiverStep ==
  ASSUME Inv, Archiver
  PROVE  Inv'
<1>1. CASE ArchiveFinished \/ ArchiveSuccess
  <2>1. /\ archive' \in {"FINISHED", "SENT"}
        /\ UNCHANGED <<moderated, state, approved, links, tree, modState, public>>
    BY <1>1 DEF ArchiveFinished, ArchiveSuccess
  <2> QED
    BY <2>1
    DEF Inv, TypeOK, RowsOK, PublicIsApproved, EmbargoIsHonoured, TerminationIsSettled,
        RejectedIsDeleted, WithdrawnAgrees, ComponentsAreCurrent, IsEmbargoed, links, tree
<1>2. CASE ArchiveFail
  <2> DEFINE s == ActiveSanction(state, retraction, termination)
  <2>1. /\ archive' = "FAILED"
        /\ state' = [state EXCEPT ![s] = "REJECTED"]
        /\ deleted'
        /\ deleted' \in BOOLEAN
        /\ source' = forExisting
        /\ UNCHANGED <<moderated, approved, links, forExisting, modState, public>>
    BY <1>2 DEF ArchiveFail
  <2>2. s \in Sanctions
    BY ActiveSanctionType DEF Inv
  <2>3. retraction = None /\ termination # None => s = termination
    BY DEF ActiveSanction
  <2> HIDE DEF s
  <2>4. TypeOK' /\ RowsOK'
    BY <2>1, <2>2, SanctionsAssumption
    DEF Inv, TypeOK, RowsOK, Sanctions, ApprovalStates, links
  <2>5. PublicIsApproved' /\ EmbargoIsHonoured' /\ RejectedIsDeleted'
    BY <2>1, <2>2, SanctionsAssumption
    DEF Inv, TypeOK, PublicIsApproved, EmbargoIsHonoured, RejectedIsDeleted, Sanctions
  <2>6. TerminationIsSettled'
    BY <2>1, <2>2, <2>3, SanctionsAssumption
    DEF Inv, TypeOK, TerminationIsSettled, IsEmbargoed, links, Sanctions
  <2>7. WithdrawnAgrees' /\ ComponentsAreCurrent'
    BY <2>1 DEF WithdrawnAgrees, ComponentsAreCurrent
  <2> QED
    BY <2>4, <2>5, <2>6, <2>7 DEF Inv
<1> QED
  BY <1>1, <1>2 DEF Archiver

LEMMA AdminAppStep ==
  ASSUME Inv, AdminApp
  PROVE  Inv'
<1>1. CASE UpdateEmbargo
  <2> DEFINE st == [state EXCEPT ![Embargo] = "APPROVED"]
  <2>1. /\ state' = st
        /\ state[Embargo] # "NONE"
        /\ modState' = [n \in Nodes |-> IF n = Root THEN modState[Root]
                                        ELSE Derived(state', retraction, termination)]
        /\ public' = [public EXCEPT ![Root] = FALSE]
        /\ UNCHANGED <<fixed, approved, links, tree>>
    BY <1>1 DEF UpdateEmbargo
  <2>2. /\ Storable(st)
        /\ st[Embargo] = "APPROVED"
        /\ \A s \in Sanctions \ {Embargo} : st[s] = state[s]
    BY SanctionsAssumption
    DEF Inv, TypeOK, RowsOK, Storable, Sanctions, ApprovalStates
  <2> HIDE DEF st
  <2>3. public' \in [Nodes -> BOOLEAN] /\ ~public'[Root]
    BY <2>1, RootAssumption DEF Inv, TypeOK
  <2>4. modState' \in [Nodes -> RegistrationModerationStates]
    BY <2>1, <2>2, DerivedType, RootAssumption DEF Inv, TypeOK
  <2>5. TypeOK' /\ RowsOK'
    BY <2>1, <2>2, <2>3, <2>4
    DEF Inv, TypeOK, RowsOK, Storable, links, fixed, tree, Sanctions
  <2>6. PublicIsApproved' /\ EmbargoIsHonoured' /\ TerminationIsSettled'
    BY <2>1, <2>2, <2>3
    DEF PublicIsApproved, EmbargoIsHonoured, TerminationIsSettled, IsEmbargoed
  <2>7. RejectedIsDeleted'
    BY <2>1, <2>2, SanctionsAssumption DEF Inv, RejectedIsDeleted, tree, Sanctions
  <2>8. WithdrawnAgrees'
    <3>1. retraction # None => retraction \in Sanctions \ {Embargo}
      BY SanctionsAssumption DEF Inv, TypeOK, Sanctions
    <3>2. retraction # None => state'[retraction] = state[retraction]
      BY <2>1, <2>2, <3>1
    <3>3. Derived(state', retraction, termination) = "WITHDRAWN"
            <=> retraction # None /\ state'[retraction] = "APPROVED"
      BY <2>1, <2>2, DerivedWithdrawn DEF Inv, TypeOK
    <3> QED
      BY <2>1, <3>2, <3>3, RootAssumption DEF Inv, WithdrawnAgrees, links, tree
  <2>9. ComponentsAreCurrent'
    BY <2>1 DEF ComponentsAreCurrent, links
  <2> QED
    BY <2>5, <2>6, <2>7, <2>8, <2>9 DEF Inv
<1>2. CASE AddEmbargo
  <2> DEFINE st == [state EXCEPT ![Embargo] = "UNAPPROVED"]
  <2>1. /\ Settle(st, retraction, termination)
        /\ state[Embargo] = "NONE"
        /\ forExisting'
        /\ forExisting' \in BOOLEAN
        /\ public' = [public EXCEPT ![Root] = FALSE]
        /\ UNCHANGED <<fixed, approved, deleted, source>>
    BY <1>2 DEF AddEmbargo
  <2>2. /\ Storable(st)
        /\ st[Embargo] = "UNAPPROVED"
        /\ \A s \in Sanctions \ {Embargo} : st[s] = state[s]
    BY SanctionsAssumption
    DEF Inv, TypeOK, RowsOK, Storable, Sanctions, ApprovalStates
  <2> HIDE DEF st
  <2>3. /\ modState' \in [Nodes -> RegistrationModerationStates]
        /\ WithdrawnAgrees'
        /\ ComponentsAreCurrent'
    BY <2>1, <2>2, SettleStep DEF Inv, TypeOK
  <2>4. state' = st /\ UNCHANGED links
    BY <2>1 DEF Settle, links
  <2>5. public' \in [Nodes -> BOOLEAN] /\ ~public'[Root]
    BY <2>1, RootAssumption DEF Inv, TypeOK
  <2>6. TypeOK' /\ RowsOK'
    BY <2>1, <2>2, <2>3, <2>4, <2>5
    DEF Inv, TypeOK, RowsOK, Storable, links, fixed, Sanctions
  <2>7. PublicIsApproved' /\ EmbargoIsHonoured'
    BY <2>5 DEF PublicIsApproved, EmbargoIsHonoured
  <2>8. RejectedIsDeleted'
    BY <2>1, <2>2, <2>4, SanctionsAssumption DEF Inv, RejectedIsDeleted, Sanctions
  <2>9. TerminationIsSettled'
    <3>1. termination # None => termination \in Sanctions \ {Embargo}
      BY SanctionsAssumption DEF Inv, TypeOK, Sanctions
    <3> QED
      BY <2>1, <2>2, <2>4, <3>1 DEF Inv, TerminationIsSettled, IsEmbargoed, links
  <2> QED
    BY <2>3, <2>6, <2>7, <2>8, <2>9 DEF Inv
<1>3. CASE UpdateModerationState
  <2>1. /\ Settle(state, retraction, termination)
        /\ UNCHANGED <<fixed, approved, tree, public>>
    BY <1>3 DEF UpdateModerationState
  <2>2. Storable(state)
    BY DEF Inv, TypeOK, RowsOK, Storable
  <2>3. /\ modState' \in [Nodes -> RegistrationModerationStates]
        /\ WithdrawnAgrees'
        /\ ComponentsAreCurrent'
    BY <2>1, <2>2, SettleStep DEF Inv, TypeOK
  <2>4. UNCHANGED <<state, links>>
    BY <2>1 DEF Settle, links
  <2> QED
    BY <2>1, <2>3, <2>4
    DEF Inv, TypeOK, RowsOK, PublicIsApproved, EmbargoIsHonoured, TerminationIsSettled,
        RejectedIsDeleted, IsEmbargoed, links, fixed, tree
<1> QED
  BY <1>1, <1>2, <1>3 DEF AdminApp

-----------------------------------------------------------------------------
\* The invariant holds initially and is preserved by every step.

LEMMA InvInit == Init => Inv
<1> SUFFICES ASSUME Init PROVE Inv
  OBVIOUS
<1>1. TypeOK
  BY DEF Init, TypeOK, ApprovalStates, RegistrationModerationStates
<1>2. RowsOK
  BY SanctionsAssumption DEF Init, RowsOK, Sanctions
<1>3. PublicIsApproved /\ EmbargoIsHonoured
  BY RootAssumption DEF Init, PublicIsApproved, EmbargoIsHonoured
<1>4. TerminationIsSettled /\ RejectedIsDeleted /\ WithdrawnAgrees
  BY SanctionsAssumption
  DEF Init, TerminationIsSettled, RejectedIsDeleted, WithdrawnAgrees, Sanctions
<1>5. ComponentsAreCurrent
  <2>1. Derived(state, None, None) = "INITIAL"
    <3>1. CASE state[Embargo] = "UNAPPROVED"
      BY <3>1, SanctionsAssumption
      DEF Init, Derived, ActiveSanction, FromSanction, FromEmbargo, FromApproval, Sanctions
    <3>2. CASE state[Embargo] # "UNAPPROVED"
      <4>1. state[Embargo] = "NONE" /\ state[Approval] = "UNAPPROVED"
        BY <3>2, SanctionsAssumption DEF Init, Sanctions
      <4> QED
        BY <4>1, SanctionsAssumption
        DEF Init, Derived, ActiveSanction, FromSanction, FromApproval, Sanctions
    <3> QED
      BY <3>1, <3>2
  <2> QED
    BY <2>1 DEF Init, ComponentsAreCurrent
<1> QED
  BY <1>1, <1>2, <1>3, <1>4, <1>5 DEF Inv

LEMMA InvStep == Inv /\ [Next]_vars => Inv'
<1> SUFFICES ASSUME Inv, [Next]_vars PROVE Inv'
  OBVIOUS
<1>1. CASE UNCHANGED vars
  BY <1>1
  DEF Inv, TypeOK, RowsOK, PublicIsApproved, EmbargoIsHonoured, TerminationIsSettled,
      RejectedIsDeleted, WithdrawnAgrees, ComponentsAreCurrent, IsEmbargoed,
      vars, fixed, links, tree
<1> QED
  BY <1>1, AdminContributorsStep, ModeratorsStep, ScriptsStep, ArchiverStep, AdminAppStep
  DEF Next

LEMMA InvHolds == Spec => []Inv
  BY InvInit, InvStep, PTL DEF Spec

-----------------------------------------------------------------------------
\* Every field keeps a value of its column, the moderation state never
\* becoming undefined (update_moderation_state and its fallback).
THEOREM TypeCorrect == Spec => []TypeOK
<1>1. Inv => TypeOK
  BY DEF Inv
<1> QED
  BY <1>1, InvHolds, PTL

\* A registration whose first sanction still waits for the admins is private
\* (set_privacy, withdraw, terminate_embargo, the scripts).
THEOREM PublicIsApprovedAlways == Spec => []PublicIsApproved
<1>1. Inv => PublicIsApproved
  BY DEF Inv
<1> QED
  BY <1>1, InvHolds, PTL

\* Without moderation an embargo in force means a private registration.
THEOREM EmbargoIsHonouredAlways == Spec => []EmbargoIsHonoured
<1>1. Inv => EmbargoIsHonoured
  BY DEF Inv
<1> QED
  BY <1>1, InvHolds, PTL

\* No undecided request to terminate an embargo outlives the embargo.
THEOREM TerminationIsSettledAlways == Spec => []TerminationIsSettled
<1>1. Inv => TerminationIsSettled
  BY DEF Inv
<1> QED
  BY <1>1, InvHolds, PTL

\* Rejection deletes, and only a deleted registration is cut off its project.
THEOREM RejectedIsDeletedAlways == Spec => []RejectedIsDeleted
<1>1. Inv => RejectedIsDeleted
  BY DEF Inv
<1> QED
  BY <1>1, InvHolds, PTL

\* The moderation state of a live registration and its retraction agree on
\* whether it is withdrawn.
THEOREM WithdrawnAgreesAlways == Spec => []WithdrawnAgrees
<1>1. Inv => WithdrawnAgrees
  BY DEF Inv
<1> QED
  BY <1>1, InvHolds, PTL

\* The components of a live registration show the derived state.
THEOREM ComponentsAreCurrentAlways == Spec => []ComponentsAreCurrent
<1>1. Inv => ComponentsAreCurrent
  BY DEF Inv
<1> QED
  BY <1>1, InvHolds, PTL

-----------------------------------------------------------------------------
\* What one step may do to one sanction other than the embargo.

Target(x) == IF moderated /\ x \notin Terminations THEN "PENDING_MODERATION" ELSE "APPROVED"

Moves(x) ==
  \/ state'[x] = state[x]
  \/ state[x] = "NONE" /\ state'[x] = "UNAPPROVED"
  \/ state[x] = "NONE" /\ state'[x] = "APPROVED" /\ moderated /\ x \notin Terminations
  \/ state[x] = "UNAPPROVED" /\ state'[x] \in {Target(x), "REJECTED"}
  \/ state[x] = "PENDING_MODERATION" /\ state'[x] \in {"APPROVED", "MODERATOR_REJECTED"}
  \/ state[x] # "NONE" /\ state'[x] = "REJECTED" /\ archive' = "FAILED"

Others == Sanctions \ {Embargo}

\* The effect of an accepted sanction on itself and on the others: along with
\* it, only an undecided termination may be approved.
LEMMA CompleteEffect ==
  ASSUME TypeOK, NEW s \in Sanctions, Complete(s), NEW x \in Others
  PROVE  \/ x = s /\ state'[x] = "APPROVED"
         \/ x # s /\ state'[x] = state[x]
         \/ x # s /\ x \in Terminations /\ state[x] = "UNAPPROVED" /\ state'[x] = "APPROVED"
<1>1. CASE s = Approval /\ CompleteApproval
  BY <1>1, SanctionsAssumption
  DEF TypeOK, CompleteApproval, Settle, Others, Sanctions, ApprovalStates
<1>2. CASE s = Embargo /\ CompleteEmbargo
  BY <1>2, SanctionsAssumption
  DEF TypeOK, CompleteEmbargo, Settle, Others, Sanctions, ApprovalStates
<1>3. CASE s \in Terminations /\ CompleteTermination(s)
  <2>1. \/ state' = [state EXCEPT ![s] = "APPROVED"]
        \/ state' = Lifted([state EXCEPT ![s] = "APPROVED"])
    BY <1>3 DEF CompleteTermination, Settle
  <2>2. termination = None \/ termination \in Terminations
    BY DEF TypeOK
  <2> QED
    BY <1>3, <2>1, <2>2, SanctionsAssumption DEF TypeOK, Lifted, Others, Sanctions
<1>4. CASE s \in Retractions /\ CompleteRetraction(s)
  BY <1>4, SanctionsAssumption
  DEF TypeOK, CompleteRetraction, Settle, Cancelled, Others, Sanctions
<1> QED
  BY <1>1, <1>2, <1>3, <1>4 DEF Complete

LEMMA AcceptEffect ==
  ASSUME TypeOK, NEW s \in Sanctions, state[s] = "UNAPPROVED", Accept(s), NEW x \in Others
  PROVE  \/ x = s /\ state'[x] = Target(x)
         \/ x # s /\ state'[x] = state[x]
         \/ x # s /\ x \in Terminations /\ state[x] = "UNAPPROVED" /\ state'[x] = Target(x)
<1>1. CASE moderated /\ s \notin Terminations
  BY <1>1 DEF TypeOK, Accept, Settle, Target, Others
<1>2. CASE ~(moderated /\ s \notin Terminations)
  BY <1>2, CompleteEffect DEF Accept, Target
<1> QED
  BY <1>1, <1>2

LEMMA RejectEffect ==
  ASSUME TypeOK, NEW s \in Sanctions, NEW outcome, Reject(s, outcome), NEW x \in Others
  PROVE  state'[x] = IF x = s THEN outcome ELSE state[x]
BY DEF TypeOK, Reject, RejectFirst, RejectTermination, RejectRetraction, Settle, Others

\* An approval recorded by an admin, and what comes of it.
Approves(x) ==
  \E a \in Admins :
    /\ state[x] = "UNAPPROVED"
    /\ approved'[x] = approved[x] \cup {a}
    /\ state'[x] = IF approved'[x] = Admins THEN Target(x) ELSE state[x]

LEMMA NextMoves ==
  ASSUME Inv, Next, NEW x \in Others
  PROVE  /\ Moves(x)
         /\ approved'[x] = approved[x] \/ Approves(x)
         /\ moderated' = moderated
<1> USE DEF Moves
<1>0. TypeOK /\ RowsOK /\ x \in Sanctions
  BY DEF Inv, Others
<1>1. ASSUME NEW s \in Sanctions, NEW a \in Admins, AdminApprove(s, a)
      PROVE  Moves(x) /\ (approved'[x] = approved[x] \/ Approves(x)) /\ moderated' = moderated
  <2>1. /\ state[s] = "UNAPPROVED"
        /\ approved' = [approved EXCEPT ![s] = @ \cup {a}]
        /\ IF approved[s] \cup {a} = Admins
           THEN Accept(s)
           ELSE UNCHANGED <<state, links, modState, public>>
        /\ moderated' = moderated
    BY <1>1 DEF AdminApprove, fixed
  <2>2. CASE approved[s] \cup {a} = Admins
    <3>1. \/ x = s /\ state'[x] = Target(x)
          \/ x # s /\ state'[x] = state[x]
          \/ x # s /\ x \in Terminations /\ state[x] = "UNAPPROVED" /\ state'[x] = Target(x)
      BY <1>0, <2>1, <2>2, AcceptEffect
    <3> QED
      BY <1>0, <2>1, <2>2, <3>1 DEF TypeOK, Approves
  <2>3. CASE approved[s] \cup {a} # Admins
    BY <1>0, <2>1, <2>3 DEF TypeOK, Approves
  <2> QED
    BY <2>2, <2>3
<1>2. ASSUME NEW s \in Sanctions, AdminReject(s)
      PROVE  Moves(x) /\ approved' = approved /\ moderated' = moderated
  BY <1>0, <1>2, RejectEffect DEF AdminReject, fixed
<1>3. ASSUME NEW r \in Retractions, RequestRetraction(r)
      PROVE  Moves(x) /\ approved' = approved /\ moderated' = moderated
  BY <1>0, <1>3 DEF RequestRetraction, Settle, TypeOK, fixed, Sanctions
<1>4. ASSUME NEW t \in Terminations, RequestTermination(t)
      PROVE  Moves(x) /\ approved' = approved /\ moderated' = moderated
  BY <1>0, <1>4 DEF RequestTermination, Settle, TypeOK, fixed, Sanctions
<1>5. ASSUME NEW n \in Nodes, MakePublic(n)
      PROVE  Moves(x) /\ approved' = approved /\ moderated' = moderated
  BY <1>5 DEF MakePublic, fixed
<1>6. CASE ModeratorAccept
  <2>1. PICK s \in Sanctions : state[s] = "PENDING_MODERATION" /\ Complete(s)
    BY <1>0, <1>6, ActiveSanctionType DEF ModeratorAccept
  <2> QED
    BY <1>0, <1>6, <2>1, CompleteEffect DEF ModeratorAccept, fixed, Target
<1>7. CASE ModeratorReject
  <2>1. PICK s \in Sanctions :
          state[s] = "PENDING_MODERATION" /\ Reject(s, "MODERATOR_REJECTED")
    BY <1>0, <1>7, ActiveSanctionType DEF ModeratorReject
  <2> QED
    BY <1>0, <1>7, <2>1, RejectEffect DEF ModeratorReject, fixed
<1>8. ASSUME NEW r \in Retractions, ForceWithdraw(r)
      PROVE  Moves(x) /\ approved' = approved /\ moderated' = moderated
  BY <1>0, <1>8, SanctionsAssumption
  DEF ForceWithdraw, CompleteRetraction, Settle, Cancelled, TypeOK, fixed, Sanctions, Others
<1>9. CASE NightlyApproval
  <2>1. CASE deleted
    BY <1>0, <1>9, <2>1 DEF NightlyApproval, TypeOK, fixed
  <2>2. CASE ~deleted
    BY <1>0, <1>9, <2>2, AcceptEffect DEF NightlyApproval, fixed, Sanctions
  <2> QED
    BY <2>1, <2>2
<1>10. CASE NightlyEmbargo
  BY <1>0, <1>10, AcceptEffect DEF NightlyEmbargo, fixed, Sanctions
<1>11. ASSUME NEW P \in Published, NightlyExpiry(P)
       PROVE  Moves(x) /\ approved' = approved /\ moderated' = moderated
  BY <1>0, <1>11, SanctionsAssumption
  DEF NightlyExpiry, Lifted, Target, TypeOK, fixed, Sanctions, Others
<1>12. ASSUME NEW t \in Terminations, NightlyTermination(t)
       PROVE  Moves(x) /\ approved' = approved /\ moderated' = moderated
  BY <1>0, <1>12, AcceptEffect DEF NightlyTermination, fixed, Sanctions
<1>13. ASSUME NEW r \in Retractions, NightlyRetraction(r)
       PROVE  Moves(x) /\ approved' = approved /\ moderated' = moderated
  BY <1>0, <1>13, AcceptEffect DEF NightlyRetraction, fixed, Sanctions
<1>14. ASSUME NEW r \in Retractions, NEW P \in Published, NightlyRetractionFails(r, P)
       PROVE  Moves(x) /\ approved' = approved /\ moderated' = moderated
  BY <1>0, <1>14, SanctionsAssumption
  DEF NightlyRetractionFails, Cancelled, TypeOK, fixed, Sanctions, Others
<1>15. CASE ArchiveFinished \/ ArchiveSuccess
  BY <1>15 DEF ArchiveFinished, ArchiveSuccess
<1>16. CASE ArchiveFail
  <2>1. ASSUME x = ActiveSanction(state, retraction, termination)
        PROVE  state[x] # "NONE"
    BY <1>0, <2>1, SanctionsAssumption DEF ActiveSanction, RowsOK, Others, Sanctions
  <2> QED
    BY <1>0, <1>16, <2>1 DEF ArchiveFail, TypeOK
<1>17. CASE AdminApp
  BY <1>0, <1>17
  DEF AdminApp, UpdateEmbargo, AddEmbargo, UpdateModerationState, Settle, TypeOK, fixed, Others
<1> QED
  BY <1>1, <1>2, <1>3, <1>4, <1>5, <1>6, <1>7, <1>8, <1>9, <1>10, <1>11, <1>12, <1>13,
     <1>14, <1>15, <1>16, <1>17
  DEF Next, AdminContributors, Moderators, Scripts, Archiver

\* A decision stands unless the archive fails.
THEOREM DecisionsAreFinalAlways == Spec => DecisionsAreFinal
<1>1. ASSUME Inv, [Next]_vars
      PROVE  [\A s \in Sanctions \ {Embargo} :
                state[s] \in {"APPROVED", "REJECTED", "MODERATOR_REJECTED"}
                  => state'[s] = state[s] \/ archive' = "FAILED"]_vars
  <2>1. CASE Next
    BY <1>1, <2>1, NextMoves DEF Moves, Others
  <2> QED
    BY <1>1, <2>1
<1> QED
  BY <1>1, InvHolds, PTL DEF Spec, DecisionsAreFinal

\* Every retraction, registration approval and termination implements the
\* workflow of ApprovalWorkflow.
THEOREM ImplementsWorkflow == Spec => FollowsWorkflow
<1>1. Init => \A s \in Sanctions \ {Embargo} : Workflow(s)!WorkflowInit
  BY DEF Init, Workflow!WorkflowInit
<1>2. Inv /\ [Next]_vars =>
        [\A s \in Sanctions \ {Embargo} :
           [Workflow(s)!WorkflowNext]_<<moderated, state[s], approved[s]>>]_vars
  <2>1. ASSUME Inv, Next, NEW s \in Sanctions \ {Embargo}
        PROVE  Workflow(s)!WorkflowNext \/ UNCHANGED <<moderated, state[s], approved[s]>>
    <3>1. /\ Moves(s)
          /\ approved'[s] = approved[s] \/ Approves(s)
          /\ moderated' = moderated
      BY <2>1, NextMoves DEF Others
    <3>2. (moderated /\ s \notin Terminations)' = (moderated /\ s \notin Terminations)
      BY <3>1
    <3>3. CASE Approves(s)
      <4>1. PICK a \in Admins : Workflow(s)!Approve(a)
        BY <3>3 DEF Approves, Target, Workflow!Approve, Workflow!Accepted
      <4> QED
        BY <3>2, <4>1 DEF Workflow!WorkflowNext
    <3>4. CASE approved'[s] = approved[s] /\ state'[s] # state[s]
      <4>1. \/ Workflow(s)!Create
            \/ Workflow(s)!CreateByModerator
            \/ Workflow(s)!TimeOut
            \/ Workflow(s)!RejectByAdmin
            \/ Workflow(s)!DecideByModerator
            \/ Workflow(s)!ForciblyReject
        BY <3>1, <3>4
        DEF Moves, Target, Workflow!Create, Workflow!CreateByModerator, Workflow!TimeOut,
            Workflow!RejectByAdmin, Workflow!DecideByModerator, Workflow!ForciblyReject,
            Workflow!Accepted
      <4> QED
        BY <3>2, <4>1 DEF Workflow!WorkflowNext
    <3> QED
      BY <3>1, <3>3, <3>4
  <2> QED
    BY <2>1
<1> QED
  BY <1>1, <1>2, InvHolds, PTL DEF Spec, FollowsWorkflow

\* A registration cut off its project is never published any more: it is a
\* deleted one, and every effect of a sanction first touches the project.
LEMMA CompleteNeedsSource ==
  ASSUME ~source, NEW s, Complete(s) \/ Accept(s)
  PROVE  public' = public
BY DEF Accept, Complete, CompleteApproval, CompleteEmbargo, CompleteTermination,
       CompleteRetraction

THEOREM DeletedStaysPrivateAlways == Spec => DeletedStaysPrivate
<1>1. ASSUME Inv, Next, ~source
      PROVE  \A n \in Nodes : public'[n] => public[n]
  <2>1. deleted
    BY <1>1 DEF Inv, RejectedIsDeleted
  <2>2. CASE AdminContributors
    BY <1>1, <2>1, <2>2, CompleteNeedsSource
    DEF AdminContributors, AdminApprove, AdminReject, Reject, RequestRetraction,
        RequestTermination, MakePublic
  <2>3. CASE Moderators
    BY <1>1, <2>3, CompleteNeedsSource
    DEF Moderators, ModeratorAccept, ModeratorReject, Reject, ForceWithdraw, CompleteRetraction
  <2>4. CASE Scripts
    BY <1>1, <2>1, <2>4, CompleteNeedsSource
    DEF Scripts, NightlyApproval, NightlyEmbargo, NightlyExpiry, NightlyTermination,
        NightlyRetraction, NightlyRetractionFails
  <2>5. CASE Archiver
    BY <2>5 DEF Archiver, ArchiveFinished, ArchiveSuccess, ArchiveFail
  <2>6. CASE AdminApp
    BY <1>1, <2>6, RootAssumption
    DEF AdminApp, UpdateEmbargo, AddEmbargo, UpdateModerationState, Inv, TypeOK
  <2> QED
    BY <1>1, <2>2, <2>3, <2>4, <2>5, <2>6 DEF Next
<1>2. Inv /\ [Next]_vars => [~source => \A n \in Nodes : public'[n] => public[n]]_vars
  BY <1>1
<1> QED
  BY <1>2, InvHolds, PTL DEF Spec, DeletedStaysPrivate

=============================================================================
