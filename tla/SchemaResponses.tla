--------------------------- MODULE SchemaResponses ---------------------------
(***************************************************************************)
(* The versions of the answers of one registration: the initial response,  *)
(* and the revisions made from it.  A response holds one block for every   *)
(* question of the schema; a revision starts with the blocks of the        *)
(* response it revises, and swaps in blocks of its own for what it         *)
(* changes.  Revisions go through APPROVAL_TRANSITIONS (ApprovalsMachine), *)
(* and update_moderation_state writes the state of the registration's      *)
(* first sanction into the initial response.                               *)
(*                                                                         *)
(* A request is one step, except that creations overlap (they check and    *)
(* insert without a lock), and so do approvals of one response (every      *)
(* request removes its own user and sees only what others committed).      *)
(***************************************************************************)
EXTENDS Naturals

CONSTANTS
  Admins,        \* admin contributors of the registration and its components
  Creators,      \* those of them who start revisions
  Keys,          \* the questions of the schema
  Required,      \* those of them that must be answered
  Answers,       \* the answers to them, free of markup
  Registered,    \* what the registration was made with
  Blank,         \* the default answer, which does not satisfy `required`
  Empty,         \* another value that counts as none: null, false or 0
  Inputs,        \* what a request may hold for each of them, marked-up answers too
  StripHtml,     \* what is left of that without markup
  None,          \* there is no such block
  MaxResponses   \* bound on the versions that exist at once

ASSUME AnswersAssumption ==
  /\ Required \subseteq Keys
  /\ Registered \in [Keys -> Answers \cup {Blank}]
  /\ \A k \in Required : Registered[k] # Blank
  /\ Blank \notin Answers
  /\ None \notin Answers \cup {Blank}

\* An answer without markup stays as it is.
ASSUME InputsAssumption ==
  /\ Empty \notin Answers \cup {Blank, None}
  /\ Inputs \in [Keys -> SUBSET DOMAIN StripHtml]
  /\ StripHtml \in [DOMAIN StripHtml -> Answers \cup {Blank, Empty}]
  /\ \A a \in Answers \cup {Blank, Empty} : a \in DOMAIN StripHtml /\ StripHtml[a] = a

ASSUME CreatorsAssumption == Creators \subseteq Admins

ASSUME MaxResponsesAssumption == MaxResponses \in Nat \ {0}

Initial == 1
Responses == 1 .. MaxResponses

VARIABLES
  moderated,  \* is_moderated
  sanction,   \* state of the registration's approval or embargo
  late,       \* that is an embargo which a site admin added later
  deleted,    \* the registration was deleted with its first sanction
  state,      \* reviews_state; NONE while there is no such response
  previous,   \* previous_response, 0 for the initial response
  block,      \* the answers of the blocks whose source is the response
  holds,      \* response_blocks: the source of the block held for each key
  pending,    \* pending_approvers
  creating,   \* the response a creation under way will revise, 0 if there is none
  approving   \* approvals under way: the user, and whether nobody else was left

registration == <<moderated, sanction, late, deleted>>
contents     == <<previous, block, holds>>
vars == <<registration, state, contents, pending, creating, approving>>

States == {"NONE", "IN_PROGRESS", "UNAPPROVED", "PENDING_MODERATION",
           "APPROVED", "REJECTED"}

SanctionStates == {"UNAPPROVED", "PENDING_MODERATION", "APPROVED", "REJECTED", "COMPLETED"}

Existing == {r \in Responses : state[r] # "NONE"}

\* schema_responses.first(), by creation; there is one
Newest == CHOOSE r \in Existing : \A q \in Existing : q <= r

Own(r) == {k \in Keys : block[r][k] # None}

Answer(r, k) == block[holds[r][k]][k]

\* is_valid, of a value of the question's type
Valid(k, answer) == k \in Required => answer \in Answers

NoBlocks == [k \in Keys |-> None]

\* All answers of the draft were validated before it was registered.
Init ==
  /\ moderated \in BOOLEAN
  /\ sanction = "UNAPPROVED"
  /\ late = FALSE
  /\ deleted = FALSE
  /\ state = [r \in Responses |-> IF r = Initial THEN "UNAPPROVED" ELSE "NONE"]
  /\ previous = [r \in Responses |-> 0]
  /\ block = [r \in Responses |-> IF r = Initial THEN Registered ELSE NoBlocks]
  /\ holds = [r \in Responses |-> [k \in Keys |-> r]]
  /\ pending = [r \in Responses |-> {}]
  /\ creating = [u \in Creators |-> 0]
  /\ approving = [r \in Responses |-> {}]

-----------------------------------------------------------------------------
\* Creation

\* create_initial_response, on a registration whose responses were deleted
CreateInitial ==
  /\ ~deleted
  /\ Existing = {}
  /\ state' = [state EXCEPT ![Initial] = "IN_PROGRESS"]
  /\ previous' = [previous EXCEPT ![Initial] = 0]
  /\ block' = [block EXCEPT ![Initial] = [k \in Keys |-> Blank]]
  /\ holds' = [holds EXCEPT ![Initial] = [k \in Keys |-> Initial]]
  /\ UNCHANGED <<registration, pending, creating, approving>>

\* No response of the parent is in a state other than APPROVED.
MayRevise == \A r \in Existing : state[r] = "APPROVED"

\* create_from_previous_response up to its check
CreationChecks(u) ==
  /\ ~deleted
  /\ Existing # {}
  /\ creating[u] = 0
  /\ MayRevise
  /\ creating' = [creating EXCEPT ![u] = Newest]
  /\ UNCHANGED <<registration, state, contents, pending, approving>>

\* The new response shares all blocks of the response it revises.
Shared(r, q) == holds[q]

\* The rest of it
CreationInserts(u) ==
  LET q == creating[u]
      r == Newest + 1 IN
  /\ q # 0
  /\ r \in Responses
  /\ state' = [state EXCEPT ![r] = "IN_PROGRESS"]
  /\ previous' = [previous EXCEPT ![r] = q]
  /\ holds' = [holds EXCEPT ![r] = Shared(r, q)]
  /\ creating' = [creating EXCEPT ![u] = 0]
  /\ UNCHANGED <<registration, block, pending, approving>>

-----------------------------------------------------------------------------
\* Editing

\* No approval of this response is under way, and the API lets requests in.
Open(r) == ~deleted /\ approving[r] = {}

Reverted(r, k, a) == previous[r] # 0 /\ Answer(previous[r], k) = a

\* Fault: the block is changed in place, whoever it belongs to.
Changed_InPlace(r, k, a) ==
  /\ block' = [block EXCEPT ![holds[r][k]][k] = a]
  /\ UNCHANGED holds

\* _update_response: the revision's own block, changed in place or new
Changed(r, k, a) ==
  /\ block' = [block EXCEPT ![r][k] = a]
  /\ holds' = [holds EXCEPT ![r][k] = r]

\* Fault: the block is deleted, and the previous one not put back.
PutBack_Not(r, k) ==
  /\ block' = [block EXCEPT ![holds[r][k]][k] = None]
  /\ UNCHANGED holds

\* _response_reverted: the block is deleted, the previous response's put back
PutBack(r, k) ==
  /\ block' = [block EXCEPT ![holds[r][k]][k] = None]
  /\ holds' = [holds EXCEPT ![r][k] = holds[previous[r]][k]]

\* Fault: markup is left to set_response.
Cleaned_Not(i) == i

\* JSONAPISerializer.is_valid strips all that it validates.
Cleaned(i) == StripHtml[i]

\* set_response: the default for what counts as none, else stripped once more
Stored(a) == IF a = Empty THEN Blank ELSE StripHtml[a]

\* One answer of a PATCH, which may hold several.  It is compared before
\* set_response makes of it what it stores.
UpdateResponse(r, k, i) ==
  LET a == Cleaned(i) IN
  /\ Open(r)
  /\ state[r] = "IN_PROGRESS"
  /\ a # Answer(r, k)
  /\ IF Reverted(r, k, a) THEN PutBack(r, k) ELSE Changed(r, k, Stored(a))
  /\ UNCHANGED <<registration, state, previous, pending, creating, approving>>

\* The response and all that revise it, directly or not
Line(r) ==
  LET origins[q \in Responses] ==
        {q} \cup IF previous[q] = 0 THEN {} ELSE origins[previous[q]]
  IN  {q \in Existing : r \in origins[q]}

\* What the foreign key previous_response deletes with the response.  Creations
\* and approvals under way that refer to one of them fail on the foreign key.
Cascade(r) == Line(r)

Delete(r) ==
  /\ Open(r)
  /\ state[r] = "IN_PROGRESS"
  /\ LET D == Cascade(r) IN
       /\ state' = [q \in Responses |-> IF q \in D THEN "NONE" ELSE state[q]]
       /\ previous' = [q \in Responses |-> IF q \in D THEN 0 ELSE previous[q]]
       /\ block' = [q \in Responses |-> IF q \in D THEN NoBlocks ELSE block[q]]
       /\ holds' = [q \in Responses |->
                      IF q \in D THEN [k \in Keys |-> q] ELSE holds[q]]
       /\ pending' = [q \in Responses |-> IF q \in D THEN {} ELSE pending[q]]
       /\ approving' = [q \in Responses |-> IF q \in D THEN {} ELSE approving[q]]
       /\ creating' = [u \in Creators |-> IF creating[u] \in D THEN 0 ELSE creating[u]]
  /\ UNCHANGED registration

-----------------------------------------------------------------------------
\* Review

\* Fault: the answers are not validated.
MaySubmit_Unvalidated(r) == Own(r) # {}

\* Something was answered, and all of it passes validation.
MaySubmit(r) == Own(r) # {} /\ \A k \in Own(r) : Valid(k, block[r][k])

Submit(r) ==
  /\ Open(r)
  /\ state[r] = "IN_PROGRESS"
  /\ MaySubmit(r)
  /\ state' = [state EXCEPT ![r] = "UNAPPROVED"]
  /\ pending' = [pending EXCEPT ![r] = Admins]
  /\ UNCHANGED <<registration, contents, creating, approving>>

\* The accept trigger from UNAPPROVED: on to moderation, or _on_complete.
AcceptAll(S) ==
  /\ state' = [r \in Responses |->
                 IF r \notin S THEN state[r]
                 ELSE IF moderated THEN "PENDING_MODERATION" ELSE "APPROVED"]
  /\ pending' = [r \in Responses |->
                   IF r \in S /\ ~moderated THEN {} ELSE pending[r]]

\* _on_approve of a pending approver: remove the user, is there anyone else?
ApprovalChecks(r, u) ==
  /\ ~deleted
  /\ state[r] = "UNAPPROVED"
  /\ u \in pending[r]
  /\ \A x \in approving[r] : x.user # u
  /\ approving' = [approving EXCEPT ![r] = @ \cup
                     {[user |-> u, last |-> pending[r] = {u}]}]
  /\ UNCHANGED <<registration, state, contents, pending, creating>>

\* The request saves the row and commits, and with it the queued accept of the
\* last approver.
ApprovalCommits(r, x) ==
  /\ x \in approving[r]
  /\ approving' = [approving EXCEPT ![r] = @ \ {x}]
  /\ IF x.last
     THEN /\ state' = [state EXCEPT ![r] = IF moderated THEN "PENDING_MODERATION"
                                                        ELSE "APPROVED"]
          /\ pending' = [pending EXCEPT ![r] = {}]
     ELSE /\ state' = [state EXCEPT ![r] = "UNAPPROVED"]
          /\ pending' = [pending EXCEPT ![r] = @ \ {x.user}]
  /\ UNCHANGED <<registration, contents, creating>>

\* The reject trigger: back to IN_PROGRESS, with nobody left to approve.
Rejected(r) ==
  /\ state' = [state EXCEPT ![r] = "IN_PROGRESS"]
  /\ pending' = [pending EXCEPT ![r] = {}]
  /\ UNCHANGED <<registration, contents, creating, approving>>

AdminReject(r, u) ==
  /\ Open(r)
  /\ state[r] = "UNAPPROVED"
  /\ u \in pending[r]
  /\ Rejected(r)

ModeratorReject(r) == Open(r) /\ state[r] = "PENDING_MODERATION" /\ Rejected(r)

ModeratorAccept(r) ==
  /\ Open(r)
  /\ state[r] = "PENDING_MODERATION"
  /\ state' = [state EXCEPT ![r] = "APPROVED"]
  /\ pending' = [pending EXCEPT ![r] = {}]
  /\ UNCHANGED <<registration, contents, creating, approving>>

\* Fault: a response whose approvers are all deleted is passed over.
Overdue_Asked == {r \in Responses : state[r] = "UNAPPROVED" /\ pending[r] # {}}

\* The initial response is decided with the registration.
Overdue == {r \in Responses : state[r] = "UNAPPROVED" /\ previous[r] # 0}

\* approve_pending_schema_responses, one transaction
NightlyAccept(S) ==
  /\ \A r \in S : approving[r] = {}
  /\ AcceptAll(S)
  /\ UNCHANGED <<registration, contents, creating, approving>>

NightlyScript == \E S \in SUBSET Overdue \ {{}} : NightlyAccept(S)

-----------------------------------------------------------------------------
\* The registration

\* The initial response: schema_responses.last(), by creation
Oldest == CHOOSE r \in Existing : \A q \in Existing : r <= q

\* Fault: also the end of an embargo is written.
Write_Completed(s) ==
  state' = IF Existing = {} THEN state ELSE [state EXCEPT ![Oldest] = s]

\* update_moderation_state writes the sanction's state into the initial
\* response, except that an embargo has ended.
Write(s) ==
  state' = IF Existing = {} \/ s = "COMPLETED" THEN state
           ELSE [state EXCEPT ![Oldest] = s]

\* The admins, moderators and scripts decide the sanction.  With its first
\* sanction the registration goes; an embargo added later leaves it there.
SanctionMoves ==
  ~deleted /\ \E s \in SanctionStates :
    /\ \/ sanction = "UNAPPROVED" /\ moderated  /\ s = "PENDING_MODERATION"
       \/ sanction = "UNAPPROVED" /\ ~moderated /\ s = "APPROVED"
       \/ sanction = "PENDING_MODERATION" /\ s = "APPROVED"
       \/ sanction \in {"UNAPPROVED", "PENDING_MODERATION"} /\ s = "REJECTED"
       \/ sanction = "APPROVED" /\ s = "COMPLETED"
    /\ sanction' = s
    /\ deleted' = (s = "REJECTED" /\ ~late)
    /\ Write(s)
    /\ UNCHANGED <<moderated, late, contents, pending, creating, approving>>

\* A site admin adds an embargo to a registration approved without one.
AddEmbargo ==
  /\ ~deleted
  /\ ~late
  /\ sanction = "APPROVED"
  /\ sanction' = "UNAPPROVED"
  /\ late' = TRUE
  /\ Write("UNAPPROVED")
  /\ UNCHANGED <<moderated, deleted, contents, pending, creating, approving>>

\* Any other change, or a site admin, derives the same state again.
UpdateModerationState ==
  /\ ~deleted
  /\ Write(sanction)
  /\ UNCHANGED <<registration, contents, pending, creating, approving>>

-----------------------------------------------------------------------------
Creation ==
  CreateInitial
  \/ \E u \in Creators : CreationChecks(u) \/ CreationInserts(u)

Editing ==
  \E r \in Existing :
    \/ Delete(r)
    \/ \E k \in Keys : \E i \in Inputs[k] : UpdateResponse(r, k, i)

Review ==
  \E r \in Existing :
    \/ Submit(r)
    \/ \E u \in Admins : ApprovalChecks(r, u) \/ AdminReject(r, u)
    \/ \E x \in approving[r] : ApprovalCommits(r, x)
    \/ ModeratorAccept(r)
    \/ ModeratorReject(r)

Parent == SanctionMoves \/ AddEmbargo \/ UpdateModerationState

Next == Creation \/ Editing \/ Review \/ NightlyScript \/ Parent

Spec == Init /\ [][Next]_vars

\* The beat runs the script every day, on all that is overdue; a request ends.
\* People owe nothing.
Fairness ==
  \A r \in Responses \ {Initial} :
    /\ WF_vars(\E S \in SUBSET Overdue : r \in S /\ NightlyAccept(S))
    /\ WF_vars(\E x \in approving[r] : ApprovalCommits(r, x))

FairSpec == Spec /\ Fairness

-----------------------------------------------------------------------------
\* The types of the columns, and of what the requests under way remember; no
\* response is ever COMPLETED, a state ApprovalsMachine has no way out of.
TypeOK ==
  /\ moderated \in BOOLEAN /\ late \in BOOLEAN /\ deleted \in BOOLEAN
  /\ sanction \in SanctionStates
  /\ state \in [Responses -> States]
  /\ previous \in [Responses -> 0 .. MaxResponses]
  /\ block \in [Responses -> [Keys -> Answers \cup {Blank, None}]]
  /\ holds \in [Responses -> [Keys -> Responses]]
  /\ pending \in [Responses -> SUBSET Admins]
  /\ creating \in [Creators -> 0 .. MaxResponses]
  /\ approving \in [Responses -> SUBSET [user : Admins, last : BOOLEAN]]

\* Every response answers every question, whatever was reverted or deleted: a
\* block another version shares is neither deleted nor lost (_response_reverted
\* deletes blocks, deleting a version cascades to its blocks and successors).
\* And what the admins and moderators are asked about, and what was approved,
\* has passed validation, also the answers taken over from earlier revisions
\* (submit validates new blocks only, "as old keys have previously passed").
\* The initial response's answers are left out of that: once the moderators
\* have sent it back it may be changed, and be approved with the registration.
SubmittedIsValid ==
  \A r \in Existing, k \in Keys :
    /\ Answer(r, k) # None
    /\ previous[r] # 0 /\ state[r] # "IN_PROGRESS"
         => Valid(k, Answer(r, k)) \/ holds[r][k] = Initial

\* Nobody is asked about a revision that revises nothing: an answer taken back
\* no longer counts as updated, and markup makes no new answer, although values
\* are compared before set_response turns them into what is stored.  The one
\* way around it: an optional question may be answered anew with nothing, by
\* another empty value than the default it had.  Only where the initial
\* response, which revisions are compared with, cannot be sent back.
RevisionsDiffer ==
  ~moderated /\ ~late =>
    \A r \in Existing :
      previous[r] # 0 /\ state[r] # "IN_PROGRESS"
        => \E k \in Keys :
             \/ Answer(r, k) # Answer(previous[r], k)
             \/ k \notin Required /\ holds[r][k] = r /\ Answer(r, k) = Blank

\* The answers of an approved version never change, although later revisions
\* edit, revert and delete the blocks they share with it.  The one exception
\* is an answer of the initial response while that has been sent back to its
\* authors, under a later embargo or by a moderator.
ApprovedIsFrozen ==
  [][\A r \in Responses, k \in Keys :
       state[r] = "APPROVED" /\ state'[r] = "APPROVED"
         => \/ Answer(r, k)' = Answer(r, k)
            \/ holds[r][k] = Initial /\ state[Initial] = "IN_PROGRESS"]_vars

\* A revision does not wait for its approvers for ever, not even when two
\* approvals overlapped and each left the last word to the other.
RevisionIsDecided ==
  \A r \in Responses \ {Initial} :
    state[r] = "UNAPPROVED" ~> state[r] # "UNAPPROVED"

\* "A new SchemaResponse cannot be created for a given parent object if it
\* already has another SchemaResponse in a non-APPROVED state"
\* (create_from_previous_response).
OneOpenRevision ==
  \A r, q \in Existing :
    previous[r] # 0 /\ previous[q] # 0 /\ state[r] # "APPROVED" /\ state[q] # "APPROVED"
      => r = q
=============================================================================
