------------------------------- MODULE Preprints -------------------------------
(***************************************************************************)
(* The versions of one preprint: their review by the moderators of the     *)
(* provider (ReviewsMachine, REVIEWABLE_TRANSITIONS), the requests to      *)
(* withdraw them (PreprintRequestMachine), and the base guid, the link     *)
(* that leads to one of the versions.                                      *)
(*                                                                         *)
(* The provider keeps its workflow, and site admins do not set the state,  *)
(* the provider or the publication of a version by hand.                   *)
(*                                                                         *)
(* A request is one step, except that a review action loads the preprint   *)
(* without a lock and saves every column of what it loaded: such requests  *)
(* overlap with each other and with everything else.                       *)
(***************************************************************************)
EXTENDS Naturals

CONSTANTS
  Workflows,    \* reviews_workflow of the provider may be any of these
  Requests,     \* review requests that may be under way at once
  MaxVersions,  \* bound on the version numbers
  None          \* no request

\* run_submit: hybrid moderation is not relevant for preprints.
AllWorkflows == {"none", "pre-moderation", "post-moderation"}

ASSUME WorkflowsAssumption == Workflows \subseteq AllWorkflows
ASSUME MaxVersionsAssumption == MaxVersions \in Nat \ {0}
ASSUME NoneAssumption == None \notin {"pending", "accepted", "rejected"}

Versions == 1 .. MaxVersions

VARIABLES
  workflow,     \* the provider's reviews_workflow
  made,         \* the versions in GuidVersionsThrough
  rejected,     \* those with is_rejected
  row,          \* the Preprint row of each version
  before,       \* from_state of the last withdraw action of a version
  base,         \* the version the base guid refers to
  withdrawal,   \* machine_state of the withdrawal request for a version
  loaded,       \* what each review request has loaded
  overwritten   \* history: versions saved over by a request that loaded them earlier

vars == <<workflow, made, rejected, row, before, base, withdrawal, loaded, overwritten>>

States == {"initial", "pending", "accepted", "rejected", "withdrawn"}

\* published is is_published, ever stands for ever_public and date_published
\* (set together), withdrawn says that there is a date_withdrawn.
Rows == [state : States, published : BOOLEAN, ever : BOOLEAN, withdrawn : BOOLEAN]

Draft == [state |-> "initial", published |-> FALSE, ever |-> FALSE, withdrawn |-> FALSE]

PublicStates ==
  [w \in AllWorkflows |-> {"accepted"}
     \cup (IF w = "post-moderation" THEN {"pending"} ELSE {})
     \cup (IF w = "none" THEN States \ {"withdrawn"} ELSE {})]

\* Preprint.create
Init ==
  /\ workflow \in Workflows
  /\ made = {1}
  /\ rejected = {}
  /\ row = [v \in Versions |-> Draft]
  /\ before = [v \in Versions |-> None]
  /\ base = 1
  /\ withdrawal = [v \in Versions |-> None]
  /\ loaded = [q \in Requests |-> None]
  /\ overwritten = {}

Newest(S) == CHOOSE v \in S : \A u \in S : u <= v

-----------------------------------------------------------------------------
\* Versions

\* Fault: has_unpublished_pending_version only.
Unfinished_Pending ==
  made \ rejected # {} /\ row[Newest(made \ rejected)].state = "pending"

\* check_unfinished_or_unpublished_version: get_last_not_rejected_version is
\* a draft (the author is sent back to it) or waits for its moderators.
Unfinished ==
  /\ made \ rejected # {}
  /\ LET r == row[Newest(made \ rejected)]
     IN ~r.ever /\ r.state \in {"initial", "pending"}

\* Fault: the base guid always refers to the version made last.
LinkNewest_Always(v) == v > base

LinkNewest(v) == workflow = "none" /\ v > base

\* create_version.  A version number is unique: of two requests that overlap
\* one fails.
CreateVersion ==
  /\ made # {}
  /\ ~Unfinished
  /\ Newest(made) < MaxVersions
  /\ LET v == Newest(made) + 1 IN
       /\ made' = made \cup {v}
       /\ row' = [row EXCEPT ![v] = Draft]
       /\ base' = IF LinkNewest(v) THEN v ELSE base
  /\ UNCHANGED <<workflow, rejected, before, withdrawal, loaded, overwritten>>

\* set_published, by the author where nothing is moderated
Publish(v) ==
  /\ workflow = "none"
  /\ v \in made
  /\ row' = [row EXCEPT ![v].state = "accepted", ![v].published = TRUE, ![v].ever = TRUE]
  /\ UNCHANGED <<workflow, made, rejected, before, base, withdrawal, loaded, overwritten>>

\* Fault: the base guid is left alone.
BaseWithout_Same(v) == base

\* PreprintHardDeleteView refers the base guid to the last version before v
\* that is not rejected.
BaseWithout(v) ==
  LET earlier == {u \in made \ rejected : u < v}
  IN IF earlier = {} THEN base ELSE Newest(earlier)

\* A site admin deletes a draft.  A base guid that refers to it goes with it
\* (guids is a GenericRelation), and takes all versions along.
HardDelete(v) ==
  /\ v \in made
  /\ row[v].state = "initial"
  /\ \A q \in Requests : loaded[q] # None => loaded[q].version # v
  /\ base' = BaseWithout(v)
  /\ made' = IF base' = v THEN {} ELSE made \ {v}
  /\ rejected' = rejected \cap made'
  /\ row' = [row EXCEPT ![v] = Draft]
  /\ before' = [before EXCEPT ![v] = None]
  /\ withdrawal' = [withdrawal EXCEPT ![v] = None]
  /\ overwritten' = overwritten \ {v}
  /\ UNCHANGED <<workflow, loaded>>

-----------------------------------------------------------------------------
\* The review machine

Sources ==
  [submit       |-> {"initial"} \cup
                    (IF workflow = "pre-moderation" THEN {"pending", "rejected"}
                     ELSE IF workflow = "post-moderation" THEN {"pending"} ELSE {}),
   accept       |-> {"pending", "rejected"},
   reject       |-> {"pending", "accepted"},
   edit_comment |-> {"pending", "accepted", "rejected"},
   withdraw     |-> {"pending", "accepted"}]

Triggers == DOMAIN Sources

Destination(trigger, state) ==
  [submit |-> "pending", accept |-> "accepted", reject |-> "rejected",
   edit_comment |-> state, withdraw |-> "withdrawn"][trigger]

\* Fault: a version that leaves the public states stays published.
Saved_Published(r) ==
  IF ~r.withdrawn /\ r.state \in PublicStates[workflow]
    THEN [r EXCEPT !.published = TRUE, !.ever = TRUE]
    ELSE r

\* save_changes
Saved(r) ==
  IF r.withdrawn THEN r
  ELSE IF r.state \in PublicStates[workflow]
         THEN [r EXCEPT !.published = TRUE, !.ever = TRUE]
         ELSE [r EXCEPT !.published = FALSE]

\* A row after a transition and its callbacks
Ran(trigger, r) ==
  Saved([r EXCEPT !.state = Destination(trigger, r.state),
                  !.withdrawn = r.withdrawn \/ trigger = "withdraw"])

\* run_submit and run_accept refer the base guid to the version.
Links(trigger) ==
  \/ trigger = "submit" /\ workflow = "post-moderation"
  \/ trigger = "accept" /\ workflow = "pre-moderation"

\* Fault: is_rejected is only ever set.
Flagged_Kept(trigger, v) == IF trigger = "reject" THEN rejected \cup {v} ELSE rejected

Flagged(trigger, v) ==
  CASE trigger = "reject" -> rejected \cup {v}
    [] trigger = "accept" -> rejected \ {v}
    [] OTHER -> rejected

\* A review action starts: TargetRelationshipField loads the preprint.
Load(q, v) ==
  /\ workflow # "none"
  /\ v \in made
  /\ loaded[q] = None
  /\ loaded' = [loaded EXCEPT ![q] = [version |-> v, row |-> row[v]]]
  /\ UNCHANGED <<workflow, made, rejected, row, before, base, withdrawal, overwritten>>

\* The transition of what was loaded is saved and committed.
Commit(q, trigger) ==
  /\ loaded[q] # None
  /\ LET v == loaded[q].version
         r == loaded[q].row
     IN /\ r.state \in Sources[trigger]
        /\ row' = [row EXCEPT ![v] = Ran(trigger, r)]
        /\ rejected' = Flagged(trigger, v)
        /\ before' = IF trigger = "withdraw" THEN [before EXCEPT ![v] = r.state] ELSE before
        /\ base' = IF Links(trigger) THEN v ELSE base
        /\ overwritten' = IF r # row[v] THEN overwritten \cup {v} ELSE overwritten
  /\ loaded' = [loaded EXCEPT ![q] = None]
  /\ UNCHANGED <<workflow, made, withdrawal>>

\* The machine refuses the trigger, or the user or the data are refused.
Refuse(q) ==
  /\ loaded[q] # None
  /\ loaded' = [loaded EXCEPT ![q] = None]
  /\ UNCHANGED <<workflow, made, rejected, row, before, base, withdrawal, overwritten>>

-----------------------------------------------------------------------------
\* Withdrawal requests: one for each version (the code allows one per author)

\* run_withdraw in the transaction that accepts the request: when the machine
\* refuses it, nothing is accepted.
Withdraw(v) ==
  /\ row[v].state \in Sources["withdraw"]
  /\ row' = [row EXCEPT ![v] = Ran("withdraw", row[v])]
  /\ before' = [before EXCEPT ![v] = row[v].state]
  /\ withdrawal' = [withdrawal EXCEPT ![v] = "accepted"]

\* auto_approval_allowed
AutoApproved(v) == workflow = "pre-moderation" /\ ~row[v].ever

\* PreprintRequestCreateSerializer.create and run_submit
AskWithdrawal(v) ==
  /\ v \in made
  /\ withdrawal[v] = None
  /\ IF AutoApproved(v)
       THEN Withdraw(v)
       ELSE withdrawal' = [withdrawal EXCEPT ![v] = "pending"] /\ UNCHANGED <<row, before>>
  /\ UNCHANGED <<workflow, made, rejected, base, loaded, overwritten>>

AcceptWithdrawal(v) ==
  /\ withdrawal[v] \in {"pending", "rejected"}
  /\ Withdraw(v)
  /\ UNCHANGED <<workflow, made, rejected, base, loaded, overwritten>>

RejectWithdrawal(v) ==
  /\ withdrawal[v] \in {"pending", "accepted"}
  /\ withdrawal' = [withdrawal EXCEPT ![v] = "rejected"]
  /\ UNCHANGED <<workflow, made, rejected, row, before, base, loaded, overwritten>>

\* Fault: the accepted request stays.
Undone_Kept(w) == w

\* The accepted request is deleted.
Undone(w) == IF w = "accepted" THEN None ELSE w

\* Fault: the withdraw action is deleted before it is read.
Restored_AfterDelete(v) == None

\* from_state of the last withdraw action
Restored(v) == before[v]

\* PreprintUnwithdrawView
Unwithdraw(v) ==
  /\ v \in made
  /\ row[v].state = "withdrawn"
  /\ row' = [row EXCEPT ![v].state = Restored(v), ![v].withdrawn = FALSE]
  /\ before' = [before EXCEPT ![v] = None]
  /\ withdrawal' = [withdrawal EXCEPT ![v] = Undone(withdrawal[v])]
  /\ UNCHANGED <<workflow, made, rejected, base, loaded, overwritten>>

-----------------------------------------------------------------------------
Next ==
  \/ CreateVersion
  \/ \E v \in Versions :
       \/ Publish(v) \/ HardDelete(v)
       \/ AskWithdrawal(v) \/ AcceptWithdrawal(v) \/ RejectWithdrawal(v) \/ Unwithdraw(v)
       \/ \E q \in Requests : Load(q, v)
  \/ \E q \in Requests : Refuse(q) \/ \E trigger \in Triggers : Commit(q, trigger)

Spec == Init /\ [][Next]_vars

-----------------------------------------------------------------------------
\* Types of the variables; the link leads to a version that is there.
TypeOK ==
  /\ workflow \in Workflows
  /\ made \subseteq Versions
  /\ rejected \subseteq made
  /\ row \in [Versions -> Rows]
  /\ before \in [Versions -> States \cup {None}]
  /\ base \in Versions /\ (made # {} => base \in made)
  /\ withdrawal \in [Versions -> {None, "pending", "accepted", "rejected"}]
  /\ \A q \in Requests :
       loaded[q] # None => loaded[q].version \in made /\ loaded[q].row \in Rows
  /\ overwritten \subseteq made

\* Readers see a version exactly while its state is public under the workflow
\* of its provider: through resubmissions, overlapping moderators, withdrawals
\* and withdrawals undone no version stays published or hidden by mistake
\* (ReviewsMachine.save_changes, PreprintUnwithdrawView.post).
PublishedAgreesWithState ==
  \A v \in made : ~row[v].withdrawn =>
    (row[v].published <=> row[v].state \in PublicStates[workflow] \ {"initial"})

\* The marks that later requests go by follow the decisions of the moderators,
\* unless a review request that overlapped saved the row over: a version whose
\* withdrawal was accepted is withdrawn (PreprintRequestMachine.save_changes); a
\* rejected one does not keep its author from making the next, and an accepted
\* one counts as the last (run_accept, run_reject, get_last_not_rejected_version).
DecisionsShow ==
  \A v \in made \ overwritten :
    /\ withdrawal[v] = "accepted" => row[v].withdrawn
    /\ row[v].state = "rejected" => v \in rejected
    /\ row[v].state = "accepted" => v \notin rejected

\* There is at most one draft, and it is the newest version: an author who
\* asks for a new version is sent back to it.  The link of a moderated preprint
\* does not lead readers to it, unless there is no other version (create_version,
\* run_submit, run_accept, PreprintHardDeleteView.post).
OneDraft ==
  \A v \in made : row[v].state = "initial" =>
    /\ v = Newest(made)
    /\ workflow # "none" /\ base = v => made = {v}
================================================================================
