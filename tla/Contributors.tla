---------------------------- MODULE Contributors ----------------------------
(***************************************************************************)
(* The contributors of one resource (ContributorMixin): the rows of the    *)
(* contributor table, the permission groups of the resource and the claim  *)
(* records kept by unregistered users, while accounts are registered,      *)
(* merged, disabled and deleted.  PATCH and DELETE of a contributor check  *)
(* first and write later, and nothing locks the resource in between: other *)
(* requests may write it meanwhile.                                        *)
(***************************************************************************)
EXTENDS Naturals, FiniteSets

CONSTANTS
  Users,
  Creator,      \* who made the resource
  Permissions,  \* the permission groups used: a subset of the keys of Rank
  Slots         \* bound on the requests between check and write

ASSUME CreatorAssumption == Creator \in Users
ASSUME PermissionsAssumption ==
  {"admin"} \subseteq Permissions /\ Permissions \subseteq {"read", "write", "admin"}
ASSUME SlotsAssumption == Slots \in Nat

VARIABLES
  status,        \* of each account
  contributors,  \* users with a row in the contributor table
  visible,       \* those shown in citations
  groups,        \* members of each permission group of the resource
  unclaimed,     \* users who keep a claim record for the resource
  flight,        \* requests that are through with their checks
  stale,         \* those whose checks others wrote after
  excuse         \* history: "raced" once such a request has written, else
                 \* "forced" once a site admin has removed a contributor

vars == <<status, contributors, visible, groups, unclaimed, flight, stale, excuse>>

Statuses == {"unregistered", "active", "disabled", "deleted", "merged"}

\* API_CONTRIBUTOR_PERMISSIONS
Rank == [read |-> 1, write |-> 2, admin |-> 3]

Requests ==
  ({"change"} \X Users \X Permissions \X BOOLEAN) \cup ({"remove"} \X Users)

Init ==
  /\ status \in {s \in [Users -> {"unregistered", "active"}] : s[Creator] = "active"}
  /\ contributors = {Creator}
  /\ visible = {Creator}
  /\ groups = [p \in Permissions |-> IF p = "admin" THEN {Creator} ELSE {}]
  /\ unclaimed = {}
  /\ flight = {}
  /\ stale = {}
  /\ excuse = "none"

-----------------------------------------------------------------------------
Registered(u) == status[u] \notin {"unregistered"}

\* Fault: an admin counts whatever the state of the account.
ActiveAdmins_Any == contributors \cap groups["admin"]

\* _get_admin_contributors_query
ActiveAdmins ==
  {u \in contributors \cap groups["admin"] : status[u] = "active"}

\* Someone may ask for changes: has_permission(ADMIN) of a user who can log in.
AnAdminAsks == \E a \in groups["admin"] : status[a] = "active"

\* clear_permissions and add_permission
Granted(u, p) ==
  [q \in Permissions |-> IF q = p THEN groups[q] \cup {u} ELSE groups[q] \ {u}]

\* Fault: a contributor who is removed stays in the groups.
Cleared_Never(u) == groups

Cleared(u) == [q \in Permissions |-> groups[q] \ {u}]

Disclaimed(u) == unclaimed \ {u}

\* Fault: a contributor who is removed is still cited.
Hidden_Never(u) == visible

\* The row is deleted, and the contributor cited no longer.
Hidden(u) == visible \ {u}

Shown(u, v) == IF v THEN visible \cup {u} ELSE visible \ {u}

\* set_permissions: the only registered admin stays one.
MaySet(u, p) ==
  u \in groups["admin"] /\ p # "admin" =>
    Cardinality({a \in groups["admin"] : Registered(a)}) > 1

\* Fault: the only visible contributor may be hidden.
MayShow_Always(u, v) == TRUE

\* set_visible
MayShow(u, v) == ~v /\ u \in visible => visible # {u}

\* A request that is not held between check and write.
Written == stale' = flight /\ UNCHANGED flight

-----------------------------------------------------------------------------
\* Adding

\* add_unclaimed_record
Invited(u) == IF Registered(u) THEN unclaimed ELSE unclaimed \cup {u}

\* add_contributor, by an admin's request or on an accepted access request
AddContributor(u, p, v) ==
  /\ AnAdminAsks
  /\ status[u] \in {"active", "unregistered"}
  /\ u \notin contributors
  /\ u \notin groups[p]
  /\ contributors' = contributors \cup {u}
  /\ visible' = Shown(u, v)
  /\ groups' = [groups EXCEPT ![p] = @ \cup {u}]
  /\ unclaimed' = Invited(u)
  /\ Written
  /\ UNCHANGED <<status, excuse>>

\* project_contributors_post with a user who is a contributor already
AddAgain(u, p) ==
  /\ AnAdminAsks
  /\ status[u] \in {"active", "unregistered"}
  /\ u \in contributors
  /\ MaySet(u, p)
  /\ groups' = Granted(u, p)
  /\ unclaimed' = Invited(u)
  /\ Written
  /\ UNCHANGED <<status, contributors, visible, excuse>>

\* project_contributors_post with a list that is refused half-way, by the
\* validation of a later entry or by add_contributors: the claim records of the
\* entries before are saved, and a 400 commits.
AddRefused(u) ==
  /\ AnAdminAsks
  /\ status[u] = "unregistered"
  /\ unclaimed' = Invited(u)
  /\ UNCHANGED <<status, contributors, visible, groups, flight, stale, excuse>>

\* copy_contributors_from: whoever contributes to the other resource, with no
\* look at the account and without the claim record
CopyContributor(u, p, v) ==
  /\ AnAdminAsks
  /\ status[u] # "merged"
  /\ u \notin contributors
  /\ u \notin groups[p]
  /\ contributors' = contributors \cup {u}
  /\ visible' = Shown(u, v)
  /\ groups' = [groups EXCEPT ![p] = @ \cup {u}]
  /\ Written
  /\ UNCHANGED <<status, unclaimed, excuse>>

-----------------------------------------------------------------------------
\* Changing and removing, in two steps

Enter(r) ==
  /\ Cardinality(flight) < Slots
  /\ r \notin flight
  /\ flight' = flight \cup {r}
  /\ UNCHANGED <<status, contributors, visible, groups, unclaimed, stale, excuse>>

Leave(r) ==
  /\ r \in flight
  /\ flight' = flight \ {r}
  /\ stale' = flight'
  /\ excuse' = IF r \in stale THEN "raced" ELSE excuse
  /\ UNCHANGED status

\* update_contributor: the only active admin stays one.
ChangeChecks(u, p, v) ==
  /\ AnAdminAsks
  /\ u \in contributors
  /\ ActiveAdmins = {u} => p = "admin"
  /\ MaySet(u, p)
  /\ MayShow(u, v)
  /\ Enter(<<"change", u, p, v>>)

ChangeWrites(u, p, v) ==
  /\ Leave(<<"change", u, p, v>>)
  /\ groups' = Granted(u, p)
  /\ visible' = Shown(u, v) \cap contributors
  /\ UNCHANGED <<contributors, unclaimed>>

\* remove_contributor leaves a visible contributor and an active admin.
MayRemove(u) == visible \ {u} # {} /\ ActiveAdmins \ {u} # {}

\* An admin removes anybody, anybody leaves.
RemoveChecks(u) ==
  /\ AnAdminAsks \/ status[u] = "active"
  /\ u \in contributors
  /\ MayRemove(u)
  /\ Enter(<<"remove", u>>)

\* A row that is gone fails the request.
RemoveWrites(u) ==
  /\ Leave(<<"remove", u>>)
  /\ contributors' = contributors \ {u}
  /\ visible' = Hidden(u)
  /\ IF u \in contributors
     THEN groups' = Cleared(u) /\ unclaimed' = Disclaimed(u)
     ELSE UNCHANGED <<groups, unclaimed>>

-----------------------------------------------------------------------------
\* manage_contributors: the contributors to keep, with permissions, and who of
\* them is visible.  Permissions are set without validation and the list is
\* checked after; a removal that would leave nobody visible is skipped, though
\* the claim record is gone by then.
Manage(keep, permission, show) ==
  LET shown == visible \cup show
      hidden == (keep \ show) \cap visible
      left == shown \ hidden
      removed == contributors \ keep
  IN
  /\ AnAdminAsks
  /\ keep \subseteq contributors
  /\ hidden # {} => left # {}
  /\ \E u \in keep : permission[u] = "admin" /\ status[u] = "active"
  /\ \E refused \in SUBSET removed :
       /\ IF left \cap keep # {} THEN refused = {}
          ELSE Cardinality(refused) = 1 /\ refused \subseteq left
       /\ contributors' = keep \cup refused
       /\ visible' = left \cap contributors'
       /\ groups' = [p \in Permissions |->
            (groups[p] \ (keep \cup (removed \ refused))) \cup {u \in keep : permission[u] = p}]
  /\ unclaimed' = unclaimed \ removed
  /\ Written
  /\ UNCHANGED <<status, excuse>>

\* NodeRemoveContributorView: forced, as long as another contributor is an
\* admin, whatever the account
SiteAdminRemoves(u) ==
  /\ u \in contributors
  /\ u \in groups["admin"] => (contributors \cap groups["admin"]) \ {u} # {}
  /\ contributors' = contributors \ {u}
  /\ visible' = Hidden(u)
  /\ groups' = Cleared(u)
  /\ unclaimed' = Disclaimed(u)
  /\ excuse' = IF excuse = "raced" THEN excuse ELSE "forced"
  /\ Written
  /\ UNCHANGED status

-----------------------------------------------------------------------------
\* Accounts

\* The user claims the account with a password (claim_user_form,
\* ConfirmClaimUser), confirms its address or logs in through an institution.
Register(u) ==
  /\ status[u] = "unregistered"
  /\ status' = [status EXCEPT ![u] = "active"]
  /\ unclaimed' = Disclaimed(u)
  /\ Written
  /\ UNCHANGED <<contributors, visible, groups, excuse>>

\* claim_user_registered: replace_contributor, which does nothing unless old is
\* a contributor.
Claim(old, new) ==
  /\ old \in unclaimed
  /\ old \in contributors
  /\ status[new] = "active"
  /\ new \notin contributors
  /\ contributors' = (contributors \ {old}) \cup {new}
  /\ visible' = IF old \in visible THEN (visible \ {old}) \cup {new} ELSE visible
  /\ groups' = [p \in Permissions |->
       IF old \in groups[p] THEN (groups[p] \ {old}) \cup {new} ELSE groups[p]]
  /\ unclaimed' = unclaimed \ {old}
  /\ Written
  /\ UNCHANGED <<status, excuse>>

\* Permission of a contributor: get_user_permission
PermissionOf(u) ==
  CHOOSE p \in Permissions : u \in groups[p] /\
    \A q \in Permissions : u \in groups[q] => Rank[q] <= Rank[p]

\* Fault: the account merged into keeps its own permission.
Best_Own(u, m) == PermissionOf(m)

Best(u, m) ==
  IF m \in contributors /\ Rank[PermissionOf(m)] >= Rank[PermissionOf(u)]
  THEN PermissionOf(m) ELSE PermissionOf(u)

\* Fault: the merged account keeps its permission.
Unmerged_Kept(u, m) == Granted(m, Best(u, m))

\* The groups once m has the better permission and u has lost its own
Unmerged(u, m) ==
  LET given == IF m \in contributors THEN Granted(m, Best(u, m))
               ELSE [groups EXCEPT ![PermissionOf(u)] = @ \cup {m}]
  IN [given EXCEPT ![PermissionOf(u)] = @ \ {u}]

InAGroup(u) == \E p \in Permissions : u \in groups[p]

\* merge_user of u into m.  Its claim records go with it: confirm_email clears
\* those of m too, the task merge_users does not save m.
Merge(u, m) ==
  /\ u # m
  /\ status[u] # "merged" /\ status[u] # "deleted"
  /\ status[m] = "active"
  /\ status' = [status EXCEPT ![u] = "merged"]
  /\ IF u \in contributors
     THEN /\ InAGroup(u)
          /\ IF m \in contributors THEN InAGroup(m) ELSE m \notin groups[PermissionOf(u)]
          /\ contributors' = (contributors \ {u}) \cup {m}
          /\ visible' = (visible \ {u}) \cup
               (IF u \in visible THEN {m} ELSE {})
          /\ groups' = Unmerged(u, m)
     ELSE UNCHANGED <<contributors, visible, groups>>
  /\ unclaimed' \in {unclaimed \ {u}, unclaimed \ {u, m}}
  /\ Written
  /\ UNCHANGED excuse

\* deactivate_account (site admins, spam), reactivate_account
Disable(u) ==
  /\ status[u] = "active"
  /\ status' = [status EXCEPT ![u] = "disabled"]
  /\ Written
  /\ UNCHANGED <<contributors, visible, groups, unclaimed, excuse>>

Reactivate(u) ==
  /\ status[u] = "disabled"
  /\ status' = [status EXCEPT ![u] = "active"]
  /\ Written
  /\ UNCHANGED <<contributors, visible, groups, unclaimed, excuse>>

\* _validate_admin_status_for_gdpr_delete: of a shared resource
MayDelete(u) ==
  contributors \ {u} # {} =>
    \E a \in groups["admin"] \ {u} : status[a] = "active"

\* gdpr_delete: the answer of remove_contributor is ignored; a resource of
\* another kind may refuse once this one is left.
GdprDelete(u) ==
  /\ status[u] \in {"active", "disabled"}
  /\ u \in contributors => MayDelete(u)
  /\ IF u \in contributors /\ contributors # {u} /\ MayRemove(u)
     THEN /\ contributors' = contributors \ {u}
          /\ visible' = Hidden(u)
          /\ groups' = Cleared(u)
     ELSE UNCHANGED <<contributors, visible, groups>>
  /\ \/ status' = [status EXCEPT ![u] = "deleted"] /\ unclaimed' = Disclaimed(u)
     \/ /\ UNCHANGED status
        /\ unclaimed' = IF u \in contributors \ contributors' THEN Disclaimed(u) ELSE unclaimed
  /\ Written
  /\ UNCHANGED excuse

-----------------------------------------------------------------------------
Next ==
  \/ \E u \in Users, p \in Permissions, v \in BOOLEAN :
       \/ AddContributor(u, p, v) \/ CopyContributor(u, p, v)
       \/ ChangeChecks(u, p, v) \/ ChangeWrites(u, p, v)
  \/ \E u \in Users, p \in Permissions : AddAgain(u, p)
  \/ \E keep \in SUBSET contributors : \E permission \in [keep -> Permissions] :
       \E show \in SUBSET keep : Manage(keep, permission, show)
  \/ \E u \in Users :
       \/ AddRefused(u) \/ RemoveChecks(u) \/ RemoveWrites(u) \/ SiteAdminRemoves(u)
       \/ Register(u) \/ Disable(u) \/ Reactivate(u) \/ GdprDelete(u)
  \/ \E u, m \in Users : Claim(u, m) \/ Merge(u, m)

Spec == Init /\ [][Next]_vars

-----------------------------------------------------------------------------
\* Types of the variables; only contributors are cited, races or not.  A claim
\* record need not lead to a contributor.
TypeOK ==
  /\ status \in [Users -> Statuses]
  /\ contributors \subseteq Users
  /\ visible \subseteq contributors
  /\ groups \in [Permissions -> SUBSET Users]
  /\ unclaimed \subseteq Users
  /\ flight \subseteq Requests
  /\ stale \subseteq flight
  /\ excuse \in {"none", "forced", "raced"}

\* Permissions are those of contributors, one for each, and an account that was
\* merged contributes no longer, as long as no request wrote after checks that
\* had gone stale.
GroupsAgree ==
  excuse = "raced" \/ \A u \in Users :
    /\ Cardinality({p \in Permissions : u \in groups[p]}) =
         IF u \in contributors THEN 1 ELSE 0
    /\ status[u] = "merged" => u \notin contributors

\* Somebody is left to cite: neither changes, removals, lists, claims, merges
\* nor deletions take the last visible contributor; only a site admin does, or
\* two requests that overlap.
SomeVisible == excuse # "none" \/ visible # {}

\* "Node must have at least one registered admin user", whoever merges, claims
\* or deletes accounts, with the same exceptions.
RegisteredAdmin ==
  excuse # "none" \/ \E u \in contributors \cap groups["admin"] : Registered(u)

AtLeast(p) == UNION {groups[q] : q \in {r \in Permissions : Rank[r] >= Rank[p]}}

\* Merging an account loses neither its permission nor its citation, nor those
\* of anybody else (merge_user: the highest permission of the two, visible if
\* either is).
MergeKeepsTheBest ==
  [][\A u \in contributors :
       excuse # "raced" /\ status[u] # "merged" /\ status'[u] = "merged" =>
         /\ \A w \in contributors \ {u}, p \in Permissions :
              /\ w \in groups[p] => w \in AtLeast(p)'
              /\ w \in visible => w \in visible'
         /\ \E m \in contributors' :
              /\ \A p \in Permissions : u \in groups[p] => m \in AtLeast(p)'
              /\ u \in visible => m \in visible']_vars
===============================================================================
