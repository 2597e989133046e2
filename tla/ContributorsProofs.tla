-------------------------- MODULE ContributorsProofs --------------------------
(***************************************************************************)
(* Proofs of the safety properties of Contributors, for any set of users,  *)
(* any of the permission groups and any number of overlapping requests.    *)
(***************************************************************************)
EXTENDS Contributors, FiniteSetTheorems, TLAPS

\* A contributor is in exactly one permission group, anybody else in none.
OnePermission ==
  \A u \in Users :
    IF u \in contributors
    THEN \E p \in Permissions : \A q \in Permissions : u \in groups[q] <=> q = p
    ELSE \A p \in Permissions : u \notin groups[p]

\* An account that was merged contributes nothing.
MergedIsGone == \A u \in Users : status[u] = "merged" => u \notin contributors

\* What a request has checked is still so until others write.
ChecksHold ==
  /\ \A u \in Users, p \in Permissions, v \in BOOLEAN :
       <<"change", u, p, v>> \in flight \ stale =>
         /\ u \in contributors
         /\ MaySet(u, p)
         /\ MayShow(u, v)
  /\ \A u \in Users :
       <<"remove", u>> \in flight \ stale => u \in contributors /\ MayRemove(u)

\* The inductive invariant.
Inv ==
  /\ TypeOK
  /\ ChecksHold
  /\ excuse # "raced" => OnePermission /\ MergedIsGone
  /\ SomeVisible
  /\ RegisteredAdmin

-----------------------------------------------------------------------------
\* The types of the variables after every step: who is visible is a
\* contributor, and stops being both at once.
LEMMA TypeStep == TypeOK /\ [Next]_vars => TypeOK'
<1> SUFFICES ASSUME TypeOK, [Next]_vars PROVE TypeOK'
  OBVIOUS
<1> USE DEF TypeOK, Statuses, Written
<1>1. ASSUME NEW u \in Users, NEW p \in Permissions, NEW v \in BOOLEAN, AddContributor(u, p, v)
      PROVE  TypeOK'
  BY <1>1 DEF AddContributor, Shown, Invited
<1>2. ASSUME NEW u \in Users, NEW p \in Permissions, NEW v \in BOOLEAN, CopyContributor(u, p, v)
      PROVE  TypeOK'
  BY <1>2 DEF CopyContributor, Shown
<1>3. ASSUME NEW u \in Users, NEW p \in Permissions, NEW v \in BOOLEAN, ChangeChecks(u, p, v)
      PROVE  TypeOK'
  BY <1>3 DEF ChangeChecks, Enter, Requests
<1>4. ASSUME NEW u \in Users, NEW p \in Permissions, NEW v \in BOOLEAN, ChangeWrites(u, p, v)
      PROVE  TypeOK'
  BY <1>4 DEF ChangeWrites, Leave, Granted, Shown
<1>5. ASSUME NEW u \in Users, NEW p \in Permissions, AddAgain(u, p)
      PROVE  TypeOK'
  BY <1>5 DEF AddAgain, Granted, Invited
<1>6. ASSUME NEW keep \in SUBSET contributors, NEW permission \in [keep -> Permissions],
             NEW show \in SUBSET keep, Manage(keep, permission, show)
      PROVE  TypeOK'
  BY <1>6 DEF Manage
<1>7. ASSUME NEW u \in Users, RemoveChecks(u)
      PROVE  TypeOK'
  BY <1>7 DEF RemoveChecks, Enter, Requests
<1>8. ASSUME NEW u \in Users, RemoveWrites(u)
      PROVE  TypeOK'
  BY <1>8 DEF RemoveWrites, Leave, Hidden, Cleared, Disclaimed
<1>9. ASSUME NEW u \in Users, SiteAdminRemoves(u)
      PROVE  TypeOK'
  BY <1>9 DEF SiteAdminRemoves, Hidden, Cleared, Disclaimed
<1>10. ASSUME NEW u \in Users, AddRefused(u) \/ Register(u) \/ Disable(u) \/ Reactivate(u)
       PROVE  TypeOK'
  BY <1>10 DEF AddRefused, Invited, Register, Disclaimed, Disable, Reactivate
<1>11. ASSUME NEW u \in Users, GdprDelete(u)
       PROVE  TypeOK'
  BY <1>11 DEF GdprDelete, Hidden, Cleared, Disclaimed
<1>12. ASSUME NEW u \in Users, NEW m \in Users, Claim(u, m)
       PROVE  TypeOK'
  BY <1>12 DEF Claim
<1>13. ASSUME NEW u \in Users, NEW m \in Users, Merge(u, m)
       PROVE  TypeOK'
  <2>1. groups' \in [Permissions -> SUBSET Users]
    <3>1. CASE u \in contributors /\ m \in contributors
      <4>1. Granted(m, Best(u, m)) \in [Permissions -> SUBSET Users]
        BY DEF Granted
      <4> QED  BY <1>13, <3>1, <4>1 DEF Merge, Unmerged
    <3>2. CASE u \in contributors /\ m \notin contributors
      BY <1>13, <3>2 DEF Merge, Unmerged
    <3> QED  BY <1>13, <3>1, <3>2 DEF Merge
  <2>2. status' \in [Users -> Statuses]
    BY <1>13 DEF Merge
  <2> QED  BY <1>13, <2>1, <2>2 DEF Merge
<1>14. CASE UNCHANGED vars
  BY <1>14 DEF vars
<1> QED
  BY <1>1, <1>2, <1>3, <1>4, <1>5, <1>6, <1>7, <1>8, <1>9, <1>10, <1>11, <1>12, <1>13, <1>14
  DEF Next

\* Users, contributors, groups and requests are well formed in every state, and
\* only contributors are visible (add_contributor, set_visible,
\* remove_contributor, merge_user).
THEOREM TypeCorrect == Spec => []TypeOK
<1>1. Init => TypeOK
  BY CreatorAssumption DEF Init, TypeOK, Statuses
<1> QED
  BY <1>1, TypeStep, PTL DEF Spec

-----------------------------------------------------------------------------
\* Cardinalities of the sets that the checks count

LEMMA PermissionsFinite == \A S \in SUBSET Permissions : IsFiniteSet(S)
<1>1. IsFiniteSet({"read", "write", "admin"})
  <2>1. IsFiniteSet({"read"} \cup {"write"})
    BY FS_Singleton, FS_AddElement
  <2>2. IsFiniteSet(({"read"} \cup {"write"}) \cup {"admin"})
    BY <2>1, FS_AddElement
  <2>3. {"read", "write", "admin"} = ({"read"} \cup {"write"}) \cup {"admin"}
    OBVIOUS
  <2> QED
    BY <2>2, <2>3
<1> QED
  BY <1>1, FS_Subset, PermissionsAssumption

\* GroupsAgree counts the groups of a user: OnePermission says the same without
\* counting.
LEMMA CountedGroups ==
  ASSUME TypeOK
  PROVE  OnePermission <=>
           \A u \in Users : Cardinality({p \in Permissions : u \in groups[p]}) =
                            IF u \in contributors THEN 1 ELSE 0
<1> SUFFICES ASSUME NEW u \in Users
             PROVE  /\ (\E p \in Permissions : \A q \in Permissions : u \in groups[q] <=> q = p)
                         <=> Cardinality({p \in Permissions : u \in groups[p]}) = 1
                    /\ (\A p \in Permissions : u \notin groups[p])
                         <=> Cardinality({p \in Permissions : u \in groups[p]}) = 0
  BY DEF OnePermission
<1> DEFINE S == {p \in Permissions : u \in groups[p]}
<1>1. IsFiniteSet(S)
  BY PermissionsFinite
<1>2. Cardinality(S) = 1 <=> \E p : S = {p}
  BY <1>1, FS_Singleton
<1>3. Cardinality(S) = 0 <=> S = {}
  BY <1>1, FS_EmptySet
<1>4. (\E p : S = {p}) <=> \E p \in Permissions : \A q \in Permissions : u \in groups[q] <=> q = p
  OBVIOUS
<1> QED
  BY <1>2, <1>3, <1>4

\* set_permissions: when the check lets an admin step down, another registered
\* admin is left.
LEMMA AnotherAdmin ==
  ASSUME NEW u \in Users, NEW p \in Permissions, MaySet(u, p),
         u \in groups["admin"], p # "admin"
  PROVE  \E a \in groups["admin"] : a # u /\ Registered(a)
<1> DEFINE R == {a \in groups["admin"] : Registered(a)}
<1>1. Cardinality(R) > 1
  BY DEF MaySet
<1>2. SUFFICES ASSUME R \subseteq {u} PROVE FALSE
  OBVIOUS
<1>3. Cardinality(R) \in Nat /\ Cardinality(R) <= 1
  <2>1. IsFiniteSet({u}) /\ Cardinality({u}) = 1
    BY FS_Singleton
  <2>2. IsFiniteSet(R) /\ Cardinality(R) <= Cardinality({u})
    BY <1>2, <2>1, FS_Subset
  <2> QED
    BY <2>1, <2>2, FS_CardinalityType
<1> QED
  BY <1>1, <1>3

-----------------------------------------------------------------------------
\* What was checked stays true until others write

\* Whatever writes makes the checks of every request in flight stale.
LEMMA WritersMakeStale ==
  ASSUME TypeOK, [Next]_vars
  PROVE  \/ stale' = flight'
         \/ UNCHANGED vars
         \/ \E u \in Users, p \in Permissions, v \in BOOLEAN : ChangeChecks(u, p, v)
         \/ \E u \in Users : RemoveChecks(u)
         \/ \E u \in Users : AddRefused(u)
BY DEF Next, Written, Leave, AddContributor, AddAgain, CopyContributor, ChangeWrites,
       RemoveWrites, Manage, SiteAdminRemoves, Register, Claim, Merge, Disable, Reactivate,
       GdprDelete

LEMMA ChecksStep ==
  ASSUME TypeOK, ChecksHold, [Next]_vars
  PROVE  ChecksHold'
<1>1. CASE stale' = flight'
  BY <1>1 DEF ChecksHold
<1>2. ASSUME UNCHANGED <<status, contributors, visible, groups>>
      PROVE  /\ \A u \in Users, p \in Permissions, v \in BOOLEAN :
                  /\ MaySet(u, p)' <=> MaySet(u, p)
                  /\ MayShow(u, v)' <=> MayShow(u, v)
             /\ \A u \in Users : MayRemove(u)' <=> MayRemove(u)
  BY <1>2 DEF MaySet, MayShow, MayRemove, ActiveAdmins, Registered
<1>3. CASE UNCHANGED vars
  BY <1>2, <1>3 DEF ChecksHold, vars
<1>4. ASSUME NEW u \in Users, NEW p \in Permissions, NEW v \in BOOLEAN, ChangeChecks(u, p, v)
      PROVE  ChecksHold'
  BY <1>2, <1>4 DEF ChecksHold, ChangeChecks, Enter
<1>5. ASSUME NEW u \in Users, RemoveChecks(u)
      PROVE  ChecksHold'
  BY <1>2, <1>5 DEF ChecksHold, RemoveChecks, Enter
<1>6. ASSUME NEW u \in Users, AddRefused(u)
      PROVE  ChecksHold'
  BY <1>2, <1>6 DEF ChecksHold, AddRefused
<1> QED
  BY <1>1, <1>3, <1>4, <1>5, <1>6, WritersMakeStale

-----------------------------------------------------------------------------
\* The permission of a user

LEMMA PermissionOfOne ==
  ASSUME NEW u \in Users, NEW p \in Permissions,
         \A q \in Permissions : u \in groups[q] <=> q = p
  PROVE  PermissionOf(u) = p
<1>1. p \in Permissions /\ u \in groups[p] /\ \A q \in Permissions : u \in groups[q] => Rank[q] <= Rank[p]
  BY PermissionsAssumption DEF Rank
<1> QED
  BY <1>1 DEF PermissionOf

-----------------------------------------------------------------------------
\* merge_user: the account merged into has the higher of the two permissions,
\* the merged account has none, and nobody else is touched.
LEMMA MergeGroups ==
  ASSUME TypeOK, OnePermission, NEW u \in Users, NEW m \in Users, Merge(u, m),
         u \in contributors
  PROVE  \E p \in Permissions :
           /\ \A q \in Permissions : m \in groups'[q] <=> q = p
           /\ \A q \in Permissions : u \notin groups'[q]
           /\ \A w \in Users \ {u, m}, q \in Permissions : w \in groups'[q] <=> w \in groups[q]
           /\ \A q \in Permissions : u \in groups[q] \/ m \in groups[q] => Rank[q] <= Rank[p]
<1> USE DEF TypeOK
<1>1. PICK pu \in Permissions : \A q \in Permissions : u \in groups[q] <=> q = pu
  BY DEF OnePermission
<1>2. PermissionOf(u) = pu
  BY <1>1, PermissionOfOne
<1>3. \A q \in Permissions : Rank[q] \in 1..3
  <2>1. Rank["read"] = 1 /\ Rank["write"] = 2 /\ Rank["admin"] = 3
    BY DEF Rank
  <2> QED  BY <2>1, PermissionsAssumption
<1>4. u # m /\ groups' = Unmerged(u, m)
  BY DEF Merge
<1>5. CASE m \in contributors
  <2>1. PICK pm \in Permissions : \A q \in Permissions : m \in groups[q] <=> q = pm
    BY <1>5 DEF OnePermission
  <2>2. PermissionOf(m) = pm
    BY <2>1, PermissionOfOne
  <2> DEFINE best == Best(u, m)
  <2>3. best = IF Rank[pm] >= Rank[pu] THEN pm ELSE pu
    BY <1>2, <1>5, <2>2 DEF Best
  <2>4. best \in Permissions /\ Rank[pu] <= Rank[best] /\ Rank[pm] <= Rank[best]
    BY <1>3, <2>3
  <2>5. groups' = [Granted(m, best) EXCEPT ![pu] = @ \ {u}]
    BY <1>2, <1>4, <1>5 DEF Unmerged
  <2>6. \A q \in Permissions :
          groups'[q] = IF q = pu THEN Granted(m, best)[q] \ {u} ELSE Granted(m, best)[q]
    BY <2>5 DEF Granted
  <2>7. \A q \in Permissions :
          Granted(m, best)[q] = IF q = best THEN groups[q] \cup {m} ELSE groups[q] \ {m}
    BY DEF Granted
  <2> HIDE DEF best
  <2>8. /\ \A q \in Permissions : m \in groups'[q] <=> q = best
        /\ \A q \in Permissions : u \notin groups'[q]
        /\ \A w \in Users \ {u, m}, q \in Permissions : w \in groups'[q] <=> w \in groups[q]
    BY <1>1, <1>4, <2>4, <2>6, <2>7
  <2> QED
    BY <1>1, <2>1, <2>4, <2>8
<1>6. CASE m \notin contributors
  <2>1. groups' = [[groups EXCEPT ![pu] = @ \cup {m}] EXCEPT ![pu] = @ \ {u}]
    BY <1>2, <1>4, <1>6 DEF Unmerged
  <2>2. \A q \in Permissions :
          groups'[q] = IF q = pu THEN (groups[q] \cup {m}) \ {u} ELSE groups[q]
    BY <2>1
  <2>3. \A q \in Permissions : m \notin groups[q]
    BY <1>6 DEF OnePermission
  <2>4. \A q \in Permissions : m \in groups'[q] <=> q = pu
    BY <1>4, <2>2, <2>3
  <2>5. \A q \in Permissions : u \notin groups'[q]
    BY <1>1, <1>4, <2>2
  <2>6. \A w \in Users \ {u, m}, q \in Permissions : w \in groups'[q] <=> w \in groups[q]
    BY <2>2
  <2>7. \A q \in Permissions : u \in groups[q] \/ m \in groups[q] => Rank[q] <= Rank[pu]
    BY <1>1, <1>3, <2>3
  <2> QED
    BY <2>4, <2>5, <2>6, <2>7
<1> QED
  BY <1>5, <1>6

-----------------------------------------------------------------------------
\* One permission for each contributor, as long as no stale request has written

LEMMA RacesAreRemembered ==
  ASSUME [Next]_vars, excuse = "raced"
  PROVE  excuse' = "raced"
<1>1. ASSUME NEW u \in Users, NEW p \in Permissions, NEW v \in BOOLEAN,
             \/ AddContributor(u, p, v) \/ CopyContributor(u, p, v)
             \/ ChangeChecks(u, p, v) \/ ChangeWrites(u, p, v)
      PROVE  excuse' = "raced"
  BY <1>1 DEF AddContributor, CopyContributor, ChangeChecks, Enter, ChangeWrites, Leave
<1>2. ASSUME NEW u \in Users, NEW p \in Permissions, AddAgain(u, p)
      PROVE  excuse' = "raced"
  BY <1>2 DEF AddAgain
<1>3. ASSUME NEW keep \in SUBSET contributors, NEW permission \in [keep -> Permissions],
             NEW show \in SUBSET keep, Manage(keep, permission, show)
      PROVE  excuse' = "raced"
  BY <1>3 DEF Manage
<1>4. ASSUME NEW u \in Users,
             \/ RemoveChecks(u) \/ RemoveWrites(u) \/ SiteAdminRemoves(u)
             \/ AddRefused(u) \/ Register(u) \/ Disable(u) \/ Reactivate(u) \/ GdprDelete(u)
      PROVE  excuse' = "raced"
  BY <1>4 DEF RemoveChecks, Enter, RemoveWrites, Leave, SiteAdminRemoves, AddRefused, Register, Disable,
              Reactivate, GdprDelete
<1>5. ASSUME NEW u \in Users, NEW m \in Users, Claim(u, m) \/ Merge(u, m)
      PROVE  excuse' = "raced"
  BY <1>5 DEF Claim, Merge
<1> QED
  BY <1>1, <1>2, <1>3, <1>4, <1>5 DEF Next, vars

LEMMA AgreeStep ==
  ASSUME Inv, [Next]_vars, excuse' # "raced"
  PROVE  OnePermission' /\ MergedIsGone'
<1>1. excuse # "raced"
  BY RacesAreRemembered
<1> USE <1>1 DEF Inv, TypeOK, Statuses, OnePermission, MergedIsGone
<1>2. ASSUME NEW u \in Users, NEW p \in Permissions, NEW v \in BOOLEAN,
             AddContributor(u, p, v) \/ CopyContributor(u, p, v)
      PROVE  OnePermission' /\ MergedIsGone'
  <2>1. /\ u \notin contributors
        /\ status[u] # "merged"
        /\ contributors' = contributors \cup {u}
        /\ groups' = [groups EXCEPT ![p] = @ \cup {u}]
        /\ status' = status
    BY <1>2 DEF AddContributor, CopyContributor
  <2> QED  BY <2>1
<1>3. ASSUME NEW u \in Users, NEW p \in Permissions, NEW v \in BOOLEAN, ChangeWrites(u, p, v)
      PROVE  OnePermission' /\ MergedIsGone'
  <2>1. <<"change", u, p, v>> \in flight \ stale
    BY <1>3 DEF ChangeWrites, Leave
  <2>2. u \in contributors
    BY <2>1 DEF ChecksHold
  <2>3. /\ contributors' = contributors
        /\ groups' = Granted(u, p)
        /\ status' = status
    BY <1>3 DEF ChangeWrites, Leave
  <2> QED  BY <2>2, <2>3 DEF Granted
<1>4. ASSUME NEW u \in Users, NEW p \in Permissions, AddAgain(u, p)
      PROVE  OnePermission' /\ MergedIsGone'
  BY <1>4 DEF AddAgain, Granted
<1>5. ASSUME NEW keep \in SUBSET contributors, NEW permission \in [keep -> Permissions],
             NEW show \in SUBSET keep, Manage(keep, permission, show)
      PROVE  OnePermission' /\ MergedIsGone'
  <2>1. PICK refused \in SUBSET (contributors \ keep) :
          /\ contributors' = keep \cup refused
          /\ groups' = [p \in Permissions |->
               (groups[p] \ (keep \cup ((contributors \ keep) \ refused)))
                 \cup {u \in keep : permission[u] = p}]
    BY <1>5 DEF Manage
  <2>2. status' = status
    BY <1>5 DEF Manage
  <2>3. ASSUME NEW u \in keep
        PROVE  \A q \in Permissions : u \in groups'[q] <=> q = permission[u]
    BY <2>1
  <2>4. ASSUME NEW u \in refused
        PROVE  \A q \in Permissions : u \in groups'[q] <=> u \in groups[q]
    BY <2>1
  <2>5. ASSUME NEW u \in Users \ contributors'
        PROVE  \A q \in Permissions : u \notin groups'[q]
    BY <2>1
  <2>6. OnePermission'
    BY <2>1, <2>3, <2>4, <2>5
  <2> QED  BY <2>1, <2>2, <2>6
<1>6. ASSUME NEW u \in Users, RemoveWrites(u)
      PROVE  OnePermission' /\ MergedIsGone'
  <2>1. /\ contributors' = contributors \ {u}
        /\ u \in contributors => groups' = Cleared(u)
        /\ u \notin contributors => groups' = groups
        /\ status' = status
    BY <1>6 DEF RemoveWrites, Leave
  <2> QED  BY <2>1 DEF Cleared
<1>7. ASSUME NEW u \in Users, SiteAdminRemoves(u)
      PROVE  OnePermission' /\ MergedIsGone'
  BY <1>7 DEF SiteAdminRemoves, Cleared
<1>8. ASSUME NEW u \in Users, AddRefused(u) \/ Register(u) \/ Disable(u) \/ Reactivate(u)
      PROVE  OnePermission' /\ MergedIsGone'
  BY <1>8 DEF AddRefused, Register, Disable, Reactivate
<1>9. ASSUME NEW u \in Users, GdprDelete(u)
      PROVE  OnePermission' /\ MergedIsGone'
  <2>1. MergedIsGone'
    BY <1>9 DEF GdprDelete
  <2>2. OnePermission'
    BY <1>9 DEF GdprDelete, Cleared
  <2> QED  BY <2>1, <2>2
<1>10. ASSUME NEW u \in Users, NEW m \in Users, Claim(u, m)
       PROVE  OnePermission' /\ MergedIsGone'
  <2>1. /\ u \in contributors
        /\ m \notin contributors
        /\ status[m] # "merged"
        /\ contributors' = (contributors \ {u}) \cup {m}
        /\ groups' = [p \in Permissions |->
             IF u \in groups[p] THEN (groups[p] \ {u}) \cup {m} ELSE groups[p]]
        /\ status' = status
    BY <1>10 DEF Claim
  <2>2. PICK p \in Permissions : \A q \in Permissions : u \in groups[q] <=> q = p
    BY <2>1
  <2>3. \A q \in Permissions : m \in groups'[q] <=> q = p
    BY <2>1, <2>2
  <2>4. \A q \in Permissions : u \notin groups'[q]
    BY <2>1
  <2>5. \A w \in Users \ {u, m}, q \in Permissions : w \in groups'[q] <=> w \in groups[q]
    BY <2>1
  <2>6. OnePermission'
    BY <2>1, <2>3, <2>4, <2>5
  <2> QED  BY <2>1, <2>6
<1>11. ASSUME NEW u \in Users, NEW m \in Users, Merge(u, m)
       PROVE  OnePermission' /\ MergedIsGone'
  <2>1. m # u /\ status[m] # "merged" /\ status' = [status EXCEPT ![u] = "merged"]
    BY <1>11 DEF Merge
  <2>2. CASE u \notin contributors
    BY <1>11, <2>1, <2>2 DEF Merge
  <2>3. CASE u \in contributors
    <3>1. contributors' = (contributors \ {u}) \cup {m}
      BY <1>11, <2>3 DEF Merge
    <3>2. PICK p \in Permissions :
           /\ \A q \in Permissions : m \in groups'[q] <=> q = p
           /\ \A q \in Permissions : u \notin groups'[q]
           /\ \A w \in Users \ {u, m}, q \in Permissions : w \in groups'[q] <=> w \in groups[q]
      BY <1>11, <2>3, MergeGroups
    <3>3. OnePermission'
      BY <2>1, <3>1, <3>2
    <3>4. MergedIsGone'
      BY <2>1, <3>1
    <3> QED  BY <3>3, <3>4
  <2> QED  BY <2>2, <2>3
<1>12. CASE UNCHANGED vars
  BY <1>12 DEF vars
<1>13. ASSUME NEW u \in Users, NEW p \in Permissions, NEW v \in BOOLEAN,
              ChangeChecks(u, p, v)
       PROVE  OnePermission' /\ MergedIsGone'
  BY <1>13 DEF ChangeChecks, Enter
<1>14. ASSUME NEW u \in Users, RemoveChecks(u)
       PROVE  OnePermission' /\ MergedIsGone'
  BY <1>14 DEF RemoveChecks, Enter
<1> QED
  BY <1>2, <1>3, <1>4, <1>5, <1>6, <1>7, <1>8, <1>9, <1>10, <1>11, <1>12, <1>13, <1>14
  DEF Next

-----------------------------------------------------------------------------
\* Somebody visible, some registered admin

\* Excuses are kept: what holds now without one, held before without one.
LEMMA ExcusesAreRemembered ==
  ASSUME TypeOK, [Next]_vars, excuse' = "none"
  PROVE  excuse = "none"
<1>1. ASSUME NEW u \in Users, NEW p \in Permissions, NEW v \in BOOLEAN,
             \/ AddContributor(u, p, v) \/ CopyContributor(u, p, v)
             \/ ChangeChecks(u, p, v) \/ ChangeWrites(u, p, v)
      PROVE  excuse = "none"
  BY <1>1 DEF AddContributor, CopyContributor, ChangeChecks, Enter, ChangeWrites, Leave
<1>2. ASSUME NEW u \in Users, NEW p \in Permissions, AddAgain(u, p)
      PROVE  excuse = "none"
  BY <1>2 DEF AddAgain
<1>3. ASSUME NEW keep \in SUBSET contributors, NEW permission \in [keep -> Permissions],
             NEW show \in SUBSET keep, Manage(keep, permission, show)
      PROVE  excuse = "none"
  BY <1>3 DEF Manage
<1>4. ASSUME NEW u \in Users,
             \/ RemoveChecks(u) \/ RemoveWrites(u)
             \/ AddRefused(u) \/ Register(u) \/ Disable(u) \/ Reactivate(u) \/ GdprDelete(u)
      PROVE  excuse = "none"
  BY <1>4 DEF RemoveChecks, Enter, RemoveWrites, Leave, AddRefused, Register, Disable, Reactivate,
              GdprDelete
<1>5. ASSUME NEW u \in Users, SiteAdminRemoves(u)
      PROVE  excuse = "none"
  BY <1>5 DEF SiteAdminRemoves
<1>6. ASSUME NEW u \in Users, NEW m \in Users, Claim(u, m) \/ Merge(u, m)
      PROVE  excuse = "none"
  BY <1>6 DEF Claim, Merge
<1> QED
  BY <1>1, <1>2, <1>3, <1>4, <1>5, <1>6 DEF Next, vars

\* A request that writes without an excuse is one whose checks still hold.
LEMMA WritesAreFresh ==
  ASSUME NEW r, Leave(r), excuse' = "none", excuse = "none"
  PROVE  r \in flight \ stale
BY DEF Leave

LEMMA VisibleStep ==
  ASSUME Inv, [Next]_vars
  PROVE  SomeVisible'
<1> SUFFICES ASSUME excuse' = "none"
             PROVE  visible' # {}
  BY DEF SomeVisible
<1>0. excuse = "none" /\ visible # {}
  BY ExcusesAreRemembered DEF Inv, SomeVisible
<1> USE <1>0 DEF Inv, TypeOK
<1>1. ASSUME NEW u \in Users, NEW p \in Permissions, NEW v \in BOOLEAN,
             AddContributor(u, p, v) \/ CopyContributor(u, p, v)
      PROVE  visible' # {}
  BY <1>1 DEF AddContributor, CopyContributor, Shown
<1>2. ASSUME NEW u \in Users, NEW p \in Permissions, NEW v \in BOOLEAN, ChangeWrites(u, p, v)
      PROVE  visible' # {}
  <2>1. <<"change", u, p, v>> \in flight \ stale
    BY <1>2, WritesAreFresh DEF ChangeWrites
  <2>2. u \in contributors /\ MayShow(u, v)
    BY <2>1 DEF ChecksHold
  <2>3. visible' = Shown(u, v) \cap contributors
    BY <1>2 DEF ChangeWrites
  <2> QED  BY <2>2, <2>3 DEF MayShow, Shown
<1>3. ASSUME NEW keep \in SUBSET contributors, NEW permission \in [keep -> Permissions],
             NEW show \in SUBSET keep, Manage(keep, permission, show)
      PROVE  visible' # {}
  <2> DEFINE shown == visible \cup show
             hidden == (keep \ show) \cap visible
             left == shown \ hidden
             removed == contributors \ keep
  <2>1. left # {}
    BY <1>3 DEF Manage
  <2>2. PICK refused \in SUBSET removed :
          /\ IF left \cap keep # {} THEN refused = {}
             ELSE Cardinality(refused) = 1 /\ refused \subseteq left
          /\ contributors' = keep \cup refused
          /\ visible' = left \cap contributors'
    BY <1>3 DEF Manage
  <2>3. CASE left \cap keep # {}
    BY <2>2, <2>3
  <2>4. CASE left \cap keep = {}
    <3>1. refused # {}
      <4>1. Cardinality(refused) = 1
        BY <2>2, <2>4
      <4>2. refused = {} => Cardinality(refused) = 0
        BY FS_EmptySet
      <4> QED  BY <4>1, <4>2
    <3> QED  BY <2>2, <2>4, <3>1
  <2> QED  BY <2>3, <2>4
<1>4. ASSUME NEW u \in Users, RemoveWrites(u)
      PROVE  visible' # {}
  <2>1. <<"remove", u>> \in flight \ stale
    BY <1>4, WritesAreFresh DEF RemoveWrites
  <2>2. MayRemove(u)
    BY <2>1 DEF ChecksHold
  <2> QED  BY <1>4, <2>2 DEF RemoveWrites, Hidden, MayRemove
<1>5. ASSUME NEW u \in Users, SiteAdminRemoves(u)
      PROVE  FALSE
  BY <1>5 DEF SiteAdminRemoves
<1>6. ASSUME NEW u \in Users, GdprDelete(u)
      PROVE  visible' # {}
  BY <1>6 DEF GdprDelete, Hidden, MayRemove
<1>7. ASSUME NEW u \in Users, NEW m \in Users, Claim(u, m)
      PROVE  visible' # {}
  BY <1>7 DEF Claim
<1>8. ASSUME NEW u \in Users, NEW m \in Users, Merge(u, m)
      PROVE  visible' # {}
  BY <1>8 DEF Merge
<1>9. CASE UNCHANGED visible
  BY <1>9
<1> QED
  BY <1>1, <1>2, <1>3, <1>4, <1>5, <1>6, <1>7, <1>8, <1>9
  DEF Next, vars, ChangeChecks, RemoveChecks, Enter, AddAgain, AddRefused, Register, Disable,
      Reactivate

LEMMA AdminStep ==
  ASSUME Inv, [Next]_vars
  PROVE  RegisteredAdmin'
<1> SUFFICES ASSUME excuse' = "none"
             PROVE  \E a \in contributors' \cap groups'["admin"] : status'[a] # "unregistered"
  BY DEF RegisteredAdmin, Registered
<1>0. /\ excuse = "none"
      /\ OnePermission /\ MergedIsGone
      /\ \E a \in contributors \cap groups["admin"] : status[a] # "unregistered"
  BY ExcusesAreRemembered DEF Inv, RegisteredAdmin, Registered
<1> PICK a \in contributors \cap groups["admin"] : status[a] # "unregistered"
  BY <1>0
<1> USE <1>0, PermissionsAssumption DEF Inv, TypeOK
<1>1. ASSUME NEW u \in Users, NEW p \in Permissions, NEW v \in BOOLEAN,
             AddContributor(u, p, v) \/ CopyContributor(u, p, v)
      PROVE  \E b \in contributors' \cap groups'["admin"] : status'[b] # "unregistered"
  BY <1>1 DEF AddContributor, CopyContributor
<1>2. ASSUME NEW u \in Users, NEW p \in Permissions, MaySet(u, p), groups' = Granted(u, p),
             u \in contributors, UNCHANGED <<contributors, status>>
      PROVE  \E b \in contributors' \cap groups'["admin"] : status'[b] # "unregistered"
  <2>1. CASE a # u \/ p = "admin"
    BY <1>2, <2>1 DEF Granted
  <2>2. CASE a = u /\ p # "admin"
    <3>1. PICK b \in groups["admin"] : b # u /\ Registered(b)
      BY <1>2, <2>2, AnotherAdmin
    <3>2. b \in contributors
      BY <3>1 DEF OnePermission
    <3> QED  BY <1>2, <3>1, <3>2 DEF Granted, Registered
  <2> QED  BY <2>1, <2>2
<1>3. ASSUME NEW u \in Users, NEW p \in Permissions, NEW v \in BOOLEAN, ChangeWrites(u, p, v)
      PROVE  \E b \in contributors' \cap groups'["admin"] : status'[b] # "unregistered"
  <2>1. <<"change", u, p, v>> \in flight \ stale
    BY <1>3, WritesAreFresh DEF ChangeWrites
  <2>2. u \in contributors /\ MaySet(u, p)
    BY <2>1 DEF ChecksHold
  <2> QED  BY <1>2, <1>3, <2>2 DEF ChangeWrites, Leave
<1>4. ASSUME NEW u \in Users, NEW p \in Permissions, AddAgain(u, p)
      PROVE  \E b \in contributors' \cap groups'["admin"] : status'[b] # "unregistered"
  BY <1>2, <1>4 DEF AddAgain
<1>5. ASSUME NEW keep \in SUBSET contributors, NEW permission \in [keep -> Permissions],
             NEW show \in SUBSET keep, Manage(keep, permission, show)
      PROVE  \E b \in contributors' \cap groups'["admin"] : status'[b] # "unregistered"
  <2>1. PICK b \in keep : permission[b] = "admin" /\ status[b] = "active"
    BY <1>5 DEF Manage
  <2>2. status' = status /\ b \in contributors' /\ b \in groups'["admin"]
    BY <1>5, <2>1 DEF Manage
  <2> QED  BY <2>1, <2>2
<1>6. ASSUME NEW u \in Users, MayRemove(u),
             contributors' = contributors \ {u}, groups' = Cleared(u),
             \A w \in Users \ {u} : status'[w] = status[w]
      PROVE  \E b \in contributors' \cap groups'["admin"] : status'[b] # "unregistered"
  BY <1>6 DEF MayRemove, ActiveAdmins, Cleared
<1>7. ASSUME NEW u \in Users, RemoveWrites(u)
      PROVE  \E b \in contributors' \cap groups'["admin"] : status'[b] # "unregistered"
  <2>1. <<"remove", u>> \in flight \ stale
    BY <1>7, WritesAreFresh DEF RemoveWrites
  <2>2. u \in contributors /\ MayRemove(u)
    BY <2>1 DEF ChecksHold
  <2> QED  BY <1>6, <1>7, <2>2 DEF RemoveWrites, Leave
<1>8. ASSUME NEW u \in Users, SiteAdminRemoves(u)
      PROVE  FALSE
  BY <1>8 DEF SiteAdminRemoves
<1>9. ASSUME NEW u \in Users, AddRefused(u) \/ Register(u) \/ Disable(u) \/ Reactivate(u)
      PROVE  \E b \in contributors' \cap groups'["admin"] : status'[b] # "unregistered"
  BY <1>9 DEF AddRefused, Register, Disable, Reactivate
<1>10. ASSUME NEW u \in Users, GdprDelete(u)
       PROVE  \E b \in contributors' \cap groups'["admin"] : status'[b] # "unregistered"
  <2>1. CASE UNCHANGED <<contributors, groups>>
    BY <1>10, <2>1 DEF GdprDelete
  <2>2. CASE ~UNCHANGED <<contributors, groups>>
    BY <1>6, <1>10, <2>2 DEF GdprDelete
  <2> QED  BY <2>1, <2>2
<1>11. ASSUME NEW u \in Users, NEW m \in Users, Claim(u, m)
       PROVE  \E b \in contributors' \cap groups'["admin"] : status'[b] # "unregistered"
  <2>1. CASE a = u
    BY <1>11, <2>1 DEF Claim
  <2>2. CASE a # u
    BY <1>11, <2>2 DEF Claim
  <2> QED  BY <2>1, <2>2
<1>12. ASSUME NEW u \in Users, NEW m \in Users, Merge(u, m)
       PROVE  \E b \in contributors' \cap groups'["admin"] : status'[b] # "unregistered"
  <2>1. /\ u # m
        /\ status[m] = "active"
        /\ status' = [status EXCEPT ![u] = "merged"]
    BY <1>12 DEF Merge
  <2>2. CASE u \notin contributors
    BY <1>12, <2>1, <2>2 DEF Merge
  <2>3. CASE u \in contributors
    <3>1. contributors' = (contributors \ {u}) \cup {m}
      BY <1>12, <2>3 DEF Merge
    <3>2. PICK p \in Permissions :
           /\ \A q \in Permissions : m \in groups'[q] <=> q = p
           /\ \A q \in Permissions : u \notin groups'[q]
           /\ \A w \in Users \ {u, m}, q \in Permissions : w \in groups'[q] <=> w \in groups[q]
           /\ \A q \in Permissions : u \in groups[q] \/ m \in groups[q] => Rank[q] <= Rank[p]
      BY <1>12, <2>3, MergeGroups
    <3>3. CASE a \notin {u, m}
      BY <2>1, <3>1, <3>2, <3>3
    <3>4. CASE a \in {u, m}
      <4>1. Rank["admin"] <= Rank[p]
        BY <3>2, <3>4
      <4>2. p = "admin"
        <5>1. Rank["read"] = 1 /\ Rank["write"] = 2 /\ Rank["admin"] = 3
          BY DEF Rank
        <5> QED  BY <4>1, <5>1
      <4> QED  BY <2>1, <3>1, <3>2, <4>2
    <3> QED  BY <3>3, <3>4
  <2> QED  BY <2>2, <2>3
<1>13. ASSUME NEW u \in Users, NEW p \in Permissions, NEW v \in BOOLEAN, ChangeChecks(u, p, v)
       PROVE  \E b \in contributors' \cap groups'["admin"] : status'[b] # "unregistered"
  BY <1>13 DEF ChangeChecks, Enter
<1>14. ASSUME NEW u \in Users, RemoveChecks(u)
       PROVE  \E b \in contributors' \cap groups'["admin"] : status'[b] # "unregistered"
  BY <1>14 DEF RemoveChecks, Enter
<1>15. CASE UNCHANGED vars
  BY <1>15 DEF vars
<1> QED
  BY <1>1, <1>3, <1>4, <1>5, <1>7, <1>8, <1>9, <1>10, <1>11, <1>12, <1>13,
     <1>14, <1>15
  DEF Next

-----------------------------------------------------------------------------
LEMMA InvInit == Init => Inv
<1> SUFFICES ASSUME Init PROVE Inv
  OBVIOUS
<1> USE CreatorAssumption, PermissionsAssumption DEF Init
<1>1. TypeOK
  BY DEF TypeOK, Statuses
<1>2. ChecksHold
  BY DEF ChecksHold
<1>3. OnePermission /\ MergedIsGone
  BY DEF OnePermission, MergedIsGone
<1>4. SomeVisible /\ RegisteredAdmin
  BY DEF SomeVisible, RegisteredAdmin, Registered
<1> QED
  BY <1>1, <1>2, <1>3, <1>4 DEF Inv

LEMMA InvStep == Inv /\ [Next]_vars => Inv'
BY TypeStep, ChecksStep, AgreeStep, VisibleStep, AdminStep DEF Inv

LEMMA Invariance == Spec => []Inv
BY InvInit, InvStep, PTL DEF Spec

\* Whatever requests do, a contributor has exactly one permission, nobody else has
\* any, and a merged account contributes nothing, unless a request wrote after its
\* checks had gone stale (set_permissions, remove_contributor, merge_user).
THEOREM PermissionsAgree == Spec => []GroupsAgree
<1>1. Inv => GroupsAgree
  BY CountedGroups DEF Inv, TypeOK, MergedIsGone, GroupsAgree
<1> QED
  BY <1>1, Invariance, PTL

\* A project keeps a visible contributor, except where a site admin forces a
\* removal or two requests overlap (set_visible, remove_contributor, claims,
\* merges and deleted accounts).
THEOREM AlwaysVisible == Spec => []SomeVisible
BY Invariance, PTL DEF Inv

\* A project keeps an admin with an account, with the same exceptions
\* (_get_admin_contributors_query and the checks made with it).
THEOREM AlwaysAnAdmin == Spec => []RegisteredAdmin
BY Invariance, PTL DEF Inv

-----------------------------------------------------------------------------
\* Merging

LEMMA OnlyMergeMerges ==
  ASSUME TypeOK, [Next]_vars, NEW u \in contributors,
         status[u] # "merged", status'[u] = "merged"
  PROVE  \E m \in Users : Merge(u, m)
<1> USE DEF TypeOK
<1>1. ASSUME NEW w \in Users, AddRefused(w) \/ Register(w) \/ Disable(w) \/ Reactivate(w) \/ GdprDelete(w)
      PROVE  FALSE
  BY <1>1 DEF AddRefused, Register, Disable, Reactivate, GdprDelete
<1>2. ASSUME NEW w \in Users, NEW m \in Users, Merge(w, m)
      PROVE  w = u
  BY <1>2 DEF Merge
<1>3. status' # status
  OBVIOUS
<1>4. \A keep \in SUBSET contributors : \A permission \in [keep -> Permissions] :
        \A show \in SUBSET keep : ~ Manage(keep, permission, show)
  BY <1>3 DEF Manage
<1>5. \A w \in Users : ~ RemoveChecks(w) /\ ~ RemoveWrites(w) /\ ~ SiteAdminRemoves(w)
  BY <1>3 DEF RemoveChecks, RemoveWrites, Enter, Leave, SiteAdminRemoves
<1>6. \A w \in Users, p \in Permissions, v \in BOOLEAN :
        /\ ~ AddContributor(w, p, v) /\ ~ CopyContributor(w, p, v) /\ ~ AddAgain(w, p)
        /\ ~ ChangeChecks(w, p, v) /\ ~ ChangeWrites(w, p, v)
  BY <1>3 DEF AddContributor, CopyContributor, AddAgain, ChangeChecks, ChangeWrites, Enter, Leave
<1>7. \A w, m \in Users : ~ Claim(w, m)
  BY <1>3 DEF Claim
<1> QED
  BY <1>1, <1>2, <1>3, <1>4, <1>5, <1>6, <1>7 DEF Next, vars

\* Whoever is in a group has at least the permissions below.
LEMMA GroupGives ==
  ASSUME NEW p \in Permissions, NEW q \in Permissions, Rank[p] <= Rank[q]
  PROVE  \A w : w \in groups'[q] => w \in AtLeast(p)'
BY DEF AtLeast

\* A merge loses no permission and no citation of the two accounts or of anybody
\* else (OSFUser.merge_user).
THEOREM MergingIsSafe == Spec => MergeKeepsTheBest
<1> DEFINE Keeps(u) ==
      excuse # "raced" /\ status[u] # "merged" /\ status'[u] = "merged" =>
         /\ \A w \in contributors \ {u}, p \in Permissions :
              /\ w \in groups[p] => w \in AtLeast(p)'
              /\ w \in visible => w \in visible'
         /\ \E m \in contributors' :
              /\ \A p \in Permissions : u \in groups[p] => m \in AtLeast(p)'
              /\ u \in visible => m \in visible'
<1>1. ASSUME Inv, [Next]_vars, NEW u \in contributors,
             excuse # "raced", status[u] # "merged", status'[u] = "merged"
      PROVE  /\ \A w \in contributors \ {u}, p \in Permissions :
                  /\ w \in groups[p] => w \in AtLeast(p)'
                  /\ w \in visible => w \in visible'
             /\ \E m \in contributors' :
                  /\ \A p \in Permissions : u \in groups[p] => m \in AtLeast(p)'
                  /\ u \in visible => m \in visible'
  <2> USE DEF Inv, TypeOK
  <2>1. PICK m \in Users : Merge(u, m)
    BY <1>1, OnlyMergeMerges
  <2>2. OnePermission
    BY <1>1
  <2>3. PICK best \in Permissions :
          /\ \A q \in Permissions : m \in groups'[q] <=> q = best
          /\ \A q \in Permissions : u \notin groups'[q]
          /\ \A w \in Users \ {u, m}, q \in Permissions : w \in groups'[q] <=> w \in groups[q]
          /\ \A q \in Permissions : u \in groups[q] \/ m \in groups[q] => Rank[q] <= Rank[best]
    BY <1>1, <2>1, <2>2, MergeGroups
  <2>4. /\ contributors' = (contributors \ {u}) \cup {m}
        /\ visible' = (visible \ {u}) \cup (IF u \in visible THEN {m} ELSE {})
    BY <1>1, <2>1 DEF Merge
  <2>5. \A p \in Permissions : u \in groups[p] \/ m \in groups[p] => m \in AtLeast(p)'
    BY <2>3, GroupGives
  <2>6. \A p \in Permissions : Rank[p] <= Rank[p]
    <3>1. Rank["read"] = 1 /\ Rank["write"] = 2 /\ Rank["admin"] = 3
      BY DEF Rank
    <3> QED  BY <3>1, PermissionsAssumption
  <2>7. \A w \in Users \ {u, m}, p \in Permissions : w \in groups[p] => w \in AtLeast(p)'
    BY <2>3, <2>6, GroupGives
  <2> QED
    BY <1>1, <2>4, <2>5, <2>7
<1>2. Inv /\ [Next]_vars => \A u \in contributors : Keeps(u)
  BY <1>1
<1>3. Inv /\ [Next]_vars => [\A u \in contributors : Keeps(u)]_vars
  BY <1>2
<1> QED
  BY <1>3, Invariance, PTL DEF Spec, MergeKeepsTheBest

===============================================================================
