---------------------------- MODULE PreprintsProofs ----------------------------
(***************************************************************************)
(* Proofs of the safety properties of Preprints, for any provider, any     *)
(* number of versions and any number of review requests under way.         *)
(***************************************************************************)
EXTENDS Preprints, WellFoundedInduction, NaturalsInduction, TLAPS

\* The states that readers see; nobody sees a draft.
Public(state) == state \in PublicStates[workflow] \ {"initial"}

\* A row as the handlers save it: published while its state is public, dated
\* once it is withdrawn.  Only where nothing is moderated may an author publish
\* a version that was withdrawn, which keeps the date.
GoodRow(r) ==
  /\ r \in Rows
  /\ r.state # "withdrawn" => (r.published <=> Public(r.state))
  /\ r.state = "withdrawn" => r.withdrawn
  /\ workflow # "none" /\ r.withdrawn => r.state = "withdrawn"

\* A draft is as it was created, and no moderator has seen it.
RowsAreGood ==
  \A v \in Versions :
    /\ GoodRow(row[v])
    /\ row[v].state = "initial" => row[v] = Draft /\ v \notin rejected

\* What a review request has loaded was saved by a handler.
LoadedIsGood ==
  /\ loaded = [q \in Requests |-> loaded[q]]
  /\ \A q \in Requests : loaded[q] # None => workflow # "none" /\ GoodRow(loaded[q].row)

\* A withdrawn version remembers the state it goes back to, and is published
\* and flagged as in that state.
WithdrawnFromOK ==
  \A v \in Versions : row[v].state = "withdrawn" =>
    /\ before[v] \in {"pending", "accepted"}
    /\ row[v].published <=> Public(before[v])
    /\ v \in made \ overwritten /\ before[v] = "accepted" => v \notin rejected

\* Versions to come have no withdrawal requests; without moderation nothing is
\* rejected, or loaded by a review request.
NothingYet ==
  /\ made # {} => \A v \in Versions \ made : withdrawal[v] = None
  /\ workflow = "none" => rejected = {} /\ overwritten = {}

\* The inductive invariant.
Inv ==
  /\ TypeOK
  /\ RowsAreGood
  /\ LoadedIsGood
  /\ WithdrawnFromOK
  /\ NothingYet
  /\ DecisionsShow
  /\ OneDraft

-----------------------------------------------------------------------------
\* The newest version

LEMMA NewestOf ==
  ASSUME NEW S, S \subseteq Versions, S # {}
  PROVE  Newest(S) \in S /\ \A u \in S : u <= Newest(S)
<1>1. \E v \in S : \A u \in S : u <= v
  <2> DEFINE Left == {MaxVersions - v : v \in S}
  <2>1. \A v \in S : v \in Nat /\ MaxVersions - v \in Nat
    BY MaxVersionsAssumption DEF Versions
  <2>2. Left \subseteq Nat /\ Left # {}
    BY <2>1
  <2>3. PICK k \in Left : \A j \in Left : <<j, k>> \notin OpToRel(<, Nat)
    BY <2>2, NatLessThanWellFounded, WFMin
  <2>4. \A j \in Left : ~(j < k)
    BY <2>2, <2>3 DEF OpToRel
  <2>5. PICK v \in S : k = MaxVersions - v
    OBVIOUS
  <2>6. ASSUME NEW u \in S
        PROVE  u <= v
    <3>1. ~(MaxVersions - u < MaxVersions - v)
      BY <2>4, <2>5
    <3>2. u \in Nat /\ v \in Nat /\ MaxVersions \in Nat
      BY <2>1, MaxVersionsAssumption
    <3> QED  BY <3>1, <3>2
  <2> QED  BY <2>6
<1> QED
  BY <1>1 DEF Newest

LEMMA NewestIs ==
  ASSUME NEW S, S \subseteq Versions, NEW v \in S, \A u \in S : u <= v
  PROVE  Newest(S) = v
<1>1. Newest(S) \in S /\ \A u \in S : u <= Newest(S)
  BY NewestOf
<1>2. \A u \in S : u \in Nat
  BY DEF Versions
<1> QED
  BY <1>1, <1>2

-----------------------------------------------------------------------------
\* The review machine

LEMMA TriggersAre == Triggers = {"submit", "accept", "reject", "edit_comment", "withdraw"}
BY DEF Triggers, Sources

LEMMA SourcesAre ==
  /\ Sources["submit"] \subseteq {"initial", "pending", "rejected"}
  /\ Sources["accept"] = {"pending", "rejected"}
  /\ Sources["reject"] = {"pending", "accepted"}
  /\ Sources["edit_comment"] = {"pending", "accepted", "rejected"}
  /\ Sources["withdraw"] = {"pending", "accepted"}
BY DEF Sources

LEMMA DestinationsAre ==
  ASSUME NEW s
  PROVE  /\ Destination("submit", s) = "pending"
         /\ Destination("accept", s) = "accepted"
         /\ Destination("reject", s) = "rejected"
         /\ Destination("edit_comment", s) = s
         /\ Destination("withdraw", s) = "withdrawn"
BY DEF Destination

\* save_changes: where a moderated version goes, and that it is published
\* exactly if that is public.
LEMMA RanIsGood ==
  ASSUME workflow # "none", NEW r, GoodRow(r),
         NEW trigger \in Triggers \ {"withdraw"}, r.state \in Sources[trigger]
  PROVE  /\ GoodRow(Ran(trigger, r))
         /\ ~r.withdrawn /\ ~Ran(trigger, r).withdrawn
         /\ Ran(trigger, r).state = Destination(trigger, r.state)
         /\ Ran(trigger, r).state \in {"pending", "accepted", "rejected"}
<1> DEFINE d == Destination(trigger, r.state)
<1>1. d \in {"pending", "accepted", "rejected"} /\ r.state # "withdrawn"
  BY TriggersAre, SourcesAre, DestinationsAre
<1>2. r \in Rows /\ r.withdrawn = FALSE
  BY <1>1 DEF GoodRow, Rows
<1> DEFINE s == [r EXCEPT !.state = d, !.withdrawn = r.withdrawn \/ trigger = "withdraw"]
<1>3. s \in Rows /\ s.state = d /\ s.withdrawn = FALSE
  BY <1>1, <1>2 DEF Rows, States
<1>4. Ran(trigger, r) = Saved(s)
  BY DEF Ran
<1> HIDE DEF s, d
<1>5. CASE d \in PublicStates[workflow]
  <2>1. Saved(s) = [s EXCEPT !.published = TRUE, !.ever = TRUE]
    BY <1>3, <1>5 DEF Saved
  <2>2. Saved(s) \in Rows /\ Saved(s).state = d /\ Saved(s).published = TRUE /\ Saved(s).withdrawn = FALSE
    BY <1>3, <2>1 DEF Rows
  <2> QED  BY <1>1, <1>2, <1>4, <1>5, <2>2 DEF GoodRow, Public, d
<1>6. CASE d \notin PublicStates[workflow]
  <2>1. Saved(s) = [s EXCEPT !.published = FALSE]
    BY <1>3, <1>6 DEF Saved
  <2>2. Saved(s) \in Rows /\ Saved(s).state = d /\ Saved(s).published = FALSE /\ Saved(s).withdrawn = FALSE
    BY <1>3, <2>1 DEF Rows
  <2> QED  BY <1>1, <1>2, <1>4, <1>6, <2>2 DEF GoodRow, Public, d
<1> QED
  BY <1>5, <1>6

\* A withdrawn version stays published or hidden, so that it can go back.
LEMMA WithdrawnIsGood ==
  ASSUME NEW r, GoodRow(r), r.state \in Sources["withdraw"]
  PROVE  /\ GoodRow(Ran("withdraw", r))
         /\ Ran("withdraw", r).state = "withdrawn"
         /\ Ran("withdraw", r).withdrawn
         /\ Ran("withdraw", r).published <=> Public(r.state)
<1>1. r.state \in {"pending", "accepted"} /\ r \in Rows
  BY SourcesAre DEF GoodRow
<1> DEFINE s == [r EXCEPT !.state = "withdrawn", !.withdrawn = TRUE]
<1>2. s \in Rows /\ s.state = "withdrawn" /\ s.withdrawn = TRUE /\ s.published = r.published
  BY <1>1 DEF Rows, States
<1>3. Ran("withdraw", r) = s
  BY <1>2, DestinationsAre DEF Ran, Saved
<1> QED
  BY <1>1, <1>2, <1>3 DEF GoodRow

-----------------------------------------------------------------------------
LEMMA InvInit == Init => Inv
<1> SUFFICES ASSUME Init PROVE Inv
  OBVIOUS
<1> USE DEF Init
<1>1. Draft \in Rows
  BY DEF Draft, Rows, States
<1>2. 1 \in Versions /\ \A v \in {1} : v = 1
  BY MaxVersionsAssumption DEF Versions
<1>3. TypeOK
  BY <1>1, <1>2 DEF TypeOK
<1>4. GoodRow(Draft)
  BY <1>1 DEF GoodRow, Public, Draft
<1>5. RowsAreGood /\ LoadedIsGood /\ WithdrawnFromOK /\ NothingYet
  BY <1>4 DEF RowsAreGood, LoadedIsGood, WithdrawnFromOK, NothingYet, Draft
<1>6. DecisionsShow
  BY NoneAssumption, <1>2 DEF DecisionsShow, Draft
<1>7. OneDraft
  <2>1. Newest({1}) = 1
    BY <1>2, NewestIs
  <2> QED  BY <2>1 DEF OneDraft
<1> QED
  BY <1>3, <1>5, <1>6, <1>7 DEF Inv

-----------------------------------------------------------------------------
\* The facts about types that every step uses.
LEMMA Facts ==
  ASSUME Inv
  PROVE  /\ workflow \in AllWorkflows
         /\ made \subseteq Versions /\ rejected \subseteq made /\ overwritten \subseteq made
         /\ row \in [Versions -> Rows]
         /\ before \in [Versions -> States \cup {None}]
         /\ withdrawal \in [Versions -> {None, "pending", "accepted", "rejected"}]
         /\ \A v \in Versions : GoodRow(row[v])
         /\ Versions \subseteq Nat
BY WorkflowsAssumption DEF Inv, TypeOK, RowsAreGood, Versions

LEMMA CreateVersionStep ==
  ASSUME Inv, CreateVersion
  PROVE  Inv'
<1> DEFINE v == Newest(made) + 1
<1>1. /\ made' = made \cup {v}
      /\ row' = [row EXCEPT ![v] = Draft]
      /\ base' = IF LinkNewest(v) THEN v ELSE base
      /\ UNCHANGED <<workflow, rejected, before, withdrawal, loaded, overwritten>>
      /\ made # {} /\ Newest(made) < MaxVersions /\ ~Unfinished
  BY DEF CreateVersion
<1>2. Newest(made) \in made /\ \A u \in made : u <= Newest(made)
  BY <1>1, Facts, NewestOf
<1>3. v \in Versions /\ v \notin made /\ (\A u \in made : u <= v) /\ v \in Nat
  <2>1. /\ Newest(made) \in Nat /\ 1 <= Newest(made) /\ Newest(made) < MaxVersions
        /\ \A u \in made : u \in Nat
    BY <1>1, <1>2, Facts DEF Versions
  <2> QED  BY <1>2, <2>1, MaxVersionsAssumption DEF Versions
<1> HIDE DEF v
<1>4. Draft \in Rows /\ GoodRow(Draft)'
  BY <1>1 DEF Draft, Rows, States, GoodRow, Public
<1>5. TypeOK'
  BY <1>1, <1>3, <1>4 DEF Inv, TypeOK
<1>6. \A r : GoodRow(r)' <=> GoodRow(r)
  BY <1>1 DEF GoodRow, Public
<1>7. RowsAreGood' /\ LoadedIsGood'
  BY <1>1, <1>3, <1>4, <1>6, Facts DEF Inv, RowsAreGood, LoadedIsGood
<1>8. WithdrawnFromOK'
  BY <1>1, <1>3, Facts DEF Inv, WithdrawnFromOK, Draft, Public
<1>9. NothingYet'
  BY <1>1 DEF Inv, NothingYet
<1>10. DecisionsShow'
  BY <1>1, <1>3, Facts, NoneAssumption DEF Inv, DecisionsShow, NothingYet, Draft
<1>11. \A u \in made : row[u].state # "initial"
  <2> SUFFICES ASSUME NEW u \in made, row[u].state = "initial"
               PROVE  Unfinished
    BY <1>1
  <2>1. u = Newest(made) /\ u \notin rejected /\ row[u] = Draft
    BY Facts DEF Inv, OneDraft, RowsAreGood
  <2>2. Newest(made \ rejected) = u
    BY <1>2, <2>1, Facts, NewestIs
  <2> QED
    BY <2>1, <2>2 DEF Unfinished, Draft
<1>12. OneDraft'
  <2> SUFFICES ASSUME NEW u \in made', row'[u].state = "initial"
               PROVE  /\ u = Newest(made')
                      /\ workflow # "none" /\ base' = u => made' = {u}
    BY <1>1 DEF OneDraft
  <2>1. u = v
    BY <1>1, <1>11, Facts
  <2>2. Newest(made') = v
    BY <1>1, <1>3, Facts, NewestIs
  <2>3. workflow # "none" => base' \in made
    BY <1>1 DEF Inv, TypeOK, LinkNewest
  <2> QED
    BY <1>3, <2>1, <2>2, <2>3
<1> QED
  BY <1>5, <1>7, <1>8, <1>9, <1>10, <1>12 DEF Inv

LEMMA PublishStep ==
  ASSUME Inv, NEW v \in Versions, Publish(v)
  PROVE  Inv'
<1>1. /\ workflow = "none" /\ v \in made
      /\ row' = [row EXCEPT ![v].state = "accepted", ![v].published = TRUE, ![v].ever = TRUE]
      /\ UNCHANGED <<workflow, made, rejected, before, base, withdrawal, loaded, overwritten>>
  BY DEF Publish
<1> DEFINE r == [row[v] EXCEPT !.state = "accepted", !.published = TRUE, !.ever = TRUE]
<1>2. /\ row' = [row EXCEPT ![v] = r]
      /\ r \in Rows /\ r.state = "accepted" /\ r.published = TRUE /\ r.withdrawn = row[v].withdrawn
  BY <1>1, Facts DEF Rows, States
<1> HIDE DEF r
<1>3. \A s : GoodRow(s)' <=> GoodRow(s)
  BY <1>1 DEF GoodRow, Public
<1>4. GoodRow(r)
  <2>1. "accepted" \in PublicStates["none"]
    BY DEF PublicStates, AllWorkflows
  <2>2. Public("accepted")
    BY <1>1, <2>1 DEF Public
  <2>3. r.state # "withdrawn" /\ (r.published <=> Public(r.state))
    BY <1>2, <2>2
  <2>4. /\ r \in Rows
        /\ r.state = "withdrawn" => r.withdrawn
        /\ workflow # "none" /\ r.withdrawn => r.state = "withdrawn"
    BY <1>1, <1>2
  <2> QED  BY <2>3, <2>4 DEF GoodRow
<1>5. TypeOK'
  <2>1. row' \in [Versions -> Rows]
    BY <1>2, Facts
  <2> QED  BY <1>1, <2>1 DEF Inv, TypeOK
<1>6. RowsAreGood' /\ LoadedIsGood'
  BY <1>1, <1>2, <1>3, <1>4, Facts DEF Inv, RowsAreGood, LoadedIsGood
<1>7. WithdrawnFromOK'
  BY <1>1, <1>2, Facts DEF Inv, WithdrawnFromOK, Public
<1>8. NothingYet'
  BY <1>1 DEF Inv, NothingYet
<1>9. DecisionsShow'
  BY <1>1, <1>2, Facts DEF Inv, DecisionsShow, NothingYet
<1>10. OneDraft'
  BY <1>1, <1>2, Facts DEF Inv, OneDraft
<1> QED
  BY <1>5, <1>6, <1>7, <1>8, <1>9, <1>10 DEF Inv

LEMMA HardDeleteStep ==
  ASSUME Inv, NEW v \in Versions, HardDelete(v)
  PROVE  Inv'
<1>1. /\ v \in made /\ row[v].state = "initial"
      /\ \A q \in Requests : loaded[q] # None => loaded[q].version # v
      /\ base' = BaseWithout(v)
      /\ made' = IF base' = v THEN {} ELSE made \ {v}
      /\ rejected' = rejected \cap made'
      /\ row' = [row EXCEPT ![v] = Draft]
      /\ before' = [before EXCEPT ![v] = None]
      /\ withdrawal' = [withdrawal EXCEPT ![v] = None]
      /\ overwritten' = overwritten \ {v}
      /\ UNCHANGED <<workflow, loaded>>
  BY DEF HardDelete
<1> DEFINE earlier == {u \in made \ rejected : u < v}
<1>2. earlier # {} => Newest(earlier) \in earlier
  BY Facts, NewestOf
<1>3. /\ earlier = {} => base' = base
      /\ earlier # {} => base' = Newest(earlier)
      /\ \A u \in earlier : u \in made /\ u < v
  BY <1>1 DEF BaseWithout
<1> HIDE DEF earlier
<1>4. base' \in Versions /\ base' \in made
  BY <1>1, <1>2, <1>3, Facts DEF Inv, TypeOK
<1>5. base' = v => base = v
  <2>1. v \in Nat /\ ~(v < v)
    BY Facts
  <2> QED  BY <1>2, <1>3, <2>1
<1>6. base' = v /\ workflow # "none" => made = {v}
  BY <1>1, <1>5 DEF Inv, OneDraft
<1>7. Draft \in Rows /\ GoodRow(Draft)' /\ Draft.state = "initial"
  BY DEF Draft, Rows, States, GoodRow, Public
<1>8. \A r : GoodRow(r)' <=> GoodRow(r)
  BY <1>1 DEF GoodRow, Public
<1>9. \A u \in Versions \ {v} : row'[u] = row[u] /\ before'[u] = before[u] /\ withdrawal'[u] = withdrawal[u]
  BY <1>1, Facts
<1>10. overwritten' \subseteq made'
  BY <1>1, <1>6, Facts DEF Inv, NothingYet
<1>11. \A q \in Requests :
         loaded'[q] # None => loaded'[q].version \in made' /\ loaded'[q].row \in Rows
  BY <1>1, <1>6 DEF Inv, TypeOK, LoadedIsGood
<1>12. TypeOK'
  <2>1. row' \in [Versions -> Rows]
    BY <1>1, <1>7, Facts
  <2>2. /\ before' \in [Versions -> States \cup {None}]
        /\ withdrawal' \in [Versions -> {None, "pending", "accepted", "rejected"}]
    BY <1>1, Facts
  <2>3. made' \subseteq Versions /\ rejected' \subseteq made' /\ (made' # {} => base' \in made')
    BY <1>1, <1>4, Facts
  <2> QED
    BY <1>1, <1>4, <1>10, <1>11, <2>1, <2>2, <2>3 DEF Inv, TypeOK
<1>13. RowsAreGood' /\ LoadedIsGood'
  BY <1>1, <1>7, <1>8, <1>9, Facts DEF Inv, RowsAreGood, LoadedIsGood
<1>14. WithdrawnFromOK'
  BY <1>1, <1>7, <1>9, Facts DEF Inv, WithdrawnFromOK, Public
<1>15. NothingYet'
  BY <1>1, <1>9, Facts DEF Inv, NothingYet
<1>16. DecisionsShow'
  BY <1>1, <1>9, Facts DEF Inv, DecisionsShow
<1>17. OneDraft'
  <2> SUFFICES ASSUME NEW u \in made', row'[u].state = "initial" PROVE FALSE
    BY DEF OneDraft
  <2>1. u \in made \ {v} /\ u \in Versions
    BY <1>1, Facts
  <2>2. row[u].state = "initial"
    BY <1>9, <2>1
  <2> QED
    BY <1>1, <2>1, <2>2 DEF Inv, OneDraft
<1> QED
  BY <1>12, <1>13, <1>14, <1>15, <1>16, <1>17 DEF Inv

LEMMA LoadStep ==
  ASSUME Inv, NEW q \in Requests, NEW v \in Versions, Load(q, v)
  PROVE  Inv'
<1>1. /\ workflow # "none" /\ v \in made
      /\ loaded' = [loaded EXCEPT ![q] = [version |-> v, row |-> row[v]]]
      /\ UNCHANGED <<workflow, made, rejected, row, before, base, withdrawal, overwritten>>
  BY DEF Load
<1>2. \A p \in Requests :
        loaded'[p] = IF p = q THEN [version |-> v, row |-> row[v]] ELSE loaded[p]
  BY <1>1 DEF Inv, LoadedIsGood
<1>3. \A r : GoodRow(r)' <=> GoodRow(r)
  BY <1>1 DEF GoodRow, Public
<1>4. TypeOK'
  BY <1>1, <1>2, Facts DEF Inv, TypeOK
<1>5. LoadedIsGood'
  BY <1>1, <1>2, <1>3, Facts DEF Inv, LoadedIsGood
<1>6. RowsAreGood'
  BY <1>1, <1>3 DEF Inv, RowsAreGood
<1> QED
  BY <1>1, <1>4, <1>5, <1>6
  DEF Inv, WithdrawnFromOK, Public, NothingYet, DecisionsShow, OneDraft

LEMMA RefuseStep ==
  ASSUME Inv, NEW q \in Requests, Refuse(q)
  PROVE  Inv'
<1>1. /\ loaded' = [loaded EXCEPT ![q] = None]
      /\ UNCHANGED <<workflow, made, rejected, row, before, base, withdrawal, overwritten>>
  BY DEF Refuse
<1>2. \A p \in Requests : loaded'[p] = IF p = q THEN None ELSE loaded[p]
  BY <1>1 DEF Inv, LoadedIsGood
<1>3. \A r : GoodRow(r)' <=> GoodRow(r)
  BY <1>1 DEF GoodRow, Public
<1>4. TypeOK'
  BY <1>1, <1>2 DEF Inv, TypeOK
<1>5. LoadedIsGood'
  BY <1>1, <1>2, <1>3 DEF Inv, LoadedIsGood
<1>6. RowsAreGood'
  BY <1>1, <1>3 DEF Inv, RowsAreGood
<1> QED
  BY <1>1, <1>4, <1>5, <1>6
  DEF Inv, WithdrawnFromOK, Public, NothingYet, DecisionsShow, OneDraft

\* A withdrawal, in the transaction of its request
LEMMA WithdrawStep ==
  ASSUME Inv, NEW v \in Versions, Withdraw(v), v \in made \/ made = {},
         UNCHANGED <<workflow, made, rejected, base, loaded, overwritten>>
  PROVE  Inv'
<1> DEFINE r == Ran("withdraw", row[v])
<1>1. /\ row[v].state \in {"pending", "accepted"}
      /\ row' = [row EXCEPT ![v] = r]
      /\ before' = [before EXCEPT ![v] = row[v].state]
      /\ withdrawal' = [withdrawal EXCEPT ![v] = "accepted"]
  BY SourcesAre DEF Withdraw
<1>2. GoodRow(r) /\ r.state = "withdrawn" /\ r.withdrawn /\ (r.published <=> Public(row[v].state))
  BY Facts, WithdrawnIsGood DEF Withdraw
<1> HIDE DEF r
<1>3. \A s : GoodRow(s)' <=> GoodRow(s)
  BY DEF GoodRow, Public
<1>4. \A s : Public(s)' <=> Public(s)
  BY DEF Public
<1>5. \A u \in Versions :
        /\ row'[u] = IF u = v THEN r ELSE row[u]
        /\ before'[u] = IF u = v THEN row[v].state ELSE before[u]
        /\ withdrawal'[u] = IF u = v THEN "accepted" ELSE withdrawal[u]
  BY <1>1, Facts
<1>6. TypeOK'
  <2>1. row' \in [Versions -> Rows] /\ before' \in [Versions -> States \cup {None}]
    BY <1>1, <1>2, Facts DEF GoodRow, States
  <2> QED  BY <1>1, <2>1 DEF Inv, TypeOK
<1>7. RowsAreGood' /\ LoadedIsGood'
  BY <1>2, <1>3, <1>5, Facts DEF Inv, RowsAreGood, LoadedIsGood
<1>8. WithdrawnFromOK'
  BY <1>1, <1>2, <1>4, <1>5, Facts DEF Inv, WithdrawnFromOK, DecisionsShow
<1>9. NothingYet'
  BY <1>5 DEF Inv, NothingYet
<1>10. DecisionsShow'
  BY <1>2, <1>5, Facts DEF Inv, DecisionsShow
<1>11. OneDraft'
  BY <1>2, <1>5, Facts DEF Inv, OneDraft
<1> QED
  BY <1>6, <1>7, <1>8, <1>9, <1>10, <1>11 DEF Inv

LEMMA WithdrawalsStep ==
  ASSUME Inv, NEW v \in Versions,
         AskWithdrawal(v) \/ AcceptWithdrawal(v) \/ RejectWithdrawal(v)
  PROVE  Inv'
<1>1. CASE Withdraw(v) /\ (AskWithdrawal(v) \/ AcceptWithdrawal(v))
  <2>1. UNCHANGED <<workflow, made, rejected, base, loaded, overwritten>>
    BY <1>1 DEF AskWithdrawal, AcceptWithdrawal
  <2>2. v \in made \/ made = {}
    BY <1>1, NoneAssumption DEF AskWithdrawal, AcceptWithdrawal, Inv, NothingYet
  <2> QED  BY <1>1, <2>1, <2>2, WithdrawStep
<1>2. ASSUME NEW s \in {"pending", "rejected"}, v \in made \/ made = {},
             withdrawal' = [withdrawal EXCEPT ![v] = s],
             UNCHANGED <<workflow, made, rejected, row, before, base, loaded, overwritten>>
      PROVE  Inv'
  <2>1. \A u \in Versions : withdrawal'[u] = IF u = v THEN s ELSE withdrawal[u]
    BY <1>2, Facts
  <2>2. TypeOK'
    BY <1>2 DEF Inv, TypeOK
  <2>3. NothingYet'
    BY <1>2, <2>1 DEF Inv, NothingYet
  <2>4. DecisionsShow'
    BY <1>2, <2>1, Facts DEF Inv, DecisionsShow
  <2>5. RowsAreGood' /\ LoadedIsGood' /\ WithdrawnFromOK' /\ OneDraft'
    BY <1>2 DEF Inv, RowsAreGood, LoadedIsGood, WithdrawnFromOK, OneDraft, GoodRow, Public
  <2> QED
    BY <2>2, <2>3, <2>4, <2>5 DEF Inv
<1>3. CASE AskWithdrawal(v) /\ ~Withdraw(v)
  BY <1>2, <1>3 DEF AskWithdrawal
<1>4. CASE RejectWithdrawal(v)
  <2>1. v \in made \/ made = {}
    BY <1>4, NoneAssumption DEF RejectWithdrawal, Inv, NothingYet
  <2> QED  BY <1>2, <1>4, <2>1 DEF RejectWithdrawal
<1> QED
  BY <1>1, <1>3, <1>4 DEF AcceptWithdrawal

LEMMA UnwithdrawStep ==
  ASSUME Inv, NEW v \in Versions, Unwithdraw(v)
  PROVE  Inv'
<1> DEFINE r == [row[v] EXCEPT !.state = before[v], !.withdrawn = FALSE]
<1>1. /\ v \in made /\ row[v].state = "withdrawn"
      /\ row' = [row EXCEPT ![v] = r]
      /\ before' = [before EXCEPT ![v] = None]
      /\ withdrawal' = [withdrawal EXCEPT ![v] = Undone(withdrawal[v])]
      /\ UNCHANGED <<workflow, made, rejected, base, loaded, overwritten>>
  BY Facts DEF Unwithdraw, Restored, Rows
<1>2. /\ before[v] \in {"pending", "accepted"}
      /\ row[v].published <=> Public(before[v])
      /\ v \notin overwritten /\ before[v] = "accepted" => v \notin rejected
  BY <1>1 DEF Inv, WithdrawnFromOK
<1>3. r \in Rows /\ r.state = before[v] /\ r.withdrawn = FALSE /\ r.published = row[v].published
  BY <1>2, Facts DEF Rows, States
<1>4. GoodRow(r)
  BY <1>2, <1>3 DEF GoodRow
<1> HIDE DEF r
<1>5. \A s : GoodRow(s)' <=> GoodRow(s)
  BY <1>1 DEF GoodRow, Public
<1>6. Undone(withdrawal[v]) \in {None, "pending", "rejected"}
  BY Facts DEF Undone
<1>7. \A u \in Versions :
        /\ row'[u] = IF u = v THEN r ELSE row[u]
        /\ before'[u] = IF u = v THEN None ELSE before[u]
        /\ withdrawal'[u] = IF u = v THEN Undone(withdrawal[v]) ELSE withdrawal[u]
  BY <1>1, Facts
<1>8. TypeOK'
  <2>1. row' \in [Versions -> Rows] /\ before' \in [Versions -> States \cup {None}]
    BY <1>1, <1>3, Facts
  <2>2. withdrawal' \in [Versions -> {None, "pending", "accepted", "rejected"}]
    BY <1>1, <1>6, Facts
  <2> QED  BY <1>1, <2>1, <2>2 DEF Inv, TypeOK
<1>9. RowsAreGood' /\ LoadedIsGood'
  BY <1>1, <1>2, <1>3, <1>4, <1>5, <1>7, Facts DEF Inv, RowsAreGood, LoadedIsGood
<1>10. WithdrawnFromOK'
  BY <1>1, <1>2, <1>3, <1>7, Facts DEF Inv, WithdrawnFromOK, Public
<1>11. NothingYet'
  BY <1>1, <1>7 DEF Inv, NothingYet
<1>12. DecisionsShow'
  BY <1>1, <1>2, <1>3, <1>6, <1>7, Facts, NoneAssumption DEF Inv, DecisionsShow
<1>13. OneDraft'
  BY <1>1, <1>2, <1>3, <1>7, Facts DEF Inv, OneDraft
<1> QED
  BY <1>8, <1>9, <1>10, <1>11, <1>12, <1>13 DEF Inv

LEMMA CommitStep ==
  ASSUME Inv, NEW q \in Requests, NEW trigger \in Triggers, Commit(q, trigger)
  PROVE  Inv'
<1> DEFINE v == loaded[q].version
           r == loaded[q].row
           new == Ran(trigger, r)
<1>1. /\ loaded[q] # None
      /\ r.state \in Sources[trigger]
      /\ row' = [row EXCEPT ![v] = new]
      /\ rejected' = Flagged(trigger, v)
      /\ before' = IF trigger = "withdraw" THEN [before EXCEPT ![v] = r.state] ELSE before
      /\ base' = IF Links(trigger) THEN v ELSE base
      /\ overwritten' = IF r # row[v] THEN overwritten \cup {v} ELSE overwritten
      /\ loaded' = [loaded EXCEPT ![q] = None]
      /\ UNCHANGED <<workflow, made, withdrawal>>
  BY DEF Commit
<1>2. workflow # "none" /\ GoodRow(r)
  BY <1>1 DEF Inv, LoadedIsGood
<1>3. v \in made /\ v \in Versions
  BY <1>1 DEF Inv, TypeOK
<1>4. /\ GoodRow(new) /\ new \in Rows
      /\ new.state \in {"pending", "accepted", "rejected", "withdrawn"}
      /\ r.state \in States
      /\ trigger = "withdraw" => /\ new.state = "withdrawn" /\ new.withdrawn
                                 /\ new.published <=> Public(r.state)
                                 /\ r.state \in {"pending", "accepted"}
      /\ trigger # "withdraw" => /\ new.state = Destination(trigger, r.state) /\ ~r.withdrawn
                                 /\ new.state # "withdrawn"
  BY <1>1, <1>2, RanIsGood, WithdrawnIsGood, SourcesAre DEF GoodRow, Rows
<1>5. /\ \A u \in Versions \ {v} : u \in rejected' <=> u \in rejected
      /\ rejected' \subseteq made
      /\ trigger = "reject" => v \in rejected'
      /\ trigger = "accept" => v \notin rejected'
      /\ trigger \notin {"accept", "reject"} => rejected' = rejected
  BY <1>1, <1>3, Facts DEF Flagged
<1>6. ASSUME v \notin overwritten'
      PROVE  r = row[v] /\ v \notin overwritten
  BY <1>1, <1>6
<1>7. /\ \A u \in Versions \ {v} : u \in overwritten' <=> u \in overwritten
      /\ overwritten' \subseteq made
  BY <1>1, <1>3, Facts
<1>8. \A s : (GoodRow(s)' <=> GoodRow(s)) /\ (Public(s)' <=> Public(s))
  BY <1>1 DEF GoodRow, Public
<1>9. \A p \in Requests : loaded'[p] = IF p = q THEN None ELSE loaded[p]
  BY <1>1 DEF Inv, LoadedIsGood
<1>10. \A u \in Versions :
         /\ row'[u] = IF u = v THEN new ELSE row[u]
         /\ before'[u] = IF u = v /\ trigger = "withdraw" THEN r.state ELSE before[u]
  BY <1>1, Facts
<1>11. loaded' = [p \in Requests |-> loaded'[p]]
  BY <1>1 DEF Inv, LoadedIsGood
<1>12. base' \in {v, base}
  BY <1>1
<1>13. trigger \in {"submit", "accept", "reject", "edit_comment", "withdraw"}
  BY TriggersAre
<1>14. TypeOK'
  <2>1. row' \in [Versions -> Rows] /\ before' \in [Versions -> States \cup {None}]
    BY <1>1, <1>4, Facts
  <2>2. \A p \in Requests :
          loaded'[p] # None => loaded'[p].version \in made /\ loaded'[p].row \in Rows
    BY <1>9 DEF Inv, TypeOK
  <2>3. base' \in Versions /\ (made # {} => base' \in made)
    BY <1>3, <1>12 DEF Inv, TypeOK
  <2> HIDE DEF v, r, new
  <2> QED
    BY <1>1, <1>5, <1>7, <2>1, <2>2, <2>3 DEF Inv, TypeOK
<1> HIDE DEF v, r, new
<1>15. RowsAreGood'
  BY <1>4, <1>5, <1>8, <1>10 DEF Inv, RowsAreGood
<1>16. LoadedIsGood'
  BY <1>1, <1>8, <1>9, <1>11 DEF Inv, LoadedIsGood
<1>17. WithdrawnFromOK'
  <2> SUFFICES ASSUME NEW u \in Versions, row'[u].state = "withdrawn"
               PROVE  /\ before'[u] \in {"pending", "accepted"}
                      /\ row'[u].published <=> Public(before'[u])
                      /\ u \in made \ overwritten' /\ before'[u] = "accepted" => u \notin rejected'
    BY <1>1, <1>8 DEF WithdrawnFromOK
  <2>1. CASE u # v
    BY <2>1, <1>1, <1>5, <1>7, <1>10 DEF Inv, WithdrawnFromOK
  <2>2. CASE u = v
    <3>1. trigger = "withdraw" /\ rejected' = rejected
      BY <2>2, <1>4, <1>5, <1>10
    <3>2. ASSUME v \notin overwritten', r.state = "accepted" PROVE v \notin rejected
      BY <1>3, <1>6, <3>2 DEF Inv, DecisionsShow
    <3> QED  BY <2>2, <3>1, <3>2, <1>4, <1>10
  <2> QED  BY <2>1, <2>2
<1>18. NothingYet'
  BY <1>1, <1>2 DEF Inv, NothingYet
<1>19. DecisionsShow'
  <2> SUFFICES ASSUME NEW u \in made, u \notin overwritten'
               PROVE  /\ withdrawal[u] = "accepted" => row'[u].withdrawn
                      /\ row'[u].state = "rejected" => u \in rejected'
                      /\ row'[u].state = "accepted" => u \notin rejected'
    BY <1>1 DEF DecisionsShow
  <2>0. u \in Versions
    BY Facts
  <2>1. CASE u # v
    BY <2>0, <2>1, <1>5, <1>7, <1>10 DEF Inv, DecisionsShow
  <2>2. CASE u = v
    <3>1. r = row[v] /\ v \notin overwritten
      BY <2>2, <1>6
    <3>2. /\ withdrawal[v] = "accepted" => r.withdrawn
          /\ r.state = "rejected" => v \in rejected
          /\ r.state = "accepted" => v \notin rejected
      BY <1>3, <3>1 DEF Inv, DecisionsShow
    <3>3. CASE trigger = "withdraw"
      BY <2>2, <3>3, <1>3, <1>4, <1>10
    <3>4. CASE trigger # "withdraw"
      <4>1. withdrawal[v] # "accepted" /\ row'[v].state = Destination(trigger, r.state)
        BY <3>2, <3>4, <1>3, <1>4, <1>10
      <4> QED  BY <2>2, <3>2, <3>4, <4>1, <1>5, <1>13, DestinationsAre
    <3> QED  BY <3>3, <3>4
  <2> QED  BY <2>1, <2>2
<1>20. OneDraft'
  BY <1>1, <1>3, <1>4, <1>10, <1>12, Facts DEF Inv, OneDraft
<1> QED
  BY <1>14, <1>15, <1>16, <1>17, <1>18, <1>19, <1>20 DEF Inv

-----------------------------------------------------------------------------
LEMMA InvStep == Inv /\ [Next]_vars => Inv'
<1> SUFFICES ASSUME Inv, [Next]_vars PROVE Inv'
  OBVIOUS
<1>1. CASE CreateVersion
  BY <1>1, CreateVersionStep
<1>2. ASSUME NEW v \in Versions, Publish(v) PROVE Inv'
  BY <1>2, PublishStep
<1>3. ASSUME NEW v \in Versions, HardDelete(v) PROVE Inv'
  BY <1>3, HardDeleteStep
<1>4. ASSUME NEW v \in Versions, AskWithdrawal(v) \/ AcceptWithdrawal(v) \/ RejectWithdrawal(v)
      PROVE  Inv'
  BY <1>4, WithdrawalsStep
<1>5. ASSUME NEW v \in Versions, Unwithdraw(v) PROVE Inv'
  BY <1>5, UnwithdrawStep
<1>6. ASSUME NEW v \in Versions, NEW q \in Requests, Load(q, v) PROVE Inv'
  BY <1>6, LoadStep
<1>7. ASSUME NEW q \in Requests, Refuse(q) PROVE Inv'
  BY <1>7, RefuseStep
<1>8. ASSUME NEW q \in Requests, NEW trigger \in Triggers, Commit(q, trigger) PROVE Inv'
  BY <1>8, CommitStep
<1>9. CASE UNCHANGED vars
  BY <1>9 DEF vars, Inv, TypeOK, RowsAreGood, LoadedIsGood, WithdrawnFromOK, NothingYet,
              DecisionsShow, OneDraft, GoodRow, Public
<1> QED
  BY <1>1, <1>2, <1>3, <1>4, <1>5, <1>6, <1>7, <1>8, <1>9 DEF Next

LEMMA Invariance == Spec => []Inv
BY InvInit, InvStep, PTL DEF Spec

\* Preprint, its versions, their flags, requests and link are well formed in
\* every state that requests reach, and the link leads to a version that exists
\* as long as there is one (create_version, PreprintHardDeleteView.post).
THEOREM TypeCorrect == Spec => []TypeOK
<1>1. Inv => TypeOK
  BY DEF Inv
<1> QED
  BY <1>1, Invariance, PTL

\* A version is published exactly while readers are to see its state, whatever
\* moderators, authors and site admins do and however their requests overlap
\* (ReviewsMachine.save_changes, PreprintUnwithdrawView.post).
THEOREM PublicationFollowsTheState == Spec => []PublishedAgreesWithState
<1>1. Inv => PublishedAgreesWithState
  BY DEF Inv, RowsAreGood, TypeOK, GoodRow, Public, PublishedAgreesWithState
<1> QED
  BY <1>1, Invariance, PTL

\* The flags that later requests go by follow the last decision about a version
\* that no overlapping request saved over (run_accept, run_reject and
\* PreprintRequestMachine.save_changes).
THEOREM DecisionsAreShown == Spec => []DecisionsShow
<1>1. Inv => DecisionsShow
  BY DEF Inv
<1> QED
  BY <1>1, Invariance, PTL

\* Of all versions of a preprint at most one is a draft, the newest, and readers
\* of a moderated preprint are not led to it while there is another version
\* (check_unfinished_or_unpublished_version, create_version).
THEOREM OneDraftAtATime == Spec => []OneDraft
<1>1. Inv => OneDraft
  BY DEF Inv
<1> QED
  BY <1>1, Invariance, PTL

================================================================================
