-------------------------- MODULE OsfStorageProofs --------------------------
(***************************************************************************)
(* Proofs about OsfStorage, for any projects, preprints, folders, files    *)
(* and users: the folders always form trees below the roots, and what that *)
(* gives for checked out files, primary files and deleted projects.        *)
(***************************************************************************)
EXTENDS OsfStorage, TLAPS

\* The path above i by the parents par, as long as it is in S
Up(par, i, S) ==
  LET path[j \in Items] ==
        {j} \cup IF par[j] \in S THEN path[par[j]] ELSE {}
  IN path[i]

\* No folder is below itself: every set of items has one whose parent is not in it.
Grounded(par) == \A T \in SUBSET Items : T # {} => \E j \in T : par[j] \notin T

\* Roots stay, and hang nowhere.
Rooted ==
  \A t \in Targets : state[Root[t]] = "live" /\ parent[Root[t]] = None /\ target[Root[t]] = t

\* What was created belongs to a project or preprint.
Targeted == \A i \in Items : state[i] # "absent" => target[i] \in Targets

\* What is live hangs in a live folder of the same target, but for strays.
Hanging ==
  \A i \in Live \ Roots : parent[i] \in Live /\ (target[i] = target[parent[i]] \/ i \in strays)

StraysAreFiles == strays \subseteq Files

\* A primary file and its folder belong to the preprint.
PrimaryHangs ==
  \A p \in Preprints : primary[p] # None =>
    /\ state[primary[p]] = "live"
    /\ target[primary[p]] = p
    /\ target[parent[primary[p]]] = p

\* Nothing hangs in the root of a deleted project whose task has run.
Emptied ==
  \A p \in deleted \ spared :
    <<"delete", p>> \in tasks \/ \A i \in Live : parent[i] # Root[p]

\* The inductive invariant
Forest ==
  /\ Rooted
  /\ Targeted
  /\ Hanging
  /\ StraysAreFiles
  /\ Grounded(parent)

Inv ==
  /\ TypeOK
  /\ Forest
  /\ CheckedOutByContributors
  /\ PrimaryHangs
  /\ Emptied

-----------------------------------------------------------------------------
\* Paths

\* The recursion has a solution, whatever the parents.
LEMMA UpIs ==
  ASSUME NEW par, NEW S \in SUBSET Items
  PROVE  /\ \A i \in Items : Up(par, i, S) = {i} \cup IF par[i] \in S THEN Up(par, par[i], S) ELSE {}
<1> DEFINE path[j \in Items] == {j} \cup IF par[j] \in S THEN path[par[j]] ELSE {}
           Closed(T) == \A j \in T : par[j] \in S => par[j] \in T
           reach == [j \in Items |-> {k \in Items : \A T \in SUBSET Items : j \in T /\ Closed(T) => k \in T}]
<1>1. ASSUME NEW j \in Items
      PROVE  reach[j] = {j} \cup IF par[j] \in S THEN reach[par[j]] ELSE {}
  <2>1. ASSUME NEW k \in reach[j] PROVE k = j \/ (par[j] \in S /\ k \in reach[par[j]])
    <3>1. k \in Items /\ \A T \in SUBSET Items : j \in T /\ Closed(T) => k \in T
      BY <2>1
    <3>2. CASE par[j] \notin S
      <4>1. {j} \in SUBSET Items /\ Closed({j})
        BY <3>2
      <4> QED  BY <3>1, <4>1
    <3>3. CASE par[j] \in S /\ k # j
      <4>1. ASSUME NEW T \in SUBSET Items, par[j] \in T, Closed(T) PROVE k \in T
        <5>1. T \cup {j} \in SUBSET Items /\ j \in T \cup {j} /\ Closed(T \cup {j})
          BY <4>1
        <5>2. k \in T \cup {j}
          BY <3>1, <5>1
        <5> QED  BY <3>3, <5>2
      <4> HIDE DEF Closed
      <4> QED  BY <3>1, <3>3, <4>1
    <3> QED  BY <3>2, <3>3
  <2>2. ASSUME par[j] \in S, NEW k \in reach[par[j]] PROVE k \in reach[j]
    <3>1. par[j] \in Items /\ k \in Items
          /\ \A T \in SUBSET Items : par[j] \in T /\ Closed(T) => k \in T
      BY <2>2
    <3>2. ASSUME NEW T \in SUBSET Items, j \in T, Closed(T) PROVE k \in T
      BY <2>2, <3>1, <3>2
    <3> QED  BY <3>1, <3>2
  <2>3. j \in reach[j]
    OBVIOUS
  <2> HIDE DEF reach
  <2> QED  BY <2>1, <2>2, <2>3
<1>2. reach = [j \in Items |-> {j} \cup IF par[j] \in S THEN reach[par[j]] ELSE {}]
  <2>1. reach = [j \in Items |-> reach[j]]
    OBVIOUS
  <2> HIDE DEF reach
  <2> QED  BY <1>1, <2>1
<1>3. \E f : f = [j \in Items |-> {j} \cup IF par[j] \in S THEN f[par[j]] ELSE {}]
  BY <1>2
<1>4. path = [j \in Items |-> {j} \cup IF par[j] \in S THEN path[par[j]] ELSE {}]
  BY <1>3
<1>5. \A i : Up(par, i, S) = path[i]
  BY DEF Up
<1> HIDE DEF path
<1> QED
  BY <1>4, <1>5

\* What holds of an item when it holds of its parent holds of all.
LEMMA FromTheRoots ==
  ASSUME NEW par, Grounded(par), NEW T \in SUBSET Items,
         \A j \in Items : (par[j] \in Items => par[j] \in T) => j \in T
  PROVE  T = Items
<1> SUFFICES ASSUME T # Items PROVE FALSE
  OBVIOUS
<1> DEFINE R == Items \ T
<1>1. R \in SUBSET Items /\ R # {}
  OBVIOUS
<1>2. PICK j \in R : par[j] \notin R
  <2> HIDE DEF R
  <2> QED  BY <1>1 DEF Grounded
<1> QED
  BY <1>2

\* A longer path has the shorter one as a part.
LEMMA UpGrows ==
  ASSUME NEW par, Grounded(par), NEW S \in SUBSET Items, NEW R \in SUBSET Items, S \subseteq R,
         NEW i \in Items
  PROVE  Up(par, i, S) \subseteq Up(par, i, R)
<1> DEFINE T == {j \in Items : Up(par, j, S) \subseteq Up(par, j, R)}
<1>1. ASSUME NEW j \in Items, par[j] \in Items => par[j] \in T PROVE j \in T
  BY <1>1, UpIs
<1>2. T \in SUBSET Items
  OBVIOUS
<1>3. T = Items
  <2> HIDE DEF T
  <2> QED  BY <1>1, <1>2, FromTheRoots
<1> QED
  BY <1>3

\* The path above what is live is the same among all items.
LEMMA UpIsLive ==
  ASSUME NEW par, Grounded(par), NEW S \in SUBSET Items, NEW R \in SUBSET Items, S \subseteq R,
         \A j \in S : par[j] \in Items => par[j] \in S, NEW i \in S
  PROVE  Up(par, i, R) = Up(par, i, S) /\ Up(par, i, R) \subseteq S
<1> DEFINE T == {j \in Items : j \in S => Up(par, j, R) = Up(par, j, S) /\ Up(par, j, R) \subseteq S}
<1>1. ASSUME NEW j \in Items, par[j] \in Items => par[j] \in T PROVE j \in T
  BY <1>1, UpIs
<1>2. T \in SUBSET Items
  OBVIOUS
<1>3. T = Items
  <2> HIDE DEF T
  <2> QED  BY <1>1, <1>2, FromTheRoots
<1> QED
  BY <1>3

\* The path above an item does not change while the parents on it do not.
LEMMA UpStays ==
  ASSUME NEW par, NEW then, Grounded(par), NEW i \in Items,
         \A j \in Up(par, i, Items) : then[j] = par[j]
  PROVE  Up(then, i, Items) = Up(par, i, Items)
<1> DEFINE T == {j \in Items : Up(par, j, Items) \subseteq Up(par, i, Items) =>
                                 Up(then, j, Items) = Up(par, j, Items)}
<1>1. ASSUME NEW j \in Items, par[j] \in Items => par[j] \in T PROVE j \in T
  <2> SUFFICES ASSUME Up(par, j, Items) \subseteq Up(par, i, Items)
               PROVE  Up(then, j, Items) = Up(par, j, Items)
    OBVIOUS
  <2>1. /\ Up(par, j, Items) = {j} \cup IF par[j] \in Items THEN Up(par, par[j], Items) ELSE {}
        /\ Up(then, j, Items) = {j} \cup IF then[j] \in Items THEN Up(then, then[j], Items) ELSE {}
    BY UpIs
  <2>2. then[j] = par[j]
    BY <2>1
  <2> QED
    BY <1>1, <2>1, <2>2
<1>2. T \in SUBSET Items
  OBVIOUS
<1>3. T = Items
  <2> HIDE DEF T
  <2> QED  BY <1>1, <1>2, FromTheRoots
<1> QED
  BY <1>3

-----------------------------------------------------------------------------
\* Trees

LEMMA SetsAre ==
  /\ Roots \subseteq Items /\ Files \subseteq Items /\ Folders \subseteq Items
  /\ None \notin Items /\ None \notin Users /\ None \notin Targets
  /\ Live \subseteq Items /\ Absent \subseteq Items /\ Trashed \subseteq Items
  /\ Live \cap Absent = {} /\ Live \cap Trashed = {}
  /\ \A t \in Targets : Root[t] \in Roots
  /\ \A s, t \in Targets : Root[s] = Root[t] => s = t
  /\ \A i \in Items : IsFolder(i) <=> i \in Roots \cup Folders
BY ItemsAssumption, NoneAssumption, RootAssumption DEF Items, Roots, Live, Absent, Trashed, IsFolder

LEMMA RootsAre ==
  ASSUME Rooted
  PROVE  /\ Roots \subseteq Live
         /\ \A r \in Roots : parent[r] = None /\ \E t \in Targets : r = Root[t] /\ target[r] = t
BY SetsAre DEF Rooted, Roots, Live

\* What is below a live item: a live item is if it is that item or its folder is.
LEMMA TreeIs ==
  ASSUME Forest, NEW i \in Live
  PROVE  /\ i \in Tree(i) /\ Tree(i) \subseteq Live
         /\ \A j \in Live : j \in Tree(i) <=> j = i \/ (parent[j] \in Live /\ parent[j] \in Tree(i))
         /\ i \notin Roots => Tree(i) \cap Roots = {}
<1>1. Live \in SUBSET Items
  BY SetsAre
<1>2. \A j \in Items : Above(j, Live) = {j} \cup IF parent[j] \in Live THEN Above(parent[j], Live) ELSE {}
  <2>1. \A j : Above(j, Live) = Up(parent, j, Live)
    BY DEF Above, Up
  <2> QED  BY <1>1, <2>1, UpIs
<1>3. Tree(i) = {i} \cup {j \in Live : i \in Above(j, Live)}
  BY DEF Tree
<1>4. i \in Tree(i) /\ Tree(i) \subseteq Live
  BY <1>3
<1>5. \A j \in Live : j \in Tree(i) <=> j = i \/ (parent[j] \in Live /\ parent[j] \in Tree(i))
  BY <1>1, <1>2, <1>3
<1>6. i \notin Roots => Tree(i) \cap Roots = {}
  BY <1>5, RootsAre, SetsAre DEF Forest
<1> QED
  BY <1>4, <1>5, <1>6

\* Check outs are looked for in all of the tree.
LEMMA CheckedOutIsSeen ==
  ASSUME Forest, NEW i \in Live, ~IsCheckedOut(i), NEW j \in Tree(i)
  PROVE  checkout[j] = None
<1>1. Live \in SUBSET Items /\ Items \in SUBSET Items
  BY SetsAre
<1>2. j \in Live /\ j \in Items /\ Grounded(parent)
  BY TreeIs, SetsAre DEF Forest
<1>3. Up(parent, j, Live) \subseteq Up(parent, j, Items)
  BY <1>1, <1>2, UpGrows
<1>4. i \in Above(j, Items)
  <2>1. j \in Up(parent, j, Items)
    BY <1>1, <1>2, UpIs
  <2> QED  BY <1>3, <2>1 DEF Tree, Above, Up
<1> QED
  BY <1>2, <1>4 DEF IsCheckedOut

\* What is live is below a root.
LEMMA LiveIsRooted ==
  ASSUME TypeOK, Forest, NEW i \in Live
  PROVE  \E t \in Targets : i \in Tree(Root[t]) /\ (target[i] = t \/ i \in strays)
<1> DEFINE Good(j) == \E t \in Targets : j \in Tree(Root[t]) /\ (target[j] = t \/ j \in strays)
           T == {j \in Items : j \in Live => Good(j)}
<1>1. ASSUME NEW j \in Items, parent[j] \in Items => parent[j] \in T, j \in Live PROVE Good(j)
  <2>1. CASE j \in Roots
    <3>1. PICK t \in Targets : j = Root[t] /\ target[j] = t
      BY <2>1, RootsAre DEF Forest
    <3> QED  BY <1>1, <3>1, TreeIs
  <2>2. CASE j \notin Roots
    <3>1. parent[j] \in Live /\ (target[j] = target[parent[j]] \/ j \in strays)
      BY <1>1, <2>2 DEF Forest, Hanging
    <3>2. Good(parent[j])
      BY <1>1, <3>1, SetsAre
    <3>3. PICK t \in Targets : parent[j] \in Tree(Root[t]) /\ (target[parent[j]] = t \/ parent[j] \in strays)
      BY <3>2
    <3>4. parent[j] \notin strays
      <4>1. parent[j] \in Roots \cup Folders
        BY <1>1, <3>1, SetsAre DEF TypeOK
      <4> QED  BY <4>1, ItemsAssumption DEF Forest, StraysAreFiles
    <3>5. Root[t] \in Live
      BY RootsAre, SetsAre DEF Forest
    <3>6. j \in Tree(Root[t])
      BY <1>1, <3>1, <3>3, <3>5, TreeIs
    <3>7. target[j] = t \/ j \in strays
      BY <3>1, <3>3, <3>4
    <3> QED  BY <3>6, <3>7
  <2> QED  BY <2>1, <2>2
<1>2. T = Items
  <2>1. T \in SUBSET Items
    OBVIOUS
  <2>2. ASSUME NEW j \in Items, parent[j] \in Items => parent[j] \in T PROVE j \in T
    BY <1>1, <2>2
  <2>3. Grounded(parent)
    BY DEF Forest
  <2> HIDE DEF T
  <2> QED  BY <2>1, <2>2, <2>3, FromTheRoots
<1> QED
  BY <1>2, SetsAre

\* Items hung anew below what stays where it is do not close a cycle.
LEMMA StillGrounded ==
  ASSUME Forest, NEW then, NEW S \in SUBSET Live, NEW N \in SUBSET Items, N \cap S = {},
         \A j \in Items \ N : then[j] = parent[j],
         \A j \in S \ Roots : parent[j] \in S,
         \A T \in SUBSET Items : T \cap N # {} /\ (\A j \in T : then[j] \in T) => T \cap S # {}
  PROVE  Grounded(then)
<1> SUFFICES ASSUME NEW T \in SUBSET Items, T # {}, \A j \in T : then[j] \in T PROVE FALSE
  BY DEF Grounded
<1>1. CASE T \cap N = {}
  <2>1. PICK j \in T : parent[j] \notin T
    BY DEF Forest, Grounded
  <2> QED  BY <1>1, <2>1
<1>2. CASE T \cap N # {}
  <2> DEFINE U == T \cap S
  <2>1. U # {} /\ U \in SUBSET Items
    BY <1>2, SetsAre
  <2>2. PICK j \in U : parent[j] \notin U
    <3> HIDE DEF U
    <3> QED  BY <2>1 DEF Forest, Grounded
  <2>3. j \in Items /\ then[j] = parent[j] /\ then[j] \in T
    BY <2>2, SetsAre
  <2>4. j \notin Roots
    BY <2>3, RootsAre, SetsAre DEF Forest
  <2> QED
    BY <2>2, <2>3, <2>4
<1> QED
  BY <1>1, <1>2

\* What is hung below a live folder is in a tree again.
LEMMA HungIsGrounded ==
  ASSUME Forest, NEW S \in SUBSET Live, \A j \in S \ Roots : parent[j] \in S,
         NEW i \in Items \ S, NEW d \in S, parent' = [parent EXCEPT ![i] = d], TypeOK
  PROVE  Grounded(parent)'
<1> DEFINE N == {i}
<1>1. parent'[i] = d /\ \A j \in Items \ N : parent'[j] = parent[j]
  BY DEF TypeOK
<1>2. N \in SUBSET Items /\ N \cap S = {}
  OBVIOUS
<1>3. ASSUME NEW T \in SUBSET Items, T \cap N # {}, \A j \in T : parent'[j] \in T PROVE T \cap S # {}
  BY <1>1, <1>3
<1> HIDE DEF N
<1>4. Grounded(parent')
  BY <1>1, <1>2, <1>3, StillGrounded
<1> QED
  BY <1>4 DEF Grounded

\* The items that i does not take along.
LEMMA RestIs ==
  ASSUME Forest, NEW i \in Live
  PROVE  /\ Live \ Tree(i) \in SUBSET Live
         /\ \A j \in (Live \ Tree(i)) \ Roots : parent[j] \in Live \ Tree(i)
         /\ i \notin Roots => Roots \subseteq Live \ Tree(i)
BY TreeIs, RootsAre, SetsAre DEF Forest, Hanging

LEMMA CreateForest ==
  ASSUME TypeOK, Forest, NEW i \in Items, NEW d \in Items, CreateChild(i, d)
  PROVE  Forest'
<1>1. /\ i \in Absent /\ d \in Live /\ i \notin Live /\ i \notin Roots
      /\ state' = [state EXCEPT ![i] = "live"]
      /\ parent' = [parent EXCEPT ![i] = d]
      /\ target' = [target EXCEPT ![i] = target[d]]
      /\ strays' = strays
  BY SetsAre, RootsAre DEF CreateChild, Forest
<1>2. /\ \A j \in Items : j # i => /\ state'[j] = state[j] /\ parent'[j] = parent[j]
                                   /\ target'[j] = target[j]
      /\ state'[i] = "live" /\ parent'[i] = d /\ target'[i] = target[d]
  BY DEF TypeOK, CreateChild
<1>3. Live' = Live \cup {i}
  BY <1>2 DEF Live
<1>4. Rooted'
  <2>1. \A t \in Targets : Root[t] \in Items /\ Root[t] # i
    BY <1>1, SetsAre
  <2> QED  BY <1>2, <2>1 DEF Forest, Rooted
<1>5. Targeted'
  <2>1. target[d] \in Targets
    BY <1>1 DEF Forest, Targeted, Live
  <2> QED  BY <1>2, <2>1 DEF Forest, Targeted
<1>6. Hanging'
  <2> SUFFICES ASSUME NEW j \in Live' \ Roots
               PROVE  parent'[j] \in Live' /\ (target'[j] = target'[parent'[j]] \/ j \in strays')
    BY DEF Hanging
  <2>1. CASE j = i
    BY <1>1, <1>2, <1>3, <2>1
  <2>2. CASE j # i
    <3>1. j \in Live \ Roots /\ j \in Items
      BY <1>3, <2>2, SetsAre
    <3>2. parent[j] \in Live /\ (target[j] = target[parent[j]] \/ j \in strays)
      BY <3>1 DEF Forest, Hanging
    <3>3. parent[j] # i /\ parent[j] \in Items
      BY <1>1, <3>2, SetsAre
    <3> QED  BY <1>1, <1>2, <1>3, <2>2, <3>1, <3>2, <3>3
  <2> QED  BY <2>1, <2>2
<1>7. Grounded(parent)'
  <2>1. \A j \in Live \ Roots : parent[j] \in Live
    BY DEF Forest, Hanging
  <2> QED  BY <1>1, <2>1, HungIsGrounded
<1>8. StraysAreFiles'
  BY <1>1 DEF Forest, StraysAreFiles
<1> QED
  BY <1>4, <1>5, <1>6, <1>7, <1>8 DEF Forest

\* Moves: what is below an item comes along, and gets the new target.
LEMMA MovedIs ==
  ASSUME TypeOK, Forest, NEW i \in Live \ Roots, NEW d \in Live \ Tree(i), MoveUnder(i, d)
  PROVE  /\ state' = state /\ Live' = Live
         /\ parent'[i] = d /\ \A j \in Items : j # i => parent'[j] = parent[j]
         /\ \A j \in Tree(i) : target'[j] = target[d]
         /\ \A j \in Items \ Tree(i) : target'[j] = target[j]
         /\ d \in Items /\ target[d] \in Targets /\ i \in Tree(i) /\ Tree(i) \subseteq Items
         /\ \A j \in Tree(i) : j # i => parent[j] \in Tree(i)
         /\ \A j \in (Live \ Tree(i)) \ Roots : parent[j] \in Live \ Tree(i)
<1>1. Tree(i) \subseteq Items /\ i \in Tree(i) /\ d \in Items
  BY TreeIs, SetsAre
<1>2. state' = state /\ Live' = Live
  BY DEF MoveUnder, Live
<1>3. parent'[i] = d /\ \A j \in Items : j # i => parent'[j] = parent[j]
  BY <1>1 DEF MoveUnder, TypeOK
<1>4. /\ \A j \in Tree(i) : target'[j] = target[d]
      /\ \A j \in Items \ Tree(i) : target'[j] = target[j]
  BY <1>1 DEF MoveUnder, Updated
<1>5. target[d] \in Targets
  BY DEF Forest, Targeted, Live
<1>6. \A j \in Tree(i) : j # i => parent[j] \in Tree(i)
  BY TreeIs
<1> QED
  BY <1>1, <1>2, <1>3, <1>4, <1>5, <1>6, RestIs

LEMMA MoveForest ==
  ASSUME TypeOK, Forest, NEW i \in Live \ Roots, NEW d \in Live \ Tree(i), MoveUnder(i, d), strays' = strays
  PROVE  Forest'
<1>1. Roots \subseteq Live \ Tree(i)
  BY RestIs
<1>2. Rooted'
  <2>1. \A t \in Targets : Root[t] \in Items /\ Root[t] # i /\ Root[t] \notin Tree(i)
    BY <1>1, SetsAre
  <2> QED  BY <2>1, MovedIs DEF Forest, Rooted
<1>3. Targeted'
  BY MovedIs DEF Forest, Targeted
<1>4. Hanging'
  <2> SUFFICES ASSUME NEW j \in Live \ Roots
               PROVE  parent'[j] \in Live /\ (target'[j] = target'[parent'[j]] \/ j \in strays)
    BY MovedIs DEF Hanging
  <2>1. j \in Items /\ parent[j] \in Live /\ parent[j] \in Items
        /\ (target[j] = target[parent[j]] \/ j \in strays)
    BY SetsAre DEF Forest, Hanging
  <2>2. CASE j = i
    BY <2>2, MovedIs
  <2>3. CASE j \in Tree(i) /\ j # i
    BY <2>1, <2>3, MovedIs
  <2>4. CASE j \notin Tree(i)
    <3>1. parent[j] \in Live \ Tree(i) /\ j # i
      BY <2>4, MovedIs
    <3> QED  BY <2>1, <2>4, <3>1, MovedIs
  <2> QED  BY <2>2, <2>3, <2>4
<1>5. Grounded(parent)'
  <2>1. parent' = [parent EXCEPT ![i] = d]
    BY DEF MoveUnder
  <2>2. i \in Items \ (Live \ Tree(i))
    BY TreeIs, SetsAre
  <2> QED  BY <2>1, <2>2, RestIs, HungIsGrounded
<1>6. StraysAreFiles'
  BY DEF Forest, StraysAreFiles
<1> QED
  BY <1>2, <1>3, <1>4, <1>5, <1>6 DEF Forest

\* Copies: every item of the tree has one, which hangs in the copy of its folder.
LEMMA CopiedIs ==
  ASSUME TypeOK, Forest, NEW i \in Live, NEW d \in Live \ Tree(i), IsFolder(d),
         NEW copy \in [Tree(i) -> Absent], Copied(i, d, copy)
  PROVE  LET new == {copy[j] : j \in Tree(i)} IN
         /\ new \subseteq Absent /\ copy[i] \in new
         /\ \A j \in Tree(i) : j # i => parent[j] \in Tree(i)
         /\ \A j \in Tree(i) : /\ copy[j] \in new
                               /\ state'[copy[j]] = "live" /\ target'[copy[j]] = target[d]
                               /\ parent'[copy[j]] = IF j = i THEN d ELSE copy[parent[j]]
         /\ \A n \in Items \ new : /\ state'[n] = state[n] /\ target'[n] = target[n]
                                   /\ parent'[n] = parent[n]
         /\ Live' = Live \cup new
         /\ parent' \in [Items -> Roots \cup Folders \cup {None}]
         /\ state' \in [Items -> {"absent", "live", "trashed"}]
         /\ target' \in [Items -> Targets \cup {None}]
         /\ Roots \subseteq isRoot' /\ isRoot' \subseteq Roots \cup Folders
<1> DEFINE new == {copy[j] : j \in Tree(i)}
           source == [n \in new |-> CHOOSE j \in Tree(i) : copy[j] = n]
<1>0. DOMAIN copy = Tree(i)
  OBVIOUS
<1>1. /\ \A j, k \in Tree(i) : copy[j] = copy[k] => j = k
      /\ \A j \in Tree(i) : IsFolder(j) <=> IsFolder(copy[j])
      /\ isRoot' = isRoot \cup {copy[j] : j \in Tree(i) \cap isRoot}
      /\ state' = [n \in Items |-> IF n \in new THEN "live" ELSE state[n]]
      /\ parent' = [n \in Items |->
           IF n \notin new THEN parent[n]
           ELSE IF source[n] = i THEN d ELSE copy[parent[source[n]]]]
      /\ target' = [n \in Items |-> IF n \in new THEN target[d] ELSE target[n]]
  BY <1>0 DEF Copied
<1>2. /\ i \in Tree(i) /\ Tree(i) \subseteq Live
      /\ \A j \in Tree(i) : j # i => parent[j] \in Tree(i)
  BY TreeIs
<1>3. new \subseteq Absent /\ copy[i] \in new /\ \A j \in Tree(i) : copy[j] \in new
  BY <1>2
<1>4. ASSUME NEW j \in Tree(i) PROVE source[copy[j]] = j
  <2>1. source[copy[j]] = CHOOSE k \in Tree(i) : copy[k] = copy[j]
    BY <1>3
  <2>2. (CHOOSE k \in Tree(i) : copy[k] = copy[j]) \in Tree(i)
        /\ copy[CHOOSE k \in Tree(i) : copy[k] = copy[j]] = copy[j]
    OBVIOUS
  <2> QED  BY <1>1, <2>1, <2>2
<1>5. \A n \in new : \E j \in Tree(i) : n = copy[j]
  OBVIOUS
<1>6. new \subseteq Items
  BY <1>3, SetsAre
<1> HIDE DEF new, source
<1>7. ASSUME NEW j \in Tree(i)
      PROVE  /\ state'[copy[j]] = "live" /\ target'[copy[j]] = target[d]
             /\ parent'[copy[j]] = IF j = i THEN d ELSE copy[parent[j]]
  <2>1. copy[j] \in new /\ copy[j] \in Items
    BY <1>3, <1>6
  <2>2. source[copy[j]] = j
    BY <1>4
  <2> QED  BY <1>1, <2>1, <2>2
<1>8. \A n \in Items \ new : state'[n] = state[n] /\ target'[n] = target[n] /\ parent'[n] = parent[n]
  BY <1>1
<1>9. Live' = Live \cup new
  <2>1. \A n \in Items : n \in new => state'[n] = "live"
    BY <1>1
  <2> QED  BY <1>6, <1>8, <2>1 DEF Live
<1>10. ASSUME NEW n \in Items PROVE parent'[n] \in Roots \cup Folders \cup {None}
  <2>1. CASE n \notin new
    BY <1>8, <2>1 DEF TypeOK
  <2>2. CASE n \in new
    <3>1. PICK j \in Tree(i) : n = copy[j]
      BY <1>5, <2>2
    <3>2. CASE j = i
      <4>1. d \in Items /\ parent'[n] = d
        BY <1>7, <3>1, <3>2, SetsAre
      <4> QED  BY <4>1, SetsAre
    <3>3. CASE j # i
      <4>1. parent[j] \in Tree(i) /\ parent[j] \in Items /\ j \in Items
        BY <1>2, <3>3, SetsAre
      <4>2. parent[j] \in Roots \cup Folders
        BY <4>1, SetsAre DEF TypeOK
      <4>3. IsFolder(copy[parent[j]]) /\ copy[parent[j]] \in Items
        BY <1>1, <1>3, <1>6, <4>1, <4>2, SetsAre
      <4> QED  BY <1>7, <3>1, <3>3, <4>3, SetsAre
    <3> QED  BY <3>2, <3>3
  <2> QED  BY <2>1, <2>2
<1>11. /\ parent' \in [Items -> Roots \cup Folders \cup {None}]
       /\ state' \in [Items -> {"absent", "live", "trashed"}]
       /\ target' \in [Items -> Targets \cup {None}]
  <2>1. target[d] \in Targets \cup {None}
    BY SetsAre DEF TypeOK
  <2>2. parent' = [n \in Items |-> parent'[n]]
    BY <1>1
  <2> QED  BY <1>1, <1>10, <2>1, <2>2 DEF TypeOK
<1>12. Roots \subseteq isRoot' /\ isRoot' \subseteq Roots \cup Folders
  <2>1. Roots \subseteq isRoot /\ isRoot \subseteq Roots \cup Folders
    BY DEF TypeOK
  <2>2. ASSUME NEW j \in Tree(i) \cap isRoot PROVE copy[j] \in Roots \cup Folders
    <3>1. IsFolder(j) /\ j \in Items
      BY <1>2, <2>1, <2>2, SetsAre
    <3> QED  BY <1>1, <1>3, <1>6, <2>2, <3>1, SetsAre
  <2> QED  BY <1>1, <2>1, <2>2
<1> QED
  BY <1>2, <1>3, <1>7, <1>8, <1>9, <1>11, <1>12 DEF new

LEMMA CopyForest ==
  ASSUME TypeOK, Forest, NEW i \in Live, NEW d \in Live \ Tree(i), IsFolder(d),
         NEW copy \in [Tree(i) -> Absent], Copied(i, d, copy), strays' = strays
  PROVE  Forest'
<1> DEFINE new == {copy[j] : j \in Tree(i)}
<1>1. /\ new \subseteq Absent /\ copy[i] \in new
      /\ \A j \in Tree(i) : j # i => parent[j] \in Tree(i)
      /\ \A j \in Tree(i) : /\ copy[j] \in new
                            /\ state'[copy[j]] = "live" /\ target'[copy[j]] = target[d]
                            /\ parent'[copy[j]] = IF j = i THEN d ELSE copy[parent[j]]
      /\ \A n \in Items \ new : /\ state'[n] = state[n] /\ target'[n] = target[n]
                                /\ parent'[n] = parent[n]
      /\ Live' = Live \cup new
  BY CopiedIs
<1>2. \A n \in new : \E j \in Tree(i) : n = copy[j]
  OBVIOUS
<1> HIDE DEF new
<1>3. new \subseteq Items /\ new \cap Live = {} /\ d \in Items /\ target[d] \in Targets /\ d \notin new
  BY <1>1, SetsAre DEF Forest, Targeted, Live
<1>4. Rooted'
  <2>1. \A t \in Targets : Root[t] \in Items \ new
    BY <1>3, RootsAre, SetsAre DEF Forest
  <2> QED  BY <1>1, <2>1 DEF Forest, Rooted
<1>5. Targeted'
  BY <1>1, <1>2, <1>3 DEF Forest, Targeted
<1>6. Hanging'
  <2> SUFFICES ASSUME NEW n \in Live' \ Roots
               PROVE  parent'[n] \in Live' /\ (target'[n] = target'[parent'[n]] \/ n \in strays')
    BY DEF Hanging
  <2>1. CASE n \in new
    <3>1. PICK j \in Tree(i) : n = copy[j]
      BY <1>2, <2>1
    <3>2. CASE j = i
      BY <1>1, <1>3, <3>1, <3>2
    <3>3. CASE j # i
      BY <1>1, <1>3, <3>1, <3>3
    <3> QED  BY <3>2, <3>3
  <2>2. CASE n \notin new
    <3>1. n \in Live \ Roots /\ n \in Items
      BY <1>1, <2>2, SetsAre
    <3>2. /\ parent[n] \in Live /\ (target[n] = target[parent[n]] \/ n \in strays)
          /\ parent[n] \in Items \ new
      BY <1>3, <3>1, SetsAre DEF Forest, Hanging
    <3> QED  BY <1>1, <2>2, <3>1, <3>2
  <2> QED  BY <2>1, <2>2
<1>7. Grounded(parent)'
  <2>1. \A j \in Live \ Roots : parent[j] \in Live
    BY DEF Forest, Hanging
  <2>2. ASSUME NEW T \in SUBSET Items, T \cap new # {}, \A n \in T : parent'[n] \in T
        PROVE  T \cap Live # {}
    <3> DEFINE V == {j \in Tree(i) : copy[j] \in T}
    <3>1. V # {} /\ V \in SUBSET Items
      BY <1>2, <2>2, TreeIs, SetsAre
    <3>2. PICK j \in V : parent[j] \notin V
      <4> HIDE DEF V
      <4> QED  BY <3>1 DEF Forest, Grounded
    <3>3. CASE j = i
      BY <1>1, <2>2, <3>2, <3>3
    <3>4. CASE j # i
      BY <1>1, <2>2, <3>2, <3>4
    <3> QED  BY <3>3, <3>4
  <2>3. Live \in SUBSET Live /\ new \in SUBSET Items
    BY <1>3
  <2>4. Grounded(parent')
    BY <1>1, <1>3, <2>1, <2>2, <2>3, StillGrounded
  <2> QED  BY <2>4 DEF Grounded
<1>8. StraysAreFiles'
  BY DEF Forest, StraysAreFiles
<1> QED
  BY <1>4, <1>5, <1>6, <1>7, <1>8 DEF Forest

\* Folders have the target of the folder they are below.
LEMMA TreeHasOneTarget ==
  ASSUME TypeOK, Forest, NEW i \in Live, NEW j \in Tree(i) \ Files
  PROVE  target[j] = target[i]
<1> DEFINE T == {k \in Items : k \in Tree(i) \ Files => target[k] = target[i]}
<1>1. ASSUME NEW k \in Items, parent[k] \in Items => parent[k] \in T PROVE k \in T
  <2> SUFFICES ASSUME k \in Tree(i) \ Files, k # i PROVE target[k] = target[i]
    OBVIOUS
  <2>1. k \in Live /\ parent[k] \in Tree(i) /\ parent[k] \in Live
    BY TreeIs
  <2>2. k \notin Roots
    BY <2>1, RootsAre, SetsAre DEF Forest
  <2>3. target[k] = target[parent[k]]
    BY <2>1, <2>2 DEF Forest, Hanging, StraysAreFiles
  <2>4. parent[k] \in Items /\ parent[k] \notin Files
    BY <2>1, SetsAre, ItemsAssumption DEF TypeOK
  <2> QED  BY <1>1, <2>1, <2>3, <2>4
<1>2. T \in SUBSET Items /\ Grounded(parent)
  BY DEF Forest
<1>3. T = Items
  <2> HIDE DEF T
  <2> QED  BY <1>1, <1>2, FromTheRoots
<1> QED
  BY <1>3, TreeIs, SetsAre

\* Where a target has one root, nothing else below it is marked as one.
LEMMA MarkedIs ==
  ASSUME TypeOK, Forest, NEW i \in Live, OneRoot(target[i])
  PROVE  Tree(i) \ isRoot = Tree(i) \ Roots
<1>1. Roots \subseteq isRoot
  BY DEF TypeOK
<1>2. ASSUME NEW j \in Tree(i) \cap isRoot PROVE j \in Roots
  <2>1. j \in Live /\ j \notin Files
    BY <1>2, TreeIs, ItemsAssumption DEF TypeOK
  <2>2. target[j] = target[i]
    BY <1>2, <2>1, TreeHasOneTarget
  <2>3. target[i] \in Targets
    BY DEF Forest, Targeted, Live
  <2> QED  BY <1>2, <2>1, <2>2, <2>3, SetsAre DEF OneRoot
<1> QED
  BY <1>1, <1>2

\* Deletions: what is below an item goes to the trash with it, but for a root.
LEMMA DeletedIs ==
  ASSUME TypeOK, Forest, NEW i \in Live, OneRoot(target[i]), state' = Deleted(i)
  PROVE  /\ Live' = Live \ (Tree(i) \ Roots)
         /\ \A j \in Items : state'[j] = "absent" <=> state[j] = "absent"
         /\ \A j \in Items \ (Tree(i) \ Roots) : state'[j] = state[j]
         /\ \A j \in Live' \ Roots : parent[j] \in Live'
         /\ state' \in [Items -> {"absent", "live", "trashed"}]
<1>1. Tree(i) \subseteq Live /\ Tree(i) \subseteq Items
  BY TreeIs, SetsAre
<1>2. \A j \in Items : state'[j] = IF j \in Tree(i) \ Roots THEN "trashed" ELSE state[j]
  BY MarkedIs DEF Deleted
<1>3. Live' = Live \ (Tree(i) \ Roots)
  BY <1>1, <1>2 DEF Live
<1>4. \A j \in Items : state'[j] = "absent" <=> state[j] = "absent"
  BY <1>1, <1>2 DEF Live
<1>5. \A j \in Live' \ Roots : parent[j] \in Live'
  <2> SUFFICES ASSUME NEW j \in Live' \ Roots PROVE parent[j] \in Live'
    OBVIOUS
  <2>1. j \in Live \ Tree(i)
    BY <1>3
  <2>2. parent[j] \in Live \ Tree(i)
    BY <2>1, RestIs
  <2> QED  BY <1>3, <2>2
<1>6. state' \in [Items -> {"absent", "live", "trashed"}]
  BY DEF Deleted, TypeOK
<1> QED
  BY <1>2, <1>3, <1>4, <1>5, <1>6

LEMMA DeleteForest ==
  ASSUME TypeOK, Forest, NEW i \in Live, OneRoot(target[i]), state' = Deleted(i),
         UNCHANGED <<parent, target, strays>>
  PROVE  Forest'
<1>1. /\ Live' \subseteq Live
      /\ \A j \in Items : state'[j] = "absent" <=> state[j] = "absent"
      /\ \A j \in Roots : state'[j] = state[j]
      /\ \A j \in Live' \ Roots : parent[j] \in Live'
  BY DeletedIs, SetsAre
<1>2. Rooted'
  BY <1>1, SetsAre DEF Forest, Rooted
<1>3. Targeted'
  BY <1>1 DEF Forest, Targeted
<1>4. Hanging'
  BY <1>1 DEF Forest, Hanging
<1> QED
  BY <1>2, <1>3, <1>4 DEF Forest, Grounded, StraysAreFiles

LEMMA RestoreForest ==
  ASSUME TypeOK, Forest, NEW f \in Items, Restore(f)
  PROVE  Forest'
<1>1. /\ f \in Trashed /\ f \in Files /\ f \notin Roots /\ parent[f] \in Live
      /\ state' = [state EXCEPT ![f] = "live"]
      /\ UNCHANGED <<parent, target>>
      /\ strays' = strays \/ strays' = strays \cup {f}
      /\ target[f] # target[parent[f]] => f \in strays'
  BY ItemsAssumption DEF Restore
<1>2. state'[f] = "live" /\ \A j \in Items : j # f => state'[j] = state[j]
  BY DEF TypeOK, Restore
<1>3. Live' = Live \cup {f}
  BY <1>2 DEF Live
<1>4. Rooted'
  <2>1. \A t \in Targets : Root[t] \in Items /\ Root[t] # f
    BY <1>1, SetsAre
  <2> QED  BY <1>1, <1>2, <2>1 DEF Forest, Rooted
<1>5. Targeted'
  <2>1. state[f] # "absent"
    BY <1>1 DEF Trashed
  <2> QED  BY <1>1, <1>2, <2>1 DEF Forest, Targeted
<1>6. Hanging'
  <2> SUFFICES ASSUME NEW j \in Live' \ Roots
               PROVE  parent[j] \in Live' /\ (target[j] = target[parent[j]] \/ j \in strays')
    BY <1>1 DEF Hanging
  <2>1. CASE j = f
    BY <1>1, <1>3, <2>1
  <2>2. CASE j # f
    BY <1>1, <1>3, <2>2 DEF Forest, Hanging
  <2> QED  BY <2>1, <2>2
<1>7. StraysAreFiles'
  BY <1>1 DEF Forest, StraysAreFiles
<1> QED
  BY <1>1, <1>4, <1>5, <1>6, <1>7 DEF Forest, Grounded

\* The root of a project is there, and has its target.
LEMMA ProjectRootIs ==
  ASSUME Forest, NEW p \in Projects
  PROVE  Root[p] \in Live /\ target[Root[p]] = p
BY RootsAre, SetsAre DEF Forest, Rooted, Targets

LEMMA MoveIs ==
  ASSUME NEW i \in Items, NEW d \in Items, Move(i, d)
  PROVE  i \in Live \ Roots /\ d \in Live \ Tree(i) /\ MoveUnder(i, d)
BY DEF Move

\* The primary file of a preprint moves to its root.
LEMMA SetPrimaryIs ==
  ASSUME Forest, NEW p \in Preprints, NEW f \in Files, SetPrimary(p, f)
  PROVE  /\ f \in Live \ Roots /\ Root[p] \in Live \ Tree(f) /\ MoveUnder(f, Root[p])
         /\ p \in Targets /\ target[Root[p]] = p
<1>1. f \in Live /\ f \notin Roots /\ p \in Targets /\ MoveUnder(f, Root[p])
  BY ItemsAssumption DEF SetPrimary, Targets
<1>2. Root[p] \in Roots /\ target[Root[p]] = p
  BY <1>1, SetsAre DEF Forest, Rooted
<1>3. Root[p] \in Live \ Tree(f)
  BY <1>1, <1>2, RestIs
<1> QED
  BY <1>1, <1>2, <1>3

LEMMA ForestStep ==
  ASSUME TypeOK, Forest, [Next]_vars
  PROVE  Forest'
<1>1. ASSUME UNCHANGED <<tree, strays>> PROVE Forest'
  BY <1>1 DEF tree, Forest, Rooted, Targeted, Hanging, StraysAreFiles, Grounded, Live
<1>2. ASSUME NEW i \in Items, NEW d \in Items, Move(i, d) PROVE Forest'
  <2>1. strays' = strays
    BY <1>2 DEF Move
  <2> QED  BY <1>2, <2>1, MoveIs, MoveForest
<1>3. ASSUME NEW i \in Items, NEW d \in Items, Copy(i, d) PROVE Forest'
  BY <1>3, CopyForest DEF Copy
<1>4. ASSUME NEW i \in Items, Delete(i) PROVE Forest'
  BY <1>4, DeleteForest DEF Delete, history
<1>5. ASSUME NEW p \in Projects, DeleteFiles(p) PROVE Forest'
  <2>1. CASE state' = state
    BY <1>1, <1>5, <2>1 DEF DeleteFiles, tree
  <2>2. CASE OneRoot(p) /\ state' = Deleted(Root[p])
    BY <1>5, <2>2, ProjectRootIs, DeleteForest DEF DeleteFiles
  <2> QED  BY <1>5, <2>1, <2>2 DEF DeleteFiles
<1>6. ASSUME NEW p \in Preprints, NEW f \in Files, SetPrimary(p, f) PROVE Forest'
  <2>1. strays' = strays
    BY <1>6 DEF SetPrimary, history
  <2> QED  BY <1>6, <2>1, SetPrimaryIs, MoveForest
<1>7. CASE Next
  BY <1>1, <1>2, <1>3, <1>4, <1>5, <1>6, <1>7, CreateForest, RestoreForest
  DEF Next, CheckIn, CheckOut, AddContributor, RemoveContributor, CheckinFiles, Merge, RemoveNode, history
<1>8. CASE UNCHANGED vars
  BY <1>1, <1>8 DEF vars, tree
<1> QED
  BY <1>7, <1>8

-----------------------------------------------------------------------------
\* Types

LEMMA LateIs ==
  ASSUME TypeOK, NEW t, Late(t)
  PROVE  spared \subseteq spared' /\ spared' \subseteq Projects /\ (t \in deleted => t \in spared')
BY DEF Late, TypeOK

\* The items that are checked out are among the live ones after the step, too.
LEMMA TypeStep ==
  ASSUME TypeOK, Forest, [Next]_vars
  PROVE  TypeOK'
<1>1. ASSUME NEW i \in Items, NEW d \in Items, CreateChild(i, d) PROVE TypeOK'
  <2>1. state' \in [Items -> {"absent", "live", "trashed"}] /\ Live \subseteq Live'
    BY <1>1 DEF CreateChild, TypeOK, Live
  <2>2. d \in Roots \cup Folders /\ target[d] \in Targets \cup {None}
    BY <1>1, SetsAre DEF CreateChild, TypeOK
  <2>3. parent' \in [Items -> Roots \cup Folders \cup {None}] /\ target' \in [Items -> Targets \cup {None}]
    BY <1>1, <2>2 DEF CreateChild, TypeOK
  <2> QED
    BY <1>1, <2>1, <2>3, LateIs DEF CreateChild, TypeOK, people
<1>2. ASSUME NEW i \in Live \ Roots, NEW d \in Live \ Tree(i), IsFolder(d), MoveUnder(i, d)
      PROVE  /\ state' = state /\ Live' = Live /\ isRoot' = isRoot
             /\ parent' \in [Items -> Roots \cup Folders \cup {None}]
             /\ target' \in [Items -> Targets \cup {None}]
  <2>1. d \in Roots \cup Folders /\ target[d] \in Targets \cup {None}
    BY <1>2, SetsAre DEF TypeOK
  <2> QED
    BY <1>2, <2>1, MovedIs DEF MoveUnder, Updated, TypeOK
<1>3. ASSUME NEW i \in Items, NEW d \in Items, Move(i, d) PROVE TypeOK'
  <2>1. IsFolder(d) /\ Late(target[d]) /\ UNCHANGED <<checkout, primary, deleted, people, tasks, strays, orphans>>
    BY <1>3 DEF Move
  <2> QED
    BY <1>2, <1>3, <2>1, MoveIs, LateIs DEF TypeOK, people
<1>4. ASSUME NEW i \in Items, NEW d \in Items, Copy(i, d) PROVE TypeOK'
  <2>1. PICK copy \in [Tree(i) -> Absent] : Copied(i, d, copy)
    BY <1>4 DEF Copy
  <2>2. /\ i \in Live /\ d \in Live \ Tree(i) /\ IsFolder(d) /\ Late(target[d])
        /\ UNCHANGED <<checkout, primary, deleted, people, tasks, strays, orphans>>
    BY <1>4 DEF Copy
  <2>3. /\ Live \subseteq Live'
        /\ parent' \in [Items -> Roots \cup Folders \cup {None}]
        /\ state' \in [Items -> {"absent", "live", "trashed"}]
        /\ target' \in [Items -> Targets \cup {None}]
        /\ Roots \subseteq isRoot' /\ isRoot' \subseteq Roots \cup Folders
    BY <2>1, <2>2, CopiedIs
  <2> QED
    BY <2>2, <2>3, LateIs DEF TypeOK, people
<1>5. ASSUME NEW i \in Live, OneRoot(target[i]), CheckDeleteAllowed(i), state' = Deleted(i)
      PROVE  /\ state' \in [Items -> {"absent", "live", "trashed"}]
             /\ \A j \in Items \ Live' : checkout[j] = None
  <2>1. \A j \in Tree(i) : checkout[j] = None
    BY <1>5, CheckedOutIsSeen DEF CheckDeleteAllowed
  <2> QED
    BY <1>5, <2>1, DeletedIs DEF TypeOK
<1>6. ASSUME NEW i \in Items, Delete(i) PROVE TypeOK'
  <2>1. i \in Live /\ OneRoot(target[i]) /\ CheckDeleteAllowed(i) /\ state' = Deleted(i)
        /\ UNCHANGED <<parent, target, isRoot, checkout, primary, deleted, people, tasks, history>>
    BY <1>6 DEF Delete
  <2> QED
    BY <1>5, <2>1 DEF TypeOK, people, history
<1>7. ASSUME NEW p \in Projects, DeleteFiles(p) PROVE TypeOK'
  <2>1. Root[p] \in Live /\ target[Root[p]] = p
    BY ProjectRootIs
  <2>2. /\ state' \in [Items -> {"absent", "live", "trashed"}]
        /\ \A j \in Items \ Live' : checkout[j] = None
    <3>1. CASE state' = state
      BY <3>1 DEF TypeOK, Live
    <3>2. CASE OneRoot(p) /\ CheckDeleteAllowed(Root[p]) /\ state' = Deleted(Root[p])
      BY <1>5, <2>1, <3>2
    <3> QED  BY <1>7, <3>1, <3>2 DEF DeleteFiles
  <2>3. spared' \subseteq Projects /\ tasks' \subseteq Tasks
    BY <1>7 DEF DeleteFiles, TypeOK
  <2> QED
    BY <1>7, <2>2, <2>3 DEF DeleteFiles, TypeOK, people
<1>8. ASSUME NEW f \in Items, Restore(f) PROVE TypeOK'
  <2>1. state' \in [Items -> {"absent", "live", "trashed"}] /\ Live \subseteq Live'
    BY <1>8 DEF Restore, TypeOK, Live
  <2>2. spared' \subseteq Projects /\ strays' \cup orphans' \subseteq Files
    BY <1>8 DEF Restore, TypeOK
  <2> QED
    BY <1>8, <2>1, <2>2 DEF Restore, TypeOK, people
<1>9. ASSUME NEW p \in Preprints, NEW f \in Files, SetPrimary(p, f) PROVE TypeOK'
  <2>1. f \in Live \ Roots /\ Root[p] \in Live \ Tree(f) /\ MoveUnder(f, Root[p]) /\ IsFolder(Root[p])
    BY <1>9, SetPrimaryIs, SetsAre DEF Forest
  <2>2. primary' \in [Preprints -> Files \cup {None}]
    BY <1>9 DEF SetPrimary, TypeOK
  <2>3. UNCHANGED <<checkout, deleted, people, tasks, history>>
    BY <1>9 DEF SetPrimary
  <2> QED
    BY <1>2, <2>1, <2>2, <2>3 DEF TypeOK, people, history
<1>10. ASSUME NEW i \in Items, NEW u \in Users, CheckOut(i, u) PROVE TypeOK'
  <2>1. checkout' \in [Items -> Users \cup {None}] /\ \A j \in Items \ Live : checkout'[j] = None
    BY <1>10 DEF CheckOut, TypeOK
  <2> QED
    BY <1>10, <2>1 DEF CheckOut, TypeOK, tree, people, history, Live
<1>11. ASSUME NEW i \in Items, CheckIn(i) PROVE TypeOK'
  <2>1. checkout' \in [Items -> Users \cup {None}] /\ \A j \in Items \ Live : checkout'[j] = None
    BY <1>11 DEF CheckIn, TypeOK
  <2> QED
    BY <1>11, <2>1 DEF CheckIn, TypeOK, tree, people, Live
<1>12. ASSUME NEW t \in Targets, NEW u \in Users, AddContributor(t, u) PROVE TypeOK'
  BY <1>12 DEF AddContributor, TypeOK, tree, history, Live
<1>13. ASSUME NEW t \in Targets, NEW u \in Users, RemoveContributor(t, u) PROVE TypeOK'
  BY <1>13 DEF RemoveContributor, Told, Tasks, TypeOK, tree, history, Live
<1>14. ASSUME NEW t \in Targets, NEW u \in Users, CheckinFiles(t, u) PROVE TypeOK'
  <2>1. checkout' \in [Items -> Users \cup {None}] /\ \A j \in Items \ Live : checkout'[j] = None
    BY <1>14 DEF CheckinFiles, TypeOK
  <2>2. orphans' \subseteq orphans /\ tasks' \subseteq tasks
    BY <1>14 DEF CheckinFiles
  <2> QED
    BY <1>14, <2>1, <2>2 DEF CheckinFiles, TypeOK, tree, people, Live
<1>15. ASSUME NEW u \in Users, NEW m \in Users, Merge(u, m) PROVE TypeOK'
  <2>1. checkout' \in [Items -> Users \cup {None}] /\ \A j \in Items \ Live : checkout'[j] = None
    BY <1>15, SetsAre DEF Merge, TypeOK
  <2>2. contributors' \in [Targets -> SUBSET (Users \ merged')] /\ merged' \subseteq Users
    BY <1>15 DEF Merge, TypeOK
  <2>3. orphans' \subseteq Files
    BY <1>15 DEF Merge, TypeOK
  <2> QED
    BY <1>15, <2>1, <2>2, <2>3 DEF Merge, TypeOK, tree, Live
<1>16. ASSUME NEW p \in Projects, RemoveNode(p) PROVE TypeOK'
  BY <1>16 DEF RemoveNode, Tasks, TypeOK, tree, people, history, Live
<1>17. CASE UNCHANGED vars
  BY <1>17 DEF vars, TypeOK, people, history, Live
<1> QED
  BY <1>1, <1>3, <1>4, <1>6, <1>7, <1>8, <1>9, <1>10, <1>11, <1>12, <1>13, <1>14, <1>15, <1>16, <1>17
  DEF Next

-----------------------------------------------------------------------------
\* Checked out files

\* What is checked out is not taken along by a move or a deletion.
LEMMA CheckedOutIsSafe ==
  ASSUME TypeOK, Forest, NEW i \in Items, checkout[i] # None
  PROVE  /\ i \in Live /\ i \notin Absent /\ target[i] \in Targets
         /\ \A m \in Live : ~IsCheckedOut(m) => i \notin Tree(m)
<1>1. i \in Live /\ i \notin Absent /\ target[i] \in Targets
  BY SetsAre DEF TypeOK, Forest, Targeted, Live
<1> QED
  BY <1>1, CheckedOutIsSeen

LEMMA CheckedOutStep ==
  ASSUME TypeOK, Forest, CheckedOutByContributors, [Next]_vars
  PROVE  CheckedOutByContributors'
<1>1. ASSUME UNCHANGED <<checkout, contributors, orphans>>, tasks \cap Tasks \subseteq tasks' \cup ({"delete"} \X Projects),
             \A i \in Items : checkout[i] # None => target'[i] = target[i]
      PROVE  CheckedOutByContributors'
  <2> SUFFICES ASSUME NEW i \in Files \ orphans', checkout'[i] # None
               PROVE  \/ checkout'[i] \in contributors'[target'[i]]
                      \/ <<"checkin", target'[i], checkout'[i]>> \in tasks'
    BY DEF CheckedOutByContributors
  <2>1. i \in Items /\ checkout[i] # None /\ target'[i] = target[i] /\ target[i] \in Targets
        /\ checkout[i] \in Users
    BY <1>1, SetsAre, CheckedOutIsSafe DEF TypeOK
  <2>2. \/ checkout[i] \in contributors[target[i]]
        \/ <<"checkin", target[i], checkout[i]>> \in tasks
    BY <1>1, <2>1 DEF CheckedOutByContributors
  <2>3. <<"checkin", target[i], checkout[i]>> \in Tasks
        /\ <<"checkin", target[i], checkout[i]>> \notin {"delete"} \X Projects
    BY <2>1 DEF Tasks
  <2> QED
    BY <1>1, <2>1, <2>2, <2>3
<1>2. ASSUME UNCHANGED <<checkout, people, tasks, orphans>>,
             \A i \in Items : checkout[i] # None => target'[i] = target[i]
      PROVE  CheckedOutByContributors'
  BY <1>1, <1>2 DEF people
<1>3. ASSUME NEW i \in Items, NEW d \in Items, CreateChild(i, d) PROVE CheckedOutByContributors'
  <2>1. \A j \in Items : checkout[j] # None => target'[j] = target[j]
    BY <1>3, CheckedOutIsSafe DEF CreateChild, TypeOK
  <2> QED  BY <1>2, <1>3, <2>1 DEF CreateChild
<1>4. ASSUME NEW i \in Live \ Roots, NEW d \in Live \ Tree(i), MoveUnder(i, d)
      PROVE  \A j \in Items : checkout[j] # None => target'[j] = target[j]
  <2>1. ~IsCheckedOut(i)
    BY <1>4 DEF MoveUnder
  <2> QED  BY <1>4, <2>1, CheckedOutIsSafe, MovedIs
<1>5. ASSUME NEW i \in Items, NEW d \in Items, Move(i, d) PROVE CheckedOutByContributors'
  BY <1>2, <1>4, <1>5, MoveIs DEF Move
<1>6. ASSUME NEW p \in Preprints, NEW f \in Files, SetPrimary(p, f) PROVE CheckedOutByContributors'
  BY <1>2, <1>4, <1>6, SetPrimaryIs DEF SetPrimary, history
<1>7. ASSUME NEW i \in Items, NEW d \in Items, Copy(i, d) PROVE CheckedOutByContributors'
  <2>1. PICK copy \in [Tree(i) -> Absent] : Copied(i, d, copy)
    BY <1>7 DEF Copy
  <2>2. \A j \in Items : checkout[j] # None => target'[j] = target[j]
    BY <2>1, CheckedOutIsSafe DEF Copied
  <2> QED  BY <1>2, <1>7, <2>2 DEF Copy
<1>8. ASSUME NEW i \in Items, NEW u \in Users, CheckOut(i, u) PROVE CheckedOutByContributors'
  <2>1. u \in contributors[target[i]] /\ checkout' = [checkout EXCEPT ![i] = u]
        /\ UNCHANGED <<tree, people, tasks, history>>
    BY <1>8 DEF CheckOut
  <2> QED
    BY <2>1, SetsAre DEF CheckedOutByContributors, TypeOK, tree, people, history
<1>9. ASSUME NEW i \in Items, CheckIn(i) PROVE CheckedOutByContributors'
  <2>1. checkout' = [checkout EXCEPT ![i] = None] /\ orphans' = orphans \ {i}
        /\ UNCHANGED <<tree, people, tasks>>
    BY <1>9 DEF CheckIn
  <2> QED
    BY <2>1, SetsAre DEF CheckedOutByContributors, TypeOK, tree, people
<1>10. ASSUME NEW t \in Targets, NEW u \in Users, AddContributor(t, u) PROVE CheckedOutByContributors'
  <2>1. \A s \in Targets : contributors[s] \subseteq contributors'[s]
    BY <1>10 DEF AddContributor, TypeOK
  <2> QED
    BY <1>10, <2>1, SetsAre, CheckedOutIsSafe DEF CheckedOutByContributors, AddContributor, tree, history
<1>11. ASSUME NEW t \in Targets, NEW u \in Users, RemoveContributor(t, u) PROVE CheckedOutByContributors'
  <2>1. /\ tasks' = tasks \cup {<<"checkin", t, u>>}
        /\ \A s \in Targets : \A v \in contributors[s] : v \in contributors'[s] \/ (s = t /\ v = u)
    BY <1>11 DEF RemoveContributor, Told, TypeOK
  <2> QED
    BY <1>11, <2>1, SetsAre, CheckedOutIsSafe DEF CheckedOutByContributors, RemoveContributor, tree, history
<1>12. ASSUME NEW t \in Targets, NEW u \in Users, CheckinFiles(t, u) PROVE CheckedOutByContributors'
  <2>1. /\ tasks' = tasks \ {<<"checkin", t, u>>}
        /\ checkout' = IF u \in contributors[t] THEN checkout
             ELSE [i \in Items |->
               IF i \in Live \cap Files /\ target[i] = t /\ checkout[i] = u THEN None ELSE checkout[i]]
        /\ orphans' = {i \in orphans : checkout'[i] # None}
        /\ UNCHANGED <<tree, people>>
    BY <1>12 DEF CheckinFiles
  <2> SUFFICES ASSUME NEW i \in Files \ orphans', checkout'[i] # None
               PROVE  \/ checkout'[i] \in contributors'[target'[i]]
                      \/ <<"checkin", target'[i], checkout'[i]>> \in tasks'
    BY DEF CheckedOutByContributors
  <2>2. i \in Items /\ checkout[i] = checkout'[i] /\ i \notin orphans
    BY <2>1, SetsAre
  <2>3. i \in Live
    BY <2>2, CheckedOutIsSafe
  <2>4. target'[i] = target[i] /\ contributors' = contributors
    BY <2>1 DEF tree, people
  <2>5. \/ checkout[i] \in contributors[target[i]]
        \/ <<"checkin", target[i], checkout[i]>> \in tasks
    BY <2>2 DEF CheckedOutByContributors
  <2>6. CASE <<"checkin", target[i], checkout[i]>> \in tasks'
    BY <2>2, <2>4, <2>6
  <2>7. CASE target[i] = t /\ checkout[i] = u
    BY <2>1, <2>2, <2>3, <2>4, <2>7
  <2> QED
    BY <2>1, <2>2, <2>4, <2>5, <2>6, <2>7
<1>13. ASSUME NEW u \in Users, NEW m \in Users, Merge(u, m) PROVE CheckedOutByContributors'
  <2>1. /\ u # m
        /\ contributors' = [t \in Targets |->
             IF u \in contributors[t] THEN (contributors[t] \ {u}) \cup {m} ELSE contributors[t]]
        /\ checkout' = [i \in Items |-> IF checkout[i] = u THEN m ELSE checkout[i]]
        /\ orphans' = orphans \cup
             {i \in Files : checkout[i] = u /\ contributors[target[i]] \cap {u, m} = {}}
        /\ UNCHANGED <<tree, tasks>>
    BY <1>13 DEF Merge
  <2> SUFFICES ASSUME NEW i \in Files \ orphans', checkout'[i] # None
               PROVE  \/ checkout'[i] \in contributors'[target'[i]]
                      \/ <<"checkin", target'[i], checkout'[i]>> \in tasks'
    BY DEF CheckedOutByContributors
  <2>2. i \in Items /\ i \notin orphans /\ checkout'[i] = IF checkout[i] = u THEN m ELSE checkout[i]
    BY <2>1, SetsAre
  <2>3. checkout[i] # None
    BY <2>2, SetsAre
  <2>4. target[i] \in Targets /\ target'[i] = target[i]
    BY <2>1, <2>2, <2>3, CheckedOutIsSafe DEF tree
  <2>5. contributors'[target[i]] = IF u \in contributors[target[i]]
          THEN (contributors[target[i]] \ {u}) \cup {m} ELSE contributors[target[i]]
    BY <2>1, <2>4
  <2>6. CASE checkout[i] = u
    BY <2>1, <2>2, <2>4, <2>5, <2>6
  <2>7. CASE checkout[i] # u
    <3>1. \/ checkout[i] \in contributors[target[i]]
          \/ <<"checkin", target[i], checkout[i]>> \in tasks
      BY <2>2, <2>3 DEF CheckedOutByContributors
    <3> QED  BY <2>1, <2>2, <2>4, <2>5, <2>7, <3>1
  <2> QED  BY <2>6, <2>7
<1>14. ASSUME NEW p \in Projects, RemoveNode(p) PROVE CheckedOutByContributors'
  BY <1>1, <1>14 DEF RemoveNode, tree, people, history
<1>15. ASSUME NEW p \in Projects, DeleteFiles(p) PROVE CheckedOutByContributors'
  <2>1. tasks \subseteq tasks' \cup ({"delete"} \X Projects)
    BY <1>15 DEF DeleteFiles
  <2> QED  BY <1>1, <1>15, <2>1 DEF DeleteFiles, people
<1>16. ASSUME NEW i \in Items, Delete(i) PROVE CheckedOutByContributors'
  BY <1>2, <1>16 DEF Delete, history
<1>17. ASSUME NEW f \in Items, Restore(f) PROVE CheckedOutByContributors'
  BY <1>2, <1>17 DEF Restore
<1>18. CASE UNCHANGED vars
  BY <1>2, <1>18 DEF vars, people
<1> QED
  BY <1>3, <1>5, <1>6, <1>7, <1>8, <1>9, <1>10, <1>11, <1>12, <1>13, <1>14, <1>15, <1>16, <1>17, <1>18
  DEF Next

-----------------------------------------------------------------------------
\* Primary files

\* A move does not take a primary file out of its preprint.
LEMMA MoveKeepsPrimary ==
  ASSUME TypeOK, Forest, PrimaryHangs, NEW i \in Live \ Roots, NEW d \in Live \ Tree(i), MoveUnder(i, d),
         NEW p \in Preprints, primary[p] # None
  PROVE  /\ state'[primary[p]] = "live"
         /\ target'[primary[p]] = p
         /\ target'[parent'[primary[p]]] = p
<1> DEFINE f == primary[p]
<1>1. f \in Live /\ f \in Files /\ target[f] = p /\ target[parent[f]] = p /\ f \in Items /\ f \notin Roots
  BY SetsAre, ItemsAssumption DEF PrimaryHangs, TypeOK, Live
<1> HIDE DEF f
<1>2. parent[f] \in Live /\ parent[f] \notin Files /\ parent[f] \in Items
  BY <1>1, SetsAre, ItemsAssumption DEF Forest, Hanging, TypeOK
<1>3. CASE f \in Tree(i)
  <2>1. target[i] = p
    <3>1. CASE f = i
      BY <1>1, <3>1
    <3>2. CASE f # i
      BY <1>1, <1>2, <1>3, <3>2, TreeIs, TreeHasOneTarget
    <3> QED  BY <3>1, <3>2
  <2>2. IsPreprintPrimary(i)
    BY <1>1, <1>3 DEF IsPreprintPrimary, f
  <2>3. target[d] = p
    BY <2>1, <2>2 DEF MoveUnder
  <2>4. target'[parent'[f]] = p
    <3>1. CASE f = i
      BY <2>3, <3>1, MovedIs
    <3>2. CASE f # i
      BY <1>1, <1>3, <2>3, <3>2, MovedIs
    <3> QED  BY <3>1, <3>2
  <2> QED
    BY <1>1, <1>3, <2>3, <2>4, MovedIs DEF f, Live
<1>4. CASE f \notin Tree(i)
  <2>1. parent[f] \in Live \ Tree(i) /\ f # i
    BY <1>1, <1>4, MovedIs
  <2> QED
    BY <1>1, <1>2, <1>4, <2>1, MovedIs DEF f, Live
<1> QED
  BY <1>3, <1>4

\* A deletion leaves primary files alone.
LEMMA DeleteKeepsPrimary ==
  ASSUME TypeOK, Forest, PrimaryHangs, NEW i \in Live, OneRoot(target[i]), CheckDeleteAllowed(i), state' = Deleted(i),
         NEW p \in Preprints, primary[p] # None
  PROVE  state'[primary[p]] = "live"
<1>1. primary[p] \in Items /\ state[primary[p]] = "live" /\ target[primary[p]] = p /\ p \in Preprints
  BY SetsAre DEF PrimaryHangs, TypeOK
<1>2. primary[p] \notin Tree(i)
  BY <1>1 DEF CheckDeleteAllowed, IsPreprintPrimary
<1> QED
  BY <1>1, <1>2, DeletedIs

LEMMA PrimaryStep ==
  ASSUME TypeOK, Forest, PrimaryHangs, [Next]_vars
  PROVE  PrimaryHangs'
<1>1. ASSUME UNCHANGED <<parent, target, primary>>,
             \A p \in Preprints : primary[p] # None => state'[primary[p]] = "live"
      PROVE  PrimaryHangs'
  BY <1>1 DEF PrimaryHangs
<1>2. ASSUME NEW N \in SUBSET (Items \ Live), primary' = primary,
             \A j \in Items \ N : /\ state'[j] = state[j] /\ parent'[j] = parent[j]
                                  /\ target'[j] = target[j]
      PROVE  PrimaryHangs'
  <2> SUFFICES ASSUME NEW p \in Preprints, primary[p] # None
               PROVE  /\ state'[primary[p]] = "live"
                      /\ target'[primary[p]] = p
                      /\ target'[parent'[primary[p]]] = p
    BY <1>2 DEF PrimaryHangs
  <2>1. /\ state[primary[p]] = "live" /\ target[primary[p]] = p /\ target[parent[primary[p]]] = p
        /\ primary[p] \in Items /\ primary[p] \notin Roots
    BY SetsAre, ItemsAssumption DEF PrimaryHangs, TypeOK
  <2>2. primary[p] \in Live /\ parent[primary[p]] \in Live
    BY <2>1 DEF Live, Forest, Hanging
  <2> QED
    BY <1>2, <2>1, <2>2, SetsAre
<1>3. ASSUME NEW i \in Items, NEW d \in Items, CreateChild(i, d) PROVE PrimaryHangs'
  <2> DEFINE N == {i}
  <2>1. N \in SUBSET (Items \ Live)
    BY <1>3, SetsAre DEF CreateChild
  <2>2. \A j \in Items \ N : state'[j] = state[j] /\ parent'[j] = parent[j] /\ target'[j] = target[j]
    BY <1>3 DEF CreateChild, TypeOK
  <2> HIDE DEF N
  <2> QED  BY <1>2, <1>3, <2>1, <2>2 DEF CreateChild
<1>4. ASSUME NEW i \in Items, NEW d \in Items, Copy(i, d) PROVE PrimaryHangs'
  <2>1. PICK copy \in [Tree(i) -> Absent] : Copied(i, d, copy)
    BY <1>4 DEF Copy
  <2> DEFINE N == {copy[j] : j \in Tree(i)}
  <2>2. N \in SUBSET (Items \ Live)
    BY SetsAre
  <2>3. \A j \in Items \ N : state'[j] = state[j] /\ parent'[j] = parent[j] /\ target'[j] = target[j]
    BY <2>1 DEF Copied
  <2> HIDE DEF N
  <2> QED  BY <1>2, <1>4, <2>2, <2>3 DEF Copy
<1>5. ASSUME NEW i \in Items, NEW d \in Items, Move(i, d) PROVE PrimaryHangs'
  <2>1. primary' = primary
    BY <1>5 DEF Move
  <2> QED
    BY <1>5, <2>1, MoveIs, MoveKeepsPrimary DEF PrimaryHangs
<1>6. ASSUME NEW p \in Preprints, NEW f \in Files, SetPrimary(p, f) PROVE PrimaryHangs'
  <2>1. primary' = [primary EXCEPT ![p] = f] /\ target[f] = p
    BY <1>6 DEF SetPrimary
  <2>2. /\ state'[f] = "live" /\ target'[f] = p /\ target'[parent'[f]] = p
    BY <1>6, SetPrimaryIs, MovedIs DEF Live
  <2>3. ASSUME NEW q \in Preprints, primary'[q] # None
        PROVE  /\ state'[primary'[q]] = "live"
               /\ target'[primary'[q]] = q
               /\ target'[parent'[primary'[q]]] = q
    <3>1. CASE q = p
      BY <2>1, <2>2, <3>1 DEF TypeOK
    <3>2. CASE q # p
      <4>1. primary'[q] = primary[q]
        BY <2>1, <3>2 DEF TypeOK
      <4> QED  BY <1>6, <2>3, <4>1, SetPrimaryIs, MoveKeepsPrimary
    <3> QED  BY <3>1, <3>2
  <2> QED  BY <2>3 DEF PrimaryHangs
<1>7. ASSUME NEW i \in Items, Delete(i) PROVE PrimaryHangs'
  BY <1>1, <1>7, DeleteKeepsPrimary DEF Delete
<1>8. ASSUME NEW p \in Projects, DeleteFiles(p) PROVE PrimaryHangs'
  <2>1. Root[p] \in Live /\ target[Root[p]] = p
    BY ProjectRootIs
  <2>2. UNCHANGED <<parent, target, primary>>
    BY <1>8 DEF DeleteFiles
  <2>3. CASE state' = state
    BY <1>1, <2>2, <2>3 DEF PrimaryHangs
  <2>4. CASE OneRoot(p) /\ CheckDeleteAllowed(Root[p]) /\ state' = Deleted(Root[p])
    BY <1>1, <2>1, <2>2, <2>4, DeleteKeepsPrimary
  <2> QED  BY <1>8, <2>3, <2>4 DEF DeleteFiles
<1>9. ASSUME NEW f \in Items, Restore(f) PROVE PrimaryHangs'
  <2>1. \A j \in Items : state[j] = "live" => state'[j] = "live"
    BY <1>9 DEF Restore, TypeOK
  <2> QED  BY <1>1, <1>9, <2>1, SetsAre DEF Restore, PrimaryHangs, TypeOK
<1>10. ASSUME UNCHANGED <<tree, primary>> PROVE PrimaryHangs'
  BY <1>10 DEF tree, PrimaryHangs
<1>11. CASE UNCHANGED vars
  BY <1>10, <1>11 DEF vars, tree
<1> QED
  BY <1>3, <1>4, <1>5, <1>6, <1>7, <1>8, <1>9, <1>10, <1>11
  DEF Next, CheckIn, CheckOut, AddContributor, RemoveContributor, CheckinFiles, Merge, RemoveNode

-----------------------------------------------------------------------------
\* Deleted projects

LEMMA ProjectRoots ==
  ASSUME TypeOK, Forest, NEW p \in deleted
  PROVE  /\ p \in Projects /\ p \in Targets /\ Root[p] \in Live /\ Root[p] \in Roots
         /\ target[Root[p]] = p /\ parent[Root[p]] = None
         /\ \A q \in Preprints : Root[q] # Root[p]
<1>1. p \in Projects /\ p \in Targets
  BY DEF TypeOK, Targets
<1>2. \A q \in Preprints : q \in Targets /\ q # p
  BY <1>1, TargetsAssumption DEF Targets
<1> QED
  BY <1>1, <1>2, RootsAre, SetsAre DEF Forest, Rooted

LEMMA EmptiedStep ==
  ASSUME TypeOK, Forest, Emptied, [Next]_vars
  PROVE  Emptied'
<1>1. ASSUME deleted' = deleted, spared \subseteq spared', tasks \cap ({"delete"} \X Projects) \subseteq tasks',
             \A p \in deleted \ spared' : \A i \in Live' : parent'[i] = Root[p] => i \in Live /\ parent[i] = Root[p]
      PROVE  Emptied'
  <2> SUFFICES ASSUME NEW p \in deleted \ spared', <<"delete", p>> \notin tasks'
               PROVE  \A i \in Live' : parent'[i] # Root[p]
    BY <1>1 DEF Emptied
  <2>1. <<"delete", p>> \notin tasks
    BY <1>1 DEF TypeOK
  <2> QED  BY <1>1, <2>1 DEF Emptied
<1>2. ASSUME UNCHANGED <<tree, deleted, spared>>, tasks \cap ({"delete"} \X Projects) \subseteq tasks'
      PROVE  Emptied'
  BY <1>1, <1>2 DEF tree, Live
<1>3. ASSUME NEW i \in Items, NEW d \in Items, CreateChild(i, d) PROVE Emptied'
  <2>1. /\ \A j \in Live' : j = i \/ (j \in Live /\ parent'[j] = parent[j])
        /\ parent'[i] = d /\ d \in Live
    BY <1>3 DEF CreateChild, TypeOK, Live
  <2>2. \A p \in deleted \ spared' : d # Root[p]
    BY <1>3, ProjectRoots, LateIs DEF CreateChild
  <2> QED  BY <1>1, <1>3, <2>1, <2>2, LateIs DEF CreateChild
<1>4. ASSUME NEW i \in Items, NEW d \in Items, Move(i, d) PROVE Emptied'
  <2>1. Live' = Live /\ parent'[i] = d /\ \A j \in Live : j # i => parent'[j] = parent[j]
    BY <1>4, MoveIs, MovedIs, SetsAre
  <2>2. \A p \in deleted \ spared' : d # Root[p]
    BY <1>4, ProjectRoots, LateIs DEF Move
  <2> QED  BY <1>1, <1>4, <2>1, <2>2, LateIs DEF Move
<1>5. ASSUME NEW i \in Items, NEW d \in Items, Copy(i, d) PROVE Emptied'
  <2>1. PICK copy \in [Tree(i) -> Absent] : Copied(i, d, copy)
    BY <1>5 DEF Copy
  <2> DEFINE new == {copy[j] : j \in Tree(i)}
  <2>2. i \in Live /\ d \in Live \ Tree(i) /\ IsFolder(d)
    BY <1>5 DEF Copy
  <2>3. /\ new \subseteq Absent
        /\ \A j \in Tree(i) : j # i => parent[j] \in Tree(i)
        /\ \A j \in Tree(i) : copy[j] \in new /\ parent'[copy[j]] = IF j = i THEN d ELSE copy[parent[j]]
        /\ \A n \in Items \ new : parent'[n] = parent[n]
        /\ Live' = Live \cup new
    BY <2>1, <2>2, CopiedIs
  <2>4. \A n \in new : \E j \in Tree(i) : n = copy[j]
    OBVIOUS
  <2> HIDE DEF new
  <2>5. \A n \in new : parent'[n] = d \/ parent'[n] \in Absent
    BY <2>3, <2>4
  <2>6. \A p \in deleted \ spared' : d # Root[p] /\ Root[p] \notin Absent
    BY <1>5, ProjectRoots, LateIs, SetsAre DEF Copy
  <2>7. \A n \in Live' : n \in new \/ (n \in Live /\ parent'[n] = parent[n])
    BY <2>3, SetsAre
  <2> QED  BY <1>1, <1>5, <2>5, <2>6, <2>7, LateIs DEF Copy
<1>6. ASSUME NEW p \in Preprints, NEW f \in Files, SetPrimary(p, f) PROVE Emptied'
  <2>1. Live' = Live /\ parent'[f] = Root[p] /\ \A j \in Live : j # f => parent'[j] = parent[j]
    BY <1>6, SetPrimaryIs, MovedIs, SetsAre
  <2> QED  BY <1>1, <1>6, <2>1, ProjectRoots DEF SetPrimary, history
<1>7. ASSUME NEW i \in Items, Delete(i) PROVE Emptied'
  <2>1. Live' \subseteq Live
    BY <1>7, DeletedIs DEF Delete
  <2> QED  BY <1>1, <1>7, <2>1 DEF Delete, history
<1>8. ASSUME NEW p \in Projects, DeleteFiles(p) PROVE Emptied'
  <2>1. Root[p] \in Live /\ target[Root[p]] = p
    BY ProjectRootIs
  <2>2. UNCHANGED <<parent, deleted>> /\ tasks' = tasks \ {<<"delete", p>>}
    BY <1>8 DEF DeleteFiles
  <2>3. /\ Live' \subseteq Live /\ spared \subseteq spared'
        /\ p \in spared' \/ \A i \in Live' : parent[i] # Root[p]
    <3>1. CASE OneRoot(p) /\ CheckDeleteAllowed(Root[p])
      <4>1. state' = Deleted(Root[p]) /\ spared' = spared
        BY <1>8, <3>1 DEF DeleteFiles
      <4>2. Live' = Live \ (Tree(Root[p]) \ Roots)
        BY <2>1, <3>1, <4>1, DeletedIs
      <4>3. ASSUME NEW i \in Live', parent[i] = Root[p] PROVE FALSE
        <5>1. i \in Live /\ i \in Tree(Root[p])
          BY <2>1, <4>2, <4>3, TreeIs
        <5>2. i \in Roots
          BY <4>2, <5>1
        <5> QED  BY <2>1, <4>3, <5>2, RootsAre, SetsAre DEF Forest
      <4> QED  BY <4>1, <4>2, <4>3
    <3>2. CASE ~(OneRoot(p) /\ CheckDeleteAllowed(Root[p]))
      BY <1>8, <3>2 DEF DeleteFiles, Live
    <3> QED  BY <3>1, <3>2
  <2> SUFFICES ASSUME NEW q \in deleted \ spared', <<"delete", q>> \notin tasks'
               PROVE  \A i \in Live' : parent[i] # Root[q]
    BY <2>2 DEF Emptied
  <2>4. CASE q = p
    BY <2>3, <2>4
  <2>5. CASE q # p
    BY <2>2, <2>3, <2>5 DEF Emptied
  <2> QED  BY <2>4, <2>5
<1>9. ASSUME NEW f \in Items, Restore(f) PROVE Emptied'
  <2>1. \A j \in Live' : j = f \/ j \in Live
    BY <1>9 DEF Restore, TypeOK, Live
  <2>2. \A p \in deleted \ spared' : parent[f] # Root[p]
    BY <1>9, ProjectRoots DEF Restore
  <2> QED  BY <1>1, <1>9, <2>1, <2>2 DEF Restore
<1>10. ASSUME NEW p \in Projects, RemoveNode(p) PROVE Emptied'
  <2>1. deleted' = deleted \cup {p} /\ tasks' = tasks \cup {<<"delete", p>>} /\ UNCHANGED <<tree, history>>
    BY <1>10 DEF RemoveNode
  <2> QED  BY <2>1 DEF tree, history, Emptied, Live
<1>11. ASSUME NEW t \in Targets, NEW u \in Users, CheckinFiles(t, u) PROVE Emptied'
  BY <1>2, <1>11 DEF CheckinFiles
<1>12. ASSUME NEW t \in Targets, NEW u \in Users, RemoveContributor(t, u) PROVE Emptied'
  BY <1>2, <1>12 DEF RemoveContributor, Told, history
<1>13. ASSUME UNCHANGED <<tree, deleted, spared, tasks>> PROVE Emptied'
  BY <1>2, <1>13
<1>14. CASE UNCHANGED vars
  BY <1>13, <1>14 DEF vars, tree
<1> QED
  BY <1>3, <1>4, <1>5, <1>6, <1>7, <1>8, <1>9, <1>10, <1>11, <1>12, <1>13, <1>14
  DEF Next, CheckIn, CheckOut, AddContributor, Merge, history

-----------------------------------------------------------------------------
\* The invariant and what it gives

LEMMA InvInit == Init => Inv
<1> SUFFICES ASSUME Init PROVE Inv
  OBVIOUS
<1>1. /\ state = [i \in Items |-> IF i \in Roots THEN "live" ELSE "absent"]
      /\ parent = [i \in Items |-> None]
      /\ target = [i \in Items |-> IF i \in Roots THEN CHOOSE t \in Targets : Root[t] = i ELSE None]
      /\ isRoot = Roots
      /\ checkout = [i \in Items |-> None]
      /\ primary = [p \in Preprints |-> None]
      /\ deleted = {} /\ merged = {} /\ tasks = {} /\ strays = {} /\ orphans = {} /\ spared = {}
      /\ contributors \in [Targets -> SUBSET Users]
  BY DEF Init
<1>2. \A t \in Targets : target[Root[t]] = t
  <2> TAKE t \in Targets
  <2>1. target[Root[t]] = CHOOSE s \in Targets : Root[s] = Root[t]
    BY <1>1, SetsAre
  <2>2. \A s \in Targets : Root[s] = Root[t] <=> s = t
    BY SetsAre
  <2> QED  BY <2>1, <2>2
<1>3. \A r \in Roots : \E t \in Targets : r = Root[t]
  BY DEF Roots
<1>4. target \in [Items -> Targets \cup {None}]
  BY <1>1, <1>2, <1>3
<1>5. Rooted
  BY <1>1, <1>2, SetsAre DEF Rooted
<1>6. Targeted
  BY <1>1, <1>2, <1>3 DEF Targeted
<1>7. Live = Roots
  BY <1>1, SetsAre DEF Live
<1>8. Grounded(parent)
  BY <1>1, SetsAre DEF Grounded
<1>9. TypeOK
  BY <1>1, <1>4, <1>7 DEF TypeOK
<1> QED
  BY <1>1, <1>5, <1>6, <1>7, <1>8, <1>9, SetsAre
  DEF Inv, Forest, Hanging, StraysAreFiles, CheckedOutByContributors, PrimaryHangs, Emptied

THEOREM Invariant == Spec => []Inv
<1>1. Inv /\ [Next]_vars => Inv'
  BY TypeStep, ForestStep, CheckedOutStep, PrimaryStep, EmptiedStep DEF Inv
<1> QED
  BY <1>1, InvInit, PTL DEF Spec

\* The variables keep their types, and nothing that is checked out gets into the
\* trash, by a user's request or with its project.
THEOREM TypeCorrect == Spec => []TypeOK
<1>1. Inv => TypeOK
  BY DEF Inv
<1> QED
  BY <1>1, Invariant, PTL

\* Live files and folders are always below a root, at any depth, and belong to
\* its project or preprint unless they were restored into a folder of another.
THEOREM FilesFollowTheirRoot == Spec => []TargetsAgree
<1>1. Inv => TargetsAgree
  BY LiveIsRooted DEF Inv, TargetsAgree
<1> QED
  BY <1>1, Invariant, PTL

\* A checked out file is always a contributor's or about to be checked in, for
\* any number of users, removals and merges.
THEOREM CheckedOutByContributorsAlways == Spec => []CheckedOutByContributors
<1>1. Inv => CheckedOutByContributors
  BY DEF Inv
<1> QED
  BY <1>1, Invariant, PTL

\* The primary file of a preprint stays live and in the tree of the preprint.
THEOREM PrimaryStaysAlways == Spec => []PrimaryStays
<1>1. ASSUME Inv PROVE PrimaryStays
  <2> SUFFICES ASSUME NEW p \in Preprints, primary[p] # None
               PROVE  /\ state[primary[p]] = "live" /\ target[primary[p]] = p
                      /\ primary[p] \in Tree(Root[p])
    BY DEF PrimaryStays
  <2> DEFINE f == primary[p]
  <2>1. f \in Live /\ f \notin Roots /\ target[f] = p /\ target[parent[f]] = p
    BY <1>1, SetsAre, ItemsAssumption DEF Inv, PrimaryHangs, TypeOK, Live
  <2>2. parent[f] \in Live
    BY <1>1, <2>1 DEF Inv, Forest, Hanging
  <2>3. parent[f] \notin strays
    <3>1. parent[f] \in Roots \cup Folders
      BY <1>1, <2>1, <2>2, SetsAre DEF Inv, TypeOK
    <3> QED  BY <1>1, <3>1, ItemsAssumption DEF Inv, Forest, StraysAreFiles
  <2> HIDE DEF f
  <2>4. parent[f] \in Tree(Root[p])
    BY <1>1, <2>1, <2>2, <2>3, LiveIsRooted DEF Inv
  <2>5. Root[p] \in Live
    BY <1>1, RootsAre, SetsAre DEF Inv, Forest, Targets
  <2>6. f \in Tree(Root[p])
    BY <1>1, <2>1, <2>2, <2>4, <2>5, TreeIs DEF Inv
  <2> QED
    BY <2>1, <2>6 DEF f, Live
<1> QED
  BY <1>1, Invariant, PTL

\* Nothing of a deleted project is left once its task has run, at any depth, but
\* where the task found a check out or the copy of another root, or a late
\* request came in.
THEOREM NothingOutlivesItsProjectAlways == Spec => []NothingOutlivesItsProject
<1>1. ASSUME Inv PROVE NothingOutlivesItsProject
  <2> SUFFICES ASSUME NEW p \in deleted \ spared, \A i \in Live : parent[i] # Root[p]
               PROVE  Tree(Root[p]) = {Root[p]}
    BY <1>1 DEF NothingOutlivesItsProject, Inv, Emptied
  <2>1. Root[p] \in Live
    BY <1>1, ProjectRoots DEF Inv
  <2>2. \A j \in Tree(Root[p]) : j \in Live /\ (j = Root[p] \/ parent[j] = Root[p] \/ parent[j] \in Tree(Root[p]))
    BY <1>1, <2>1, TreeIs DEF Inv
  <2> DEFINE T == {j \in Items : j \in Tree(Root[p]) => j = Root[p]}
  <2>3. ASSUME NEW j \in Items, parent[j] \in Items => parent[j] \in T PROVE j \in T
    <3> SUFFICES ASSUME j \in Tree(Root[p]), j # Root[p] PROVE FALSE
      OBVIOUS
    <3>1. j \in Live /\ parent[j] \in Live /\ parent[j] \in Tree(Root[p])
      BY <1>1, <2>1, TreeIs DEF Inv
    <3>2. parent[j] = Root[p]
      BY <2>3, <3>1, SetsAre
    <3> QED  BY <3>1, <3>2
  <2>4. T = Items
    <3>1. T \in SUBSET Items /\ Grounded(parent)
      BY <1>1 DEF Inv, Forest
    <3> HIDE DEF T
    <3> QED  BY <2>3, <3>1, FromTheRoots
  <2> QED
    BY <1>1, <2>1, <2>2, <2>4, TreeIs, SetsAre DEF Inv
<1> QED
  BY <1>1, Invariant, PTL

-----------------------------------------------------------------------------
\* What is checked out stays where it is

\* The path above a checked out item is live, and has no item that a move may take.
LEMMA CheckedOutPath ==
  ASSUME TypeOK, Forest, NEW i \in Items, checkout[i] # None
  PROVE  /\ i \in Live /\ Up(parent, i, Items) \subseteq Live
         /\ \A m \in Live : ~IsCheckedOut(m) => m \notin Up(parent, i, Items)
         /\ (\A j \in Up(parent, i, Items) : parent'[j] = parent[j]) =>
              Above(i, Items)' = Above(i, Items)
<1>1. i \in Live /\ \A m \in Live : ~IsCheckedOut(m) => i \notin Tree(m)
  BY CheckedOutIsSafe
<1>2. \A j \in Live : parent[j] \in Items => parent[j] \in Live
  BY RootsAre, SetsAre DEF Forest, Hanging
<1>3. Grounded(parent) /\ Live \in SUBSET Items /\ Items \in SUBSET Items
  BY SetsAre DEF Forest
<1>4. Up(parent, i, Items) = Up(parent, i, Live) /\ Up(parent, i, Items) \subseteq Live
  BY <1>1, <1>2, <1>3, UpIsLive
<1>5. Above(i, Live) = Up(parent, i, Live)
  BY DEF Above, Up
<1>6. \A m \in Live : ~IsCheckedOut(m) => m \notin Up(parent, i, Items)
  BY <1>1, <1>4, <1>5 DEF Tree
<1>7. ASSUME \A j \in Up(parent, i, Items) : parent'[j] = parent[j]
      PROVE  Above(i, Items)' = Above(i, Items)
  <2>1. Up(parent', i, Items) = Up(parent, i, Items)
    BY <1>3, <1>7, UpStays
  <2> QED  BY <2>1 DEF Above, Up
<1> QED
  BY <1>1, <1>4, <1>6, <1>7

\* What is checked out is neither moved nor deleted, and no folder above it is.
THEOREM CheckedOutNeverMoves == Spec => CheckedOutStays
<1> DEFINE Stays(i) == Above(i, Items)' = Above(i, Items) /\ target'[i] = target[i] /\ state'[i] = state[i]
<1>1. ASSUME Inv, Next, NEW i \in Items, checkout[i] # None PROVE Stays(i)
  <2>1. /\ i \in Live /\ Up(parent, i, Items) \subseteq Live
        /\ \A m \in Live : ~IsCheckedOut(m) => m \notin Up(parent, i, Items)
        /\ (\A j \in Up(parent, i, Items) : parent'[j] = parent[j]) =>
             Above(i, Items)' = Above(i, Items)
    BY <1>1, CheckedOutPath DEF Inv
  <2>2. \A m \in Live : ~IsCheckedOut(m) => i \notin Tree(m)
    BY <1>1, CheckedOutIsSafe DEF Inv
  <2>3. ASSUME \A j \in Live : parent'[j] = parent[j], target'[i] = target[i], state'[i] = state[i]
        PROVE  Stays(i)
    BY <2>1, <2>3
  <2> HIDE DEF Stays
  <2>4. ASSUME NEW c \in Items, NEW d \in Items, CreateChild(c, d) PROVE Stays(i)
    <3>1. /\ \A j \in Items : j # c => /\ state'[j] = state[j] /\ parent'[j] = parent[j]
                                       /\ target'[j] = target[j]
          /\ c \notin Live
      BY <1>1, <2>4, SetsAre DEF CreateChild, Inv, TypeOK
    <3> QED  BY <2>1, <2>3, <3>1, SetsAre
  <2>5. ASSUME NEW m \in Live \ Roots, NEW d \in Live \ Tree(m), MoveUnder(m, d) PROVE Stays(i)
    <3>1. ~IsCheckedOut(m) /\ state' = state
      BY <2>5 DEF MoveUnder
    <3>2. \A j \in Up(parent, i, Items) : parent'[j] = parent[j]
      BY <1>1, <2>1, <2>5, <3>1, MovedIs, SetsAre DEF Inv
    <3>3. target'[i] = target[i]
      BY <1>1, <2>2, <2>5, <3>1, MovedIs DEF Inv
    <3> QED  BY <2>1, <3>1, <3>2, <3>3 DEF Stays
  <2>6. ASSUME NEW m \in Items, NEW d \in Items, Copy(m, d) PROVE Stays(i)
    <3>1. PICK copy \in [Tree(m) -> Absent] : Copied(m, d, copy)
      BY <2>6 DEF Copy
    <3>2. \A j \in Live : parent'[j] = parent[j] /\ target'[j] = target[j] /\ state'[j] = state[j]
      BY <3>1, SetsAre DEF Copied
    <3> QED  BY <2>1, <2>3, <3>2
  <2>7. ASSUME NEW m \in Live, OneRoot(target[m]), CheckDeleteAllowed(m), state' = Deleted(m),
               UNCHANGED <<parent, target>>
        PROVE  Stays(i)
    <3>1. i \notin Tree(m)
      BY <2>2, <2>7 DEF CheckDeleteAllowed
    <3> QED  BY <1>1, <2>3, <2>7, <3>1, DeletedIs DEF Inv
  <2>8. ASSUME UNCHANGED tree PROVE Stays(i)
    BY <2>3, <2>8 DEF tree
  <2>9. ASSUME NEW p \in Projects, DeleteFiles(p) PROVE Stays(i)
    <3>1. Root[p] \in Live /\ target[Root[p]] = p
      BY <1>1, ProjectRootIs DEF Inv
    <3> QED  BY <2>7, <2>8, <2>9, <3>1 DEF DeleteFiles, tree
  <2>10. ASSUME NEW f \in Items, Restore(f) PROVE Stays(i)
    <3>1. f # i
      BY <2>1, <2>10, SetsAre DEF Restore
    <3> QED  BY <1>1, <2>3, <2>10, <3>1 DEF Restore, Inv, TypeOK
  <2> QED
    BY <1>1, <2>4, <2>5, <2>6, <2>7, <2>8, <2>9, <2>10, MoveIs, SetPrimaryIs
    DEF Next, Delete, CheckIn, CheckOut, AddContributor, RemoveContributor, CheckinFiles, Merge,
        RemoveNode, Inv
<1>2. Inv /\ [Next]_vars => [\A i \in Items : checkout[i] # None => Stays(i)]_vars
  BY <1>1
<1> QED
  BY <1>2, Invariant, PTL DEF Spec, CheckedOutStays

=============================================================================
