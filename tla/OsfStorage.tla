----------------------------- MODULE OsfStorage -----------------------------
(***************************************************************************)
(* The tree of files that OSF Storage keeps for projects and preprints:    *)
(* uploads, moves, copies and deletions as WaterButler reports them,       *)
(* files that users check out, primary files of preprints, and the celery  *)
(* tasks that follow the removal of a contributor and of a project.        *)
(***************************************************************************)
EXTENDS Naturals, FiniteSets

CONSTANTS
  Projects,   \* targets that are projects
  Preprints,  \* targets that are preprints
  Root,       \* the root folder of each target
  Folders,    \* the other folders
  Files,
  Users,
  None,       \* nobody, no file
  Wanted,     \* items that users check out (a bound)
  MaxCheckouts, \* bound on the items checked out at a time
  MaxTasks      \* bound on the celery tasks sent and not run

Targets == Projects \cup Preprints
Roots == {Root[t] : t \in Targets}
Items == Roots \cup Folders \cup Files

ASSUME TargetsAssumption == Projects \cap Preprints = {}
ASSUME RootAssumption ==
  /\ DOMAIN Root = Targets
  /\ \A s, t \in Targets : Root[s] = Root[t] => s = t
ASSUME ItemsAssumption ==
  /\ IsFiniteSet(Items)
  /\ Roots \cap Folders = {} /\ Roots \cap Files = {} /\ Folders \cap Files = {}
ASSUME BoundsAssumption == Wanted \subseteq Items /\ MaxCheckouts \in Nat /\ MaxTasks \in Nat
ASSUME NoneAssumption == None \notin Items \cup Users \cup Targets

VARIABLES
  state,      \* of each item: "absent", "live" or "trashed"
  parent,     \* folder of each item
  target,     \* what each item belongs to
  isRoot,     \* folders marked as roots, copies of roots among them
  checkout,   \* user who has the item checked out
  primary,    \* primary file of each preprint
  deleted,    \* projects that were deleted
  contributors, \* of each target, whatever their permission
  merged,     \* users merged into others
  tasks,      \* celery tasks sent
  strays,     \* history: restored after their folder had changed target
  orphans,    \* history: files whose user was merged after the removal
  spared      \* history: projects whose task failed, or that got files late

vars == <<state, parent, target, isRoot, checkout, primary, deleted,
          contributors, merged, tasks, strays, orphans, spared>>

tree == <<state, parent, target, isRoot>>
people == <<contributors, merged>>
history == <<strays, orphans, spared>>

Tasks == ({"checkin"} \X Targets \X Users) \cup ({"delete"} \X Projects)

\* NodeSettings.on_add: a root folder for each target
Init ==
  /\ state = [i \in Items |-> IF i \in Roots THEN "live" ELSE "absent"]
  /\ parent = [i \in Items |-> None]
  /\ target = [i \in Items |->
       IF i \in Roots THEN CHOOSE t \in Targets : Root[t] = i ELSE None]
  /\ isRoot = Roots
  /\ checkout = [i \in Items |-> None]
  /\ primary = [p \in Preprints |-> None]
  /\ deleted = {}
  /\ contributors \in [Targets -> SUBSET Users]
  /\ merged = {}
  /\ tasks = {}
  /\ strays = {}
  /\ orphans = {}
  /\ spared = {}

-----------------------------------------------------------------------------
Live == {i \in Items : state[i] = "live"}
Absent == {i \in Items : state[i] = "absent"}
Trashed == {i \in Items : state[i] = "trashed"}

IsFolder(i) == i \notin Files

\* i and the folders above it, as long as they are in S
Above(i, S) ==
  LET path[j \in Items] ==
        {j} \cup IF parent[j] \in S THEN path[parent[j]] ELSE {}
  IN path[i]

\* What recursion over Folder.children visits: i and what is live below it
Tree(i) == {i} \cup {j \in Live : i \in Above(j, Live)}

\* Fault: no deeper than the children.
IsCheckedOut_Children(i) == \E j \in Items : (j = i \/ parent[j] = i) /\ checkout[j] # None

\* OsfStorageFileNode.is_checked_out, of a folder with all rows that are below,
\* the trashed ones among them
IsCheckedOut(i) == \E j \in Items : checkout[j] # None /\ i \in Above(j, Items)

\* Fault: a folder does not look for the primary file.
IsPreprintPrimary_Own(i) == \E p \in Preprints : target[i] = p /\ primary[p] = i

\* is_preprint_primary, of a folder with all that is below
IsPreprintPrimary(i) ==
  \E p \in Preprints : primary[p] \in Tree(i) /\ target[primary[p]] = p

\* A hook of WaterButler was authorized when the user's request began: by now
\* the user may be no contributor, the project deleted.
Late(t) == spared' = IF t \in deleted THEN spared \cup {t} ELSE spared

-----------------------------------------------------------------------------
\* Hooks of WaterButler

\* osfstorage_create_child, for a name that is new
CreateChild(i, d) ==
  /\ i \in Absent
  /\ d \in Live /\ IsFolder(d)
  /\ state' = [state EXCEPT ![i] = "live"]
  /\ parent' = [parent EXCEPT ![i] = d]
  /\ target' = [target EXCEPT ![i] = target[d]]
  /\ Late(target[d])
  /\ UNCHANGED <<isRoot, checkout, primary, deleted, people, tasks, strays, orphans>>

\* Fault: the children keep their target.
Updated_Own(i, d) == [target EXCEPT ![i] = target[d]]

\* _update_node: the target of the new parent, all the way down
Updated(i, d) ==
  LET moved == Tree(i) IN
  [j \in Items |-> IF j \in moved THEN target[d] ELSE target[j]]

MoveUnder(i, d) ==
  /\ IsPreprintPrimary(i) => target[d] = target[i]
  /\ ~IsCheckedOut(i)
  /\ parent' = [parent EXCEPT ![i] = d]
  /\ target' = Updated(i, d)
  /\ UNCHANGED <<state, isRoot>>

\* osfstorage_move_hook; nobody asks for the move of a whole storage, or of a
\* folder into itself.
Move(i, d) ==
  /\ i \in Live \ Roots
  /\ d \in Live /\ IsFolder(d) /\ d \notin Tree(i)
  /\ MoveUnder(i, d)
  /\ Late(target[d])
  /\ UNCHANGED <<checkout, primary, deleted, people, tasks, strays, orphans>>

\* copy_files: copy is the new item for each one copied; nobody has checked it
\* out, but the copy of a root is marked as a root (BaseModel.clone).
Copied(i, d, copy) ==
  LET new == {copy[j] : j \in DOMAIN copy}
      source == [n \in new |-> CHOOSE j \in DOMAIN copy : copy[j] = n]
  IN
  /\ \A j, k \in DOMAIN copy : copy[j] = copy[k] => j = k
  /\ \A j \in DOMAIN copy : IsFolder(j) <=> IsFolder(copy[j])
  /\ state' = [n \in Items |-> IF n \in new THEN "live" ELSE state[n]]
  /\ parent' = [n \in Items |->
       IF n \notin new THEN parent[n]
       ELSE IF source[n] = i THEN d ELSE copy[parent[source[n]]]]
  /\ target' = [n \in Items |-> IF n \in new THEN target[d] ELSE target[n]]
  /\ isRoot' = isRoot \cup {copy[j] : j \in DOMAIN copy \cap isRoot}

\* osfstorage_copy_hook: of a file, a folder, or of a whole storage, as the
\* archiver asks for it
Copy(i, d) ==
  /\ i \in Live
  /\ d \in Live /\ IsFolder(d) /\ d \notin Tree(i)
  /\ \E copy \in [Tree(i) -> Absent] : Copied(i, d, copy)
  /\ Late(target[d])
  /\ UNCHANGED <<checkout, primary, deleted, people, tasks, strays, orphans>>

\* Fault: what is below stays.
Deleted_Own(i) == [state EXCEPT ![i] = IF i \in isRoot THEN @ ELSE "trashed"]

\* BaseFileNode.delete goes down the tree; what is marked as a root stays.
Deleted(i) ==
  LET gone == Tree(i) \ isRoot IN
  [j \in Items |-> IF j \in gone THEN "trashed" ELSE state[j]]

\* Fault: a folder is deleted whoever has its files.
CheckDeleteAllowed_Free(i) == ~IsPreprintPrimary(i) /\ checkout[i] = None

\* _check_delete_allowed
CheckDeleteAllowed(i) == ~IsPreprintPrimary(i) /\ ~IsCheckedOut(i)

\* OsfStorageFolder.objects.get_root finds the root of t, and no other; when
\* there are several it fails.
OneRoot(t) == {i \in Live \cap isRoot : target[i] = t} = {Root[t]}

\* osfstorage_delete, which asks for the root of the target first
Delete(i) ==
  /\ i \in Live
  /\ OneRoot(target[i]) /\ i # Root[target[i]]
  /\ CheckDeleteAllowed(i)
  /\ state' = Deleted(i)
  /\ UNCHANGED <<parent, target, isRoot, checkout, primary, deleted, people, tasks, history>>

-----------------------------------------------------------------------------
\* The API, which locks the row

\* PATCH of a file or folder, a root too: check_in_or_out; u is one of the
\* contributors who may write.
CheckOut(i, u) ==
  /\ i \in Live \cap Wanted
  /\ target[i] \notin deleted
  /\ u \in contributors[target[i]]
  /\ Cardinality({j \in Items : checkout[j] # None}) < MaxCheckouts
  /\ ~IsCheckedOut(i)
  /\ checkout' = [checkout EXCEPT ![i] = u]
  /\ UNCHANGED <<tree, primary, deleted, people, tasks, history>>

\* By the user, or by an admin, of whom there always is one
CheckIn(i) ==
  /\ i \in Live
  /\ target[i] \notin deleted
  /\ checkout[i] # None
  /\ checkout' = [checkout EXCEPT ![i] = None]
  /\ orphans' = orphans \ {i}
  /\ UNCHANGED <<tree, primary, deleted, people, tasks, strays, spared>>

\* set_primary_file moves the file to the root.
SetPrimary(p, f) ==
  /\ contributors[p] # {}
  /\ f \in Live \cap Files
  /\ target[f] = p
  /\ primary' = [primary EXCEPT ![p] = f]
  /\ MoveUnder(f, Root[p])
  /\ UNCHANGED <<checkout, deleted, people, tasks, history>>

-----------------------------------------------------------------------------
\* Contributors

AddContributor(t, u) ==
  /\ u \notin merged \cup contributors[t]
  /\ contributors' = [contributors EXCEPT ![t] = @ \cup {u}]
  /\ UNCHANGED <<tree, checkout, primary, deleted, merged, tasks, history>>

\* Fault: nobody is told of the removal.
Told_Never(t, u) == tasks

\* checkin_files_by_user
Told(t, u) == tasks \cup {<<"checkin", t, u>>}

RemoveContributor(t, u) ==
  /\ u \in contributors[t]
  /\ Cardinality(tasks) < MaxTasks
  /\ contributors' = [contributors EXCEPT ![t] = @ \ {u}]
  /\ tasks' = Told(t, u)
  /\ UNCHANGED <<tree, checkout, primary, deleted, merged, history>>

\* checkin_files_task; the relation holds files, not folders.
CheckinFiles(t, u) ==
  /\ <<"checkin", t, u>> \in tasks
  /\ tasks' = tasks \ {<<"checkin", t, u>>}
  /\ checkout' = IF u \in contributors[t] THEN checkout
       ELSE [i \in Items |->
         IF i \in Live \cap Files /\ target[i] = t /\ checkout[i] = u THEN None ELSE checkout[i]]
  /\ orphans' = {i \in orphans : checkout'[i] # None}
  /\ UNCHANGED <<tree, primary, deleted, people, strays, spared>>

\* merge_user: m gets the contributorships and the checked out files of u.
Merge(u, m) ==
  /\ u # m
  /\ u \notin merged /\ m \notin merged
  /\ merged' = merged \cup {u}
  /\ contributors' = [t \in Targets |->
       IF u \in contributors[t] THEN (contributors[t] \ {u}) \cup {m} ELSE contributors[t]]
  /\ checkout' = [i \in Items |-> IF checkout[i] = u THEN m ELSE checkout[i]]
  /\ orphans' = orphans \cup
       {i \in Files : checkout[i] = u /\ contributors[target[i]] \cap {u, m} = {}}
  /\ UNCHANGED <<tree, primary, deleted, tasks, strays, spared>>

-----------------------------------------------------------------------------
\* Deleted projects

\* remove_node; node_deleted sends the task.
RemoveNode(p) ==
  /\ p \notin deleted
  /\ Cardinality(tasks) < MaxTasks
  /\ deleted' = deleted \cup {p}
  /\ tasks' = tasks \cup {<<"delete", p>>}
  /\ UNCHANGED <<tree, checkout, primary, people, history>>

\* delete_files_task, in a transaction: not retried when there is no single root
\* or a check fails
DeleteFiles(p) ==
  /\ <<"delete", p>> \in tasks
  /\ tasks' = tasks \ {<<"delete", p>>}
  /\ IF OneRoot(p) /\ CheckDeleteAllowed(Root[p])
     THEN state' = Deleted(Root[p]) /\ UNCHANGED spared
     ELSE spared' = spared \cup {p} /\ UNCHANGED state
  /\ UNCHANGED <<parent, target, isRoot, checkout, primary, deleted, people, strays, orphans>>

\* unpurge_trash: a file, if its folder is there
Restore(f) ==
  /\ f \in Trashed \cap Files
  /\ parent[f] \in Live
  /\ state' = [state EXCEPT ![f] = "live"]
  /\ strays' = IF target[f] # target[parent[f]] THEN strays \cup {f} ELSE strays
  /\ spared' = spared \cup ({target[f], target[parent[f]]} \cap deleted)
  /\ UNCHANGED <<parent, target, isRoot, checkout, primary, deleted, people, tasks, orphans>>

-----------------------------------------------------------------------------
Next ==
  \/ \E i \in Items, d \in Items \ Files : CreateChild(i, d) \/ Move(i, d) \/ Copy(i, d)
  \/ \E i \in Items : Delete(i) \/ CheckIn(i) \/ Restore(i)
  \/ \E i \in Items, u \in Users : CheckOut(i, u)
  \/ \E p \in Preprints, f \in Files : SetPrimary(p, f)
  \/ \E t \in Targets, u \in Users :
       AddContributor(t, u) \/ RemoveContributor(t, u) \/ CheckinFiles(t, u)
  \/ \E u, m \in Users : Merge(u, m)
  \/ \E p \in Projects : RemoveNode(p) \/ DeleteFiles(p)

Spec == Init /\ [][Next]_vars

-----------------------------------------------------------------------------
\* Types of the variables; what is in the trash is not checked out.
TypeOK ==
  /\ state \in [Items -> {"absent", "live", "trashed"}]
  /\ parent \in [Items -> Roots \cup Folders \cup {None}]
  /\ target \in [Items -> Targets \cup {None}]
  /\ Roots \subseteq isRoot /\ isRoot \subseteq Roots \cup Folders
  /\ checkout \in [Items -> Users \cup {None}]
  /\ \A i \in Items \ Live : checkout[i] = None
  /\ primary \in [Preprints -> Files \cup {None}]
  /\ deleted \subseteq Projects
  /\ contributors \in [Targets -> SUBSET (Users \ merged)]
  /\ merged \subseteq Users
  /\ tasks \subseteq Tasks
  /\ strays \cup orphans \subseteq Files
  /\ spared \subseteq Projects

\* Whatever is live can be reached from a root through live folders, however it
\* was moved, copied and restored (materialized_path, Folder.children), and
\* belongs to the project or preprint of that root, at any depth, unless it was
\* restored after its folder had moved elsewhere.
TargetsAgree ==
  \A i \in Live : \E t \in Targets :
    i \in Tree(Root[t]) /\ (target[i] = t \/ i \in strays)

\* What is checked out stays where it is: neither it nor any folder above it
\* is moved or deleted, by users, by a preprint or with its project.
CheckedOutStays ==
  [][\A i \in Items : checkout[i] # None =>
       Above(i, Items)' = Above(i, Items) /\ target'[i] = target[i] /\ state'[i] = state[i]]_vars

\* A file is checked out by a contributor, or a task is under way to check it
\* in, unless the user was merged into another before that task ran.
CheckedOutByContributors ==
  \A i \in Files \ orphans : checkout[i] # None =>
    \/ checkout[i] \in contributors[target[i]]
    \/ <<"checkin", target[i], checkout[i]>> \in tasks

\* The primary file of a preprint is there, and in the preprint's tree, at
\* whatever depth it was moved.
PrimaryStays ==
  \A p \in Preprints : primary[p] # None =>
    /\ state[primary[p]] = "live"
    /\ target[primary[p]] = p
    /\ primary[p] \in Tree(Root[p])

\* Once its task has run, nothing is left of a deleted project, unless the task
\* found something checked out or the copy of another root, which make it fail
\* for good, or a request authorized before came late.
NothingOutlivesItsProject ==
  \A p \in deleted \ spared : <<"delete", p>> \in tasks \/ Tree(Root[p]) = {Root[p]}
===============================================================================
