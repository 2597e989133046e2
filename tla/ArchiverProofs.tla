---------------------------- MODULE ArchiverProofs ----------------------------
(***************************************************************************)
(* Proofs about Archiver, for any tree of nodes with any add-ons and any   *)
(* number of retries: the types and what the contributors are asked about  *)
(* whether copy requests time out or not, and the refinement of            *)
(* ArchiveOutcome while they do not.                                       *)
(***************************************************************************)
EXTENDS Archiver, SequenceTheorems, TLAPS

Final == {"SUCCESS", "FAILURE"}

TargetStatuses == Statuses \cup {"NETWORK_ERROR"}

Started == chain # <<>>

\* A target whose outcome is committed, or about to be.
Reported(n, a) ==
  \/ target[n][a] \in Final
  \/ \E r \in requests : r.node = n /\ r.addon = a /\ r.concluded

AllReported == \A n \in Nodes : \A a \in Targets[n] : Reported(n, a)

\* An archive_success task was queued, and what came of it.
Succeeding ==
  \/ queued.first > 0 \/ queued.again > 0
  \/ \E row \in JobRows : saving[row] > 0
  \/ asking > 0 \/ asked > 0

\* The full types.
Types ==
  /\ \A n \in Nodes : target[n] \in [Targets[n] -> TargetStatuses]
  /\ target = [n \in Nodes |-> target[n]]
  /\ job \in [Nodes -> JobRows]
  /\ sent \in BOOLEAN /\ broken \in BOOLEAN /\ deleted \in BOOLEAN
  /\ chain \in Seq(Nodes) /\ stage \in {"STAT", "COPY"}
  /\ Started => group \subseteq Targets[Node] /\ files \subseteq Targets[Node]
  /\ tries \in [Addons -> Nat]
  /\ posts \subseteq [addon : Addons, status : Statuses, sent : BOOLEAN]
  /\ \A n \in Nodes : copies[n] \in [Targets[n] -> Nat]
  /\ copies = [n \in Nodes |-> copies[n]]
  /\ requests \subseteq [node : Nodes, addon : Addons, status : Final, sent : BOOLEAN,
                         verdict : {"NONE", "SUCCESS", "FAILURE"},
                         concluded : BOOLEAN, fails : BOOLEAN]
  /\ \A r \in requests : r.addon \in Targets[r.node]
  /\ queued \in [first : Nat, again : Nat]
  /\ saving \in [JobRows -> Nat]
  /\ asking \in Nat /\ asked \in Nat

\* A node whose turn has not come is as it was created.
NotYet(n) ==
  /\ \A a \in Targets[n] : target[n][a] \notin Final /\ copies[n][a] = 0
  /\ \A r \in requests : r.node # n

Waiting ==
  /\ \A i, j \in 1 .. Len(chain) : chain[i] = chain[j] => i = j
  /\ \A i \in 1 .. Len(chain) : i > 1 \/ stage = "STAT" => NotYet(chain[i])

\* Copy requests are made for one add-on of the group at a time, and WaterButler
\* may carry out those that were counted.
Attempts ==
  /\ ~Started \/ stage = "STAT" => posts = {} /\ tries = [a \in Addons |-> 0]
  /\ \A p \in posts : p.addon \in group
  /\ \A p, q \in posts : p.addon = q.addon => p = q
  /\ Started /\ stage = "COPY" =>
       \A a \in group : copies[Node][a] <= tries[a] /\ tries[a] <= MaxRetries
  /\ \A n \in Nodes : \A a \in Targets[n] : copies[n][a] <= MaxRetries + 1

SuccessIsReported == Succeeding => AllReported

\* The inductive invariant, whether copy requests time out or not.
Inv ==
  /\ Types
  /\ Waiting
  /\ Attempts
  /\ SuccessIsReported

-----------------------------------------------------------------------------
\* While no copy request times out

\* A target goes through group, copy and report once.
Untouched(n, a) ==
  /\ target[n][a] \notin Final
  /\ \A r \in requests : ~(r.node = n /\ r.addon = a)

OneCopy ==
  /\ \A n \in Nodes : \A a \in Targets[n] :
       copies[n][a] > 0 => copies[n][a] = 1 /\ Untouched(n, a)
  /\ \A r \in requests :
       /\ target[r.node][r.addon] \notin Final
       /\ \A s \in requests : s.node = r.node /\ s.addon = r.addon => s = r
  /\ Started /\ stage = "COPY" =>
       \A a \in group : copies[Node][a] = 0 /\ Untouched(Node, a)

Complete(n) == \A a \in Targets[n] : target[n][a] = "SUCCESS"

\* A verdict of success rests on the targets of the job, wherever it is kept.
VerdictsAreTrue ==
  /\ \A n \in Nodes : job[n].status = "SUCCESS" => job[n].done /\ Complete(n)
  /\ \A r \in requests : r.verdict = "SUCCESS" =>
       r.status = "SUCCESS" /\ \A a \in Targets[r.node] \ {r.addon} : target[r.node][a] = "SUCCESS"
  /\ \A row \in JobRows : saving[row] > 0 /\ row.status = "SUCCESS" => row.done /\ Complete(Root)

\* Once archive_success is queued at most one request is open, which has decided
\* so; and the archive of the root is finished, or will be with that request.
WritesRoot(r) == Root \in Written(r.node, r.verdict)

Finishing(done) == done \/ TreeFinished(target) \/ \E r \in requests : WritesRoot(r)

LastRequest ==
  Succeeding =>
    /\ \A r, s \in requests : r = s /\ ~r.fails
    /\ Finishing(job[Root].done)
    /\ \A row \in JobRows : saving[row] > 0 => Finishing(row.done)

\* What archive_success saved stays.
SentStays ==
  asking > 0 \/ asked > 0 => sent /\ \A r \in requests : ~WritesRoot(r)

OnceInv ==
  /\ OneCopy
  /\ VerdictsAreTrue
  /\ LastRequest
  /\ SentStays

-----------------------------------------------------------------------------
\* Operators

LEMMA VerdictIs ==
  ASSUME NEW n \in Nodes, NEW st, NEW tg
  PROVE  /\ Verdict(n, st, tg) \in {"NONE", "SUCCESS", "FAILURE"}
         /\ Verdict(n, st, tg) # "NONE" => ~Pending(n, tg)
         /\ Verdict(n, st, tg) = "SUCCESS" => \A a \in Targets[n] : tg[n][a] = "SUCCESS"
BY DEF Verdict, Pending

LEMMA WrittenIs ==
  ASSUME NEW n \in Nodes, NEW v \in {"NONE", "SUCCESS", "FAILURE"}
  PROVE  /\ Written(n, v) \subseteq Nodes
         /\ n \in Written(n, v) <=> v # "NONE"
         /\ v # "FAILURE" => Written(n, v) \subseteq {n}
  BY TreeAssumption DEF Written

LEMMA SavedIs ==
  ASSUME NEW n \in Nodes, NEW v \in {"NONE", "SUCCESS", "FAILURE"}, NEW jb \in [Nodes -> JobRows]
  PROVE  /\ Saved(n, v, jb) \in [Nodes -> JobRows]
         /\ \A m \in Nodes :
              /\ m \notin Written(n, v) => Saved(n, v, jb)[m] = jb[m]
              /\ m \in Written(n, v) =>
                   /\ Saved(n, v, jb)[m].status = "SUCCESS" => m = n /\ v = "SUCCESS"
                   /\ Saved(n, v, jb)[m].status = "SUCCESS" => Saved(n, v, jb)[m].done
                   /\ jb[m].done => Saved(n, v, jb)[m].done
                   /\ m = n => Saved(n, v, jb)[m].done
<1>1. \A m \in Nodes :
        /\ m \notin Written(n, v) => Saved(n, v, jb)[m] = jb[m]
        /\ m \in Written(n, v) /\ m = n => Saved(n, v, jb)[m] = [status |-> v, done |-> TRUE]
        /\ m \in Written(n, v) /\ m # n =>
             Saved(n, v, jb)[m] = [jb[m] EXCEPT !.status = "FAILURE"]
  BY DEF Saved
<1>2. n \in Written(n, v) => v \in {"SUCCESS", "FAILURE"}
  BY WrittenIs
<1>3. ASSUME NEW m \in Nodes PROVE Saved(n, v, jb)[m] \in JobRows
  <2>1. CASE m \notin Written(n, v)
    BY <1>1, <2>1
  <2>2. CASE m \in Written(n, v) /\ m = n
    <3>1. v \in Statuses
      BY <1>2, <2>2 DEF Statuses
    <3>2. [status |-> v, done |-> TRUE] \in JobRows
      BY <3>1 DEF JobRows
    <3> QED  BY <1>1, <2>2, <3>2
  <2>3. CASE m \in Written(n, v) /\ m # n
    <3>1. [jb[m] EXCEPT !.status = "FAILURE"] \in JobRows
      BY DEF JobRows, Statuses
    <3> QED  BY <1>1, <2>3, <3>1
  <2> QED  BY <2>1, <2>2, <2>3
<1>4. Saved(n, v, jb) = [m \in Nodes |-> Saved(n, v, jb)[m]]
  BY DEF Saved
<1> QED
  BY <1>1, <1>2, <1>3, <1>4 DEF JobRows

LEMMA OnFailureIs ==
  ASSUME NEW n, NEW jb, OnFailure(n, jb)
  PROVE  \/ sent' = sent /\ deleted' = deleted
         \/ ~sent /\ sent' = TRUE /\ deleted' = TRUE
BY DEF OnFailure

\* A target is written.
LEMMA TargetIs ==
  ASSUME Types, NEW n \in Nodes, NEW a \in Targets[n], NEW st \in TargetStatuses
  PROVE  LET tg == [target EXCEPT ![n][a] = st] IN
         /\ \A m \in Nodes : \A b \in Targets[m] :
              tg[m][b] = IF m = n /\ b = a THEN st ELSE target[m][b]
         /\ \A m \in Nodes : tg[m] \in [Targets[m] -> TargetStatuses]
         /\ tg = [m \in Nodes |-> tg[m]]
BY DEF Types

\* A request writes its target.
LEMMA SeenIs ==
  ASSUME Types, NEW r \in requests
  PROVE  /\ \A n \in Nodes : \A a \in Targets[n] :
              TargetsSeen(r)[n][a] = IF n = r.node /\ a = r.addon THEN r.status ELSE target[n][a]
         /\ \A n \in Nodes : TargetsSeen(r)[n] \in [Targets[n] -> TargetStatuses]
         /\ TargetsSeen(r) = [n \in Nodes |-> TargetsSeen(r)[n]]
<1>1. PICK m \in Nodes, st \in TargetStatuses : m = r.node /\ st = r.status
  BY DEF Types, Final, TargetStatuses, Statuses
<1>2. PICK b \in Targets[m] : b = r.addon
  BY <1>1 DEF Types
<1> DEFINE tg == [target EXCEPT ![m][b] = st]
<1>3. /\ \A n \in Nodes : \A a \in Targets[n] :
          tg[n][a] = IF n = m /\ a = b THEN st ELSE target[n][a]
      /\ \A n \in Nodes : tg[n] \in [Targets[n] -> TargetStatuses]
      /\ tg = [n \in Nodes |-> tg[n]]
  BY TargetIs
<1>4. TargetsSeen(r) = tg
  BY <1>1, <1>2 DEF TargetsSeen
<1> HIDE DEF tg
<1> QED
  BY <1>1, <1>2, <1>3, <1>4

LEMMA CopiesAre ==
  ASSUME Types, NEW n \in Nodes, NEW a \in Targets[n], NEW i \in Nat
  PROVE  LET cp == [copies EXCEPT ![n][a] = i] IN
         /\ \A m \in Nodes : \A b \in Targets[m] :
              cp[m][b] = IF m = n /\ b = a THEN i ELSE copies[m][b]
         /\ \A m \in Nodes : cp[m] \in [Targets[m] -> Nat]
         /\ cp = [m \in Nodes |-> cp[m]]
BY DEF Types

\* An archive_success task is queued, or taken from its queue.
LEMMA QueueIs ==
  ASSUME Types, NEW d, Queue(d)
  PROVE  /\ queued' \in [first : Nat, again : Nat]
         /\ queued'.again = queued.again
         /\ queued'.first = IF d = "ASK" THEN queued.first + 1 ELSE queued.first
<1>1. queued \in [first : Nat, again : Nat]
  BY DEF Types
<1>2. CASE d = "ASK"
  <2>1. queued' = [queued EXCEPT !.first = queued.first + 1]
    BY <1>1, <1>2 DEF Queue
  <2> QED  BY <1>1, <1>2, <2>1
<1>3. CASE d # "ASK"
  BY <1>1, <1>3 DEF Queue
<1> QED  BY <1>2, <1>3

LEMMA TakenIs ==
  ASSUME Types, NEW try \in {"first", "again"}, Taken(try)
  PROVE  /\ queued' \in [first : Nat, again : Nat]
         /\ queued.first > 0 \/ queued.again > 0
<1>1. queued \in [first : Nat, again : Nat]
  BY DEF Types
<1>2. CASE try = "first"
  <2>1. queued.first > 0 /\ queued' = [queued EXCEPT !.first = queued.first - 1]
    BY <1>1, <1>2 DEF Taken
  <2> QED  BY <1>1, <2>1
<1>3. CASE try = "again"
  <2>1. queued.again > 0 /\ queued' = [queued EXCEPT !.again = queued.again - 1]
    BY <1>1, <1>3 DEF Taken
  <2> QED  BY <1>1, <2>1
<1> QED  BY <1>2, <1>3

\* What a step of the chain is about.
LEMMA NodeIs ==
  ASSUME Types, Started
  PROVE  /\ Node \in Nodes /\ chain \in Seq(Nodes) /\ Len(chain) \in Nat \ {0}
         /\ group \subseteq Targets[Node] /\ files \subseteq Targets[Node]
         /\ Targets[Node] \subseteq Addons
BY DEF Types, Node, Started, Addons

-----------------------------------------------------------------------------
\* Types

LEMMA TypesInit == Init => Types
<1> SUFFICES ASSUME Init PROVE Types
  OBVIOUS
<1>1. target = [n \in Nodes |-> [a \in Targets[n] |-> "INITIATED"]]
      /\ copies = [n \in Nodes |-> [a \in Targets[n] |-> 0]]
  BY DEF Init
<1>2. /\ \A n \in Nodes : target[n] \in [Targets[n] -> TargetStatuses]
      /\ \A n \in Nodes : copies[n] \in [Targets[n] -> Nat]
  BY <1>1 DEF TargetStatuses, Statuses
<1>3. /\ target = [n \in Nodes |-> target[n]]
      /\ copies = [n \in Nodes |-> copies[n]]
  BY <1>1
<1>4. job \in [Nodes -> JobRows] /\ queued \in [first : Nat, again : Nat] /\ saving \in [JobRows -> Nat]
  BY DEF Init, JobRows, Statuses
<1>5. Started => group \subseteq Targets[Node] /\ files \subseteq Targets[Node]
  BY DEF Init, Node
<1> QED
  BY <1>2, <1>3, <1>4, <1>5, TreeAssumption DEF Init, Types

LEMMA PostTypes ==
  ASSUME Types, NEW p \in posts, p.addon \in group, Started,
         CopyAccepted(p) \/ CopyRetried(p) \/ CopyFails(p)
  PROVE  Types'
<1>1. /\ Node \in Nodes /\ p.addon \in Targets[Node] /\ p.addon \in Addons
      /\ p.status \in Statuses /\ p.sent \in BOOLEAN
  BY NodeIs DEF Types
<1>2. copies' = copies \/ copies' = Copying(p.addon)
  BY DEF CopyAccepted, CopyRetried, CopyFails
<1>3. /\ \A n \in Nodes : copies'[n] \in [Targets[n] -> Nat]
      /\ copies' = [n \in Nodes |-> copies'[n]]
  <2>1. CASE copies' = copies
    BY <2>1 DEF Types
  <2>2. CASE copies' = Copying(p.addon)
    <3>1. copies[Node][p.addon] + 1 \in Nat
      BY <1>1 DEF Types
    <3>2. copies' = [copies EXCEPT ![Node][p.addon] = copies[Node][p.addon] + 1]
      BY <1>1, <2>2 DEF Copying, Types
    <3> QED  BY <1>1, <3>1, <3>2, CopiesAre
  <2> QED  BY <1>2, <2>1, <2>2
<1>4. CASE CopyAccepted(p)
  BY <1>3, <1>4 DEF CopyAccepted, Types, Started, Node, rows, success
<1>5. CASE CopyRetried(p)
  <2>1. tries' \in [Addons -> Nat]
    BY <1>1, <1>5 DEF CopyRetried, Types
  <2> QED
    BY <1>3, <1>5, <2>1 DEF CopyRetried, Types, Started, Node, rows, success
<1>6. CASE CopyFails(p)
  <2>1. /\ target' = [target EXCEPT ![Node][p.addon] = "FAILURE"]
        /\ posts' = posts \ {p} /\ group' = group \ {p.addon} /\ broken' = TRUE
        /\ job' = Saved(Node, Verdict(Node, p.status, target'), job)
        /\ (sent' = p.sent /\ deleted' = deleted) \/ OnFailure(Node, job')
        /\ UNCHANGED <<chain, stage, files, tries, requests, success>>
    BY <1>6 DEF CopyFails
  <2>2. /\ \A m \in Nodes : target'[m] \in [Targets[m] -> TargetStatuses]
        /\ target' = [m \in Nodes |-> target'[m]]
    <3>1. "FAILURE" \in TargetStatuses
      BY DEF TargetStatuses, Statuses
    <3> QED  BY <1>1, <2>1, <3>1, TargetIs
  <2>3. job' \in [Nodes -> JobRows]
    <3>1. Verdict(Node, p.status, target') \in {"NONE", "SUCCESS", "FAILURE"}
      BY <1>1, VerdictIs
    <3> QED  BY <1>1, <2>1, <3>1, SavedIs DEF Types
  <2>4. sent' \in BOOLEAN /\ deleted' \in BOOLEAN
    BY <1>1, <2>1, OnFailureIs DEF Types
  <2> QED
    BY <1>3, <2>1, <2>2, <2>3, <2>4 DEF Types, Started, Node, success
<1> QED
  BY <1>4, <1>5, <1>6

LEMMA ChainTypes ==
  ASSUME Types, Attempts, Chain
  PROVE  Types'
<1>1. ASSUME NEW a \in Addons, StatAddon(a) PROVE Types'
  BY <1>1 DEF StatAddon, InGroup, Types, Started, Node, rows, success
<1>2. ASSUME NEW a \in Addons, StatFails(a) PROVE Types'
  <2>1. PICK st \in {"INITIATED", "NETWORK_ERROR"} : target' = [target EXCEPT ![Node][a] = st]
    BY <1>2 DEF StatFails
  <2>2. Started /\ a \in group
    BY <1>2 DEF StatFails, InGroup, Started
  <2>3. /\ \A m \in Nodes : target'[m] \in [Targets[m] -> TargetStatuses]
        /\ target' = [m \in Nodes |-> target'[m]]
    BY <2>1, <2>2, NodeIs, TargetIs DEF TargetStatuses, Statuses
  <2>4. sent' \in BOOLEAN /\ deleted' \in BOOLEAN
    BY <1>2, OnFailureIs DEF StatFails, Types
  <2> QED
    BY <1>2, <2>3, <2>4 DEF StatFails, Types, Started, Node, success
<1>3. CASE ArchiveNode
  <2>1. Started
    BY <1>3 DEF ArchiveNode, Started
  <2>2. /\ target' = [target EXCEPT ![Node] =
                        [a \in Targets[Node] |-> IF a \in files THEN @[a] ELSE "SUCCESS"]]
        /\ job' = Saved(Node, Verdict(Node, job[Node].status, target'), job)
        /\ stage' = "COPY" /\ group' = files
        /\ UNCHANGED <<sent, deleted, chain, broken, files, tries, posts, copies, requests, success>>
    BY <1>3 DEF ArchiveNode
  <2>3. /\ \A m \in Nodes : target'[m] \in [Targets[m] -> TargetStatuses]
        /\ target' = [m \in Nodes |-> target'[m]]
    BY <2>1, <2>2, NodeIs DEF Types, TargetStatuses, Statuses
  <2>4. job' \in [Nodes -> JobRows]
    <3>1. Verdict(Node, job[Node].status, target') \in {"NONE", "SUCCESS", "FAILURE"}
      BY <2>1, NodeIs, VerdictIs
    <3> QED  BY <2>1, <2>2, <3>1, NodeIs, SavedIs DEF Types
  <2> QED
    BY <2>2, <2>3, <2>4 DEF Types, Started, Node, success
<1>4. CASE SizeExceeded
  <2>1. sent' \in BOOLEAN /\ deleted' \in BOOLEAN
    BY <1>4, OnFailureIs DEF SizeExceeded, Types
  <2> QED
    BY <1>4, <2>1 DEF SizeExceeded, Types, Started, Node, success
<1>5. ASSUME NEW a \in Addons, CopyStarts(a) PROVE Types'
  <2>1. job[Node].status \in Statuses /\ sent \in BOOLEAN
    BY <1>5, NodeIs DEF CopyStarts, InGroup, Started, Types, JobRows
  <2> QED
    BY <1>5, <2>1 DEF CopyStarts, Types, Started, Node, rows, success
<1>6. ASSUME NEW a \in Addons, AddonFails(a) PROVE Types'
  <2>1. sent' \in BOOLEAN /\ deleted' \in BOOLEAN
    BY <1>6, OnFailureIs DEF AddonFails, Types
  <2> QED
    BY <1>6, <2>1 DEF AddonFails, Types, Started, Node, success
<1>10. CASE ChainCallback
  <2>1. /\ Started
        /\ queued' \in {queued, [queued EXCEPT !.first = @ + 1]}
        /\ deleted' = (deleted \/ Decision(target, job, sent) = "FAIL")
        /\ chain' = Tail(chain)
        /\ stage' = "STAT"
        /\ group' = IF Len(chain) > 1 THEN Targets[chain[2]] ELSE {}
        /\ files' = {}
        /\ tries' = [a \in Addons |-> 0]
        /\ UNCHANGED <<target, job, sent, broken, posts, copies, requests, saving, asking, asked>>
    BY <1>10 DEF ChainCallback, Queue, Started
  <2>2. queued' \in [first : Nat, again : Nat] /\ tries' \in [Addons -> Nat]
    BY <2>1 DEF Types
  <2>3. deleted' \in BOOLEAN
    BY <2>1 DEF Types
  <2>4. chain' \in Seq(Nodes) /\ (Started' => group' \subseteq Targets[Node'] /\ files' \subseteq Targets[Node'])
    BY <2>1, NodeIs DEF Started, Node
  <2> QED
    BY <2>1, <2>2, <2>3, <2>4 DEF Types
<1>11. ASSUME NEW p \in posts, CopyAccepted(p) \/ CopyRetried(p) \/ CopyFails(p) PROVE Types'
  BY <1>11, PostTypes DEF Attempts
<1> QED
  BY <1>1, <1>2, <1>3, <1>4, <1>5, <1>6, <1>10, <1>11 DEF Chain

LEMMA ReportsTypes ==
  ASSUME Types, Reports
  PROVE  Types'
<1>1. ASSUME NEW n \in Nodes, NEW a \in Targets[n], copies[n][a] > 0,
             copies' = [copies EXCEPT ![n][a] = @ - 1]
      PROVE  /\ \A m \in Nodes : copies'[m] \in [Targets[m] -> Nat]
             /\ copies' = [m \in Nodes |-> copies'[m]]
  <2>1. copies[n][a] - 1 \in Nat
    BY <1>1 DEF Types
  <2>2. copies' = [copies EXCEPT ![n][a] = copies[n][a] - 1]
    BY <1>1 DEF Types
  <2> QED  BY <2>1, <2>2, CopiesAre
<1>2. ASSUME NEW n \in Nodes, NEW a \in Targets[n], NEW st \in Final, CallbackReads(n, a, st)
      PROVE  Types'
  <2> DEFINE v == Verdict(n, job[n].status, [target EXCEPT ![n][a] = st])
             r == [node |-> n, addon |-> a, status |-> st, sent |-> sent, verdict |-> v,
                   concluded |-> FALSE, fails |-> FALSE]
  <2>1. requests' = requests \cup {r} /\ UNCHANGED <<rows, celery, success>>
    BY <1>2 DEF CallbackReads
  <2>2. v \in {"NONE", "SUCCESS", "FAILURE"}
    BY VerdictIs
  <2> HIDE DEF v
  <2>3. r \in [node : Nodes, addon : Addons, status : Final, sent : BOOLEAN,
               verdict : {"NONE", "SUCCESS", "FAILURE"}, concluded : BOOLEAN, fails : BOOLEAN]
    BY <2>2 DEF Types, Addons
  <2>4. r.addon \in Targets[r.node]
    OBVIOUS
  <2> HIDE DEF r
  <2> QED
    BY <1>1, <1>2, <2>1, <2>3, <2>4 DEF CallbackReads, Types, Started, Node, rows, celery, success
<1>3. ASSUME NEW n \in Nodes, NEW a \in Targets[n], CallbackGone(n, a) PROVE Types'
  BY <1>1, <1>3 DEF CallbackGone, Types, Started, Node, rows, celery, success
<1>4. ASSUME NEW r \in requests, CallbackConcludes(r) PROVE Types'
  <2> DEFINE d == Decision(TargetsSeen(r), JobsSeen(r), SentSeen(r))
             s == [r EXCEPT !.concluded = TRUE, !.fails = (d = "FAIL")]
  <2>1. /\ Queue(d)
        /\ requests' = requests \ {r} \/ requests' = (requests \ {r}) \cup {s}
        /\ UNCHANGED <<rows, celery, copies, saving, asking, asked>>
    BY <1>4 DEF CallbackConcludes
  <2>2. s \in [node : Nodes, addon : Addons, status : Final, sent : BOOLEAN,
               verdict : {"NONE", "SUCCESS", "FAILURE"}, concluded : BOOLEAN, fails : BOOLEAN]
        /\ s.addon = r.addon /\ s.node = r.node
    BY DEF Types
  <2> HIDE DEF s
  <2>3. queued' \in [first : Nat, again : Nat]
    BY <2>1, QueueIs
  <2> HIDE DEF d
  <2> QED
    BY <2>1, <2>2, <2>3 DEF Types, Started, Node, rows, celery
<1>5. ASSUME NEW r \in requests, CallbackCommits(r) PROVE Types'
  <2>1. /\ r.node \in Nodes /\ r.addon \in Targets[r.node] /\ r.status \in TargetStatuses
        /\ r.verdict \in {"NONE", "SUCCESS", "FAILURE"} /\ r.sent \in BOOLEAN
    BY DEF Types, Final, TargetStatuses, Statuses
  <2>2. /\ requests' = requests \ {r}
        /\ job' = Saved(r.node, r.verdict, job)
        /\ sent' \in {r.sent, sent}
        /\ deleted' = (deleted \/ r.fails)
        /\ UNCHANGED <<celery, copies, success>>
    BY <1>5 DEF CallbackCommits, TargetsSeen, JobsSeen, SentSeen
  <2>3. /\ \A m \in Nodes : target'[m] \in [Targets[m] -> TargetStatuses]
        /\ target' = [m \in Nodes |-> target'[m]]
    BY <1>5, SeenIs DEF CallbackCommits
  <2>4. job' \in [Nodes -> JobRows]
    BY <2>1, <2>2, SavedIs DEF Types
  <2>5. sent' \in BOOLEAN /\ deleted' \in BOOLEAN
    BY <2>1, <2>2 DEF Types
  <2> QED
    BY <2>2, <2>3, <2>4, <2>5 DEF Types, Started, Node, celery, success
<1> QED
  BY <1>2, <1>3, <1>4, <1>5 DEF Reports, Final

LEMMA SuccessTypes ==
  ASSUME Types, Success
  PROVE  Types'
<1>1. ASSUME NEW try \in {"first", "again"}, Taken(try) PROVE queued' \in [first : Nat, again : Nat]
  BY <1>1, TakenIs
<1>2. ASSUME NEW n, OnFailure(n, job) PROVE sent' \in BOOLEAN /\ deleted' \in BOOLEAN
  BY <1>2, OnFailureIs DEF Types
<1>3. ASSUME NEW try \in {"first", "again"}, SuccessLoads(try) PROVE Types'
  <2>1. saving' \in [JobRows -> Nat]
    <3>1. job[Root] \in JobRows /\ saving \in [JobRows -> Nat]
      BY TreeAssumption DEF Types
    <3>2. PICK row \in JobRows : row = job[Root]
      BY <3>1
    <3>3. saving' \in {saving, [saving EXCEPT ![row] = saving[row] + 1]}
      BY <1>3, <3>1, <3>2 DEF SuccessLoads
    <3> QED  BY <3>1, <3>3
  <2> QED
    BY <1>1, <1>3, <2>1 DEF SuccessLoads, Types, Started, Node, rows, celery
<1>4. ASSUME NEW row \in JobRows, SuccessSaves(row) PROVE Types'
  <2>1. saving' \in [JobRows -> Nat]
    <3>1. saving \in [JobRows -> Nat] /\ saving[row] > 0
      BY <1>4 DEF SuccessSaves, Types
    <3>2. saving' = [saving EXCEPT ![row] = saving[row] - 1]
      BY <1>4, <3>1 DEF SuccessSaves
    <3> QED  BY <3>1, <3>2
  <2>2. job' \in [Nodes -> JobRows] /\ asking' \in Nat /\ sent' \in BOOLEAN
    <3>1. job' = [job EXCEPT ![Root] = row] /\ job \in [Nodes -> JobRows]
      BY <1>4 DEF SuccessSaves, Types
    <3>2. job' \in [Nodes -> JobRows]
      BY <3>1
    <3> QED  BY <1>4, <3>2 DEF SuccessSaves, Types
  <2> QED
    BY <1>4, <2>1, <2>2 DEF SuccessSaves, Types, Started, Node, celery
<1>5. CASE FilesMissing
  BY <1>5 DEF FilesMissing, Types, Started, Node, rows, celery
<1>6. ASSUME NEW try \in {"first", "again"}, SuccessFails(try) PROVE Types'
  BY <1>1, <1>2, <1>6 DEF SuccessFails, Types, Started, Node, celery
<1>7. CASE Ask
  BY <1>7 DEF Ask, Types, Started, Node, rows, celery
<1>8. CASE AskFails
  BY <1>2, <1>8 DEF AskFails, Types, Started, Node, celery
<1> QED
  BY <1>3, <1>4, <1>5, <1>6, <1>7, <1>8 DEF Success

LEMMA TypesStep ==
  ASSUME Types, Attempts, [Next]_vars
  PROVE  Types'
<1>1. CASE UNCHANGED vars
  BY <1>1 DEF vars, rows, celery, success, Types, Started, Node
<1> QED
  BY <1>1, ChainTypes, ReportsTypes, SuccessTypes DEF Next

-----------------------------------------------------------------------------
\* Nodes whose turn has not come

\* A node is touched only while the chain is at it, and only after it has been
\* measured, unless a request or a copy is under way for it.
LEMMA NotYetStays ==
  ASSUME Types, Attempts, Next, NEW n \in Nodes, NotYet(n),
         ~Started \/ n # Node \/ (stage = "STAT" /\ stage' = "STAT")
  PROVE  NotYet(n)'
<1> DEFINE Same == /\ \A a \in Targets[n] : target'[n][a] = target[n][a] \/ target'[n][a] \notin Final
                   /\ \A a \in Targets[n] : copies'[n][a] = copies[n][a]
                   /\ \A r \in requests' : r.node = n => \E s \in requests : s.node = n
<1>1. ASSUME Same PROVE NotYet(n)'
  BY <1>1 DEF NotYet
<1>2. ASSUME UNCHANGED <<target, copies, requests>> PROVE NotYet(n)'
  BY <1>2 DEF NotYet
<1>3. CASE Chain
  <2>1. ASSUME NEW a \in Addons, StatFails(a) PROVE NotYet(n)'
    <3>1. PICK st \in {"INITIATED", "NETWORK_ERROR"} : target' = [target EXCEPT ![Node][a] = st]
      BY <2>1 DEF StatFails
    <3>2. Started /\ a \in Targets[Node] /\ Node \in Nodes /\ st \in TargetStatuses \ Final
      BY <2>1, NodeIs DEF StatFails, InGroup, Started, TargetStatuses, Statuses, Final
    <3>3. \A b \in Targets[n] : target'[n][b] = target[n][b] \/ target'[n][b] \notin Final
      BY <3>1, <3>2, TargetIs
    <3> QED
      BY <1>1, <2>1, <3>3 DEF StatFails
  <2>2. CASE ArchiveNode
    <3>1. n # Node /\ Node \in Nodes
      BY <2>2, NodeIs DEF ArchiveNode, Started
    <3>2. target'[n] = target[n]
      BY <2>2, <3>1 DEF ArchiveNode, Types
    <3> QED
      BY <1>1, <2>2, <3>2 DEF ArchiveNode
  <2>3. ASSUME NEW p \in posts, CopyAccepted(p) \/ CopyRetried(p) \/ CopyFails(p) PROVE NotYet(n)'
    <3>1. Started /\ stage = "COPY" /\ n # Node /\ Node \in Nodes /\ p.addon \in Targets[Node]
      BY NodeIs DEF Attempts, Types
    <3>2. copies'[n] = copies[n]
      BY <2>3, <3>1 DEF CopyAccepted, CopyRetried, CopyFails, Copying, Types
    <3>3. target'[n] = target[n]
      BY <2>3, <3>1 DEF CopyAccepted, CopyRetried, CopyFails, rows, Types
    <3>4. requests' = requests
      BY <2>3 DEF CopyAccepted, CopyRetried, CopyFails
    <3> QED
      BY <1>1, <3>2, <3>3, <3>4
  <2>4. ASSUME NEW a \in Addons, StatAddon(a) \/ CopyStarts(a) \/ AddonFails(a) PROVE NotYet(n)'
    BY <1>2, <2>4 DEF StatAddon, CopyStarts, AddonFails, rows
  <2>5. CASE SizeExceeded \/ ChainCallback
    BY <1>2, <2>5 DEF SizeExceeded, ChainCallback
  <2> QED
    BY <1>3, <2>1, <2>2, <2>3, <2>4, <2>5 DEF Chain
<1>4. CASE Reports
  <2>1. ASSUME NEW m \in Nodes, NEW a \in Targets[m], NEW st \in Final, CallbackReads(m, a, st)
        PROVE  NotYet(n)'
    <3>1. m # n
      <4>1. copies[m][a] > 0
        BY <2>1 DEF CallbackReads
      <4> QED  BY <4>1 DEF NotYet
    <3>2. copies'[n] = copies[n]
      BY <2>1, <3>1 DEF CallbackReads, Types
    <3>3. \A r \in requests' : r \in requests \/ r.node = m
      BY <2>1 DEF CallbackReads
    <3> QED
      BY <1>1, <2>1, <3>1, <3>2, <3>3 DEF CallbackReads, rows
  <2>2. ASSUME NEW m \in Nodes, NEW a \in Targets[m], CallbackGone(m, a) PROVE NotYet(n)'
    <3>1. m # n
      <4>1. copies[m][a] > 0
        BY <2>2 DEF CallbackGone
      <4> QED  BY <4>1 DEF NotYet
    <3>2. copies'[n] = copies[n]
      BY <2>2, <3>1 DEF CallbackGone, Types
    <3> QED
      BY <1>1, <2>2, <3>2 DEF CallbackGone, rows
  <2>3. ASSUME NEW r \in requests, CallbackConcludes(r) PROVE NotYet(n)'
    <3>1. \A s \in requests' : s \in requests \/ s.node = r.node
      BY <2>3 DEF CallbackConcludes, Types
    <3> QED
      BY <1>1, <2>3, <3>1 DEF CallbackConcludes, rows
  <2>4. ASSUME NEW r \in requests, CallbackCommits(r) PROVE NotYet(n)'
    <3>1. r.node # n /\ r.node \in Nodes
      BY DEF NotYet, Types
    <3>2. target'[n] = target[n]
      BY <2>4, <3>1 DEF CallbackCommits, TargetsSeen, Types
    <3> QED
      BY <1>1, <2>4, <3>2 DEF CallbackCommits
  <2> QED
    BY <1>4, <2>1, <2>2, <2>3, <2>4 DEF Reports, Final
<1>5. CASE Success
  BY <1>2, <1>5 DEF Success, SuccessLoads, SuccessFails, SuccessSaves, FilesMissing, Ask, AskFails, rows
<1> QED
  BY <1>3, <1>4, <1>5 DEF Next

\* How a step moves the chain on.
LEMMA ChainMoves ==
  ASSUME Next
  PROVE  \/ chain' = chain /\ stage' = stage
         \/ chain' = chain /\ chain # <<>> /\ stage = "STAT" /\ stage' = "COPY" /\ ArchiveNode
         \/ chain # <<>> /\ chain' = Tail(chain) /\ stage = "COPY" /\ stage' = "STAT" /\ ChainCallback
<1>1. CASE Chain
  BY <1>1 DEF Chain, StatAddon, StatFails, ArchiveNode, SizeExceeded, CopyStarts, AddonFails,
              CopyAccepted, CopyRetried, CopyFails, ChainCallback
<1>2. CASE Reports
  BY <1>2 DEF Reports, CallbackReads, CallbackGone, CallbackConcludes, CallbackCommits, celery
<1>3. CASE Success
  BY <1>3 DEF Success, SuccessLoads, SuccessFails, SuccessSaves, FilesMissing, Ask, AskFails, celery
<1> QED
  BY <1>1, <1>2, <1>3 DEF Next

LEMMA WaitingStep ==
  ASSUME Types, Waiting, Attempts, Next
  PROVE  Waiting'
<1>1. chain \in Seq(Nodes) /\ Len(chain) \in Nat /\ \A i \in 1 .. Len(chain) : chain[i] \in Nodes
  BY DEF Types
<1>2. CASE chain' = chain
  <2>1. ASSUME NEW i \in 1 .. Len(chain), i > 1 \/ stage' = "STAT" PROVE NotYet(chain[i])'
    <3>1. NotYet(chain[i]) /\ Started
      BY <1>1, <1>2, <2>1, ChainMoves DEF Waiting, Started
    <3>2. chain[i] # Node \/ (stage = "STAT" /\ stage' = "STAT")
      <4>1. CASE i > 1
        BY <1>1, <2>1, <4>1 DEF Waiting, Node
      <4>2. CASE ~(i > 1)
        BY <1>1, <1>2, <2>1, <4>2, ChainMoves
      <4> QED  BY <4>1, <4>2
    <3> DEFINE n == chain[i]
    <3>3. n \in Nodes /\ NotYet(n) /\ (~Started \/ n # Node \/ (stage = "STAT" /\ stage' = "STAT"))
      BY <1>1, <3>1, <3>2
    <3> HIDE DEF n
    <3>4. PICK m : m = n
      OBVIOUS
    <3>5. NotYet(m)'
      BY <3>3, <3>4, NotYetStays
    <3> QED  BY <1>2, <3>4, <3>5 DEF n, NotYet
  <2> QED
    BY <1>2, <2>1 DEF Waiting
<1>3. CASE chain # <<>> /\ chain' = Tail(chain) /\ stage = "COPY" /\ stage' = "STAT"
  <2>1. Len(chain') = Len(chain) - 1 /\ \A i \in 1 .. Len(chain') : chain'[i] = chain[i + 1]
    BY <1>1, <1>3
  <2>2. ASSUME NEW n \in Nodes, NEW i \in 1 .. Len(chain), i > 1, n = chain[i] PROVE NotYet(n)'
    <3>1. NotYet(n) /\ n # Node
      BY <1>1, <2>2 DEF Waiting, Node
    <3> QED  BY <3>1, NotYetStays
  <2>3. ASSUME NEW i \in 1 .. Len(chain') PROVE NotYet(chain[i])'
    <3>1. i + 1 \in 1 .. Len(chain) /\ i + 1 > 1
      BY <1>1, <2>1
    <3>2. PICK n \in Nodes : n = chain[i + 1] /\ n = chain'[i]
      BY <1>1, <2>1, <3>1
    <3>3. NotYet(n)'
      BY <2>2, <3>1, <3>2
    <3> QED  BY <3>2, <3>3 DEF NotYet
  <2>4. ASSUME NEW i \in 1 .. Len(chain'), NEW j \in 1 .. Len(chain'), chain'[i] = chain'[j]
        PROVE  i = j
    <3>1. i + 1 \in 1 .. Len(chain) /\ j + 1 \in 1 .. Len(chain) /\ chain[i + 1] = chain[j + 1]
      BY <1>1, <2>1, <2>4
    <3>2. i + 1 = j + 1
      BY <3>1 DEF Waiting
    <3> QED  BY <3>2
  <2> QED
    BY <2>3, <2>4 DEF Waiting
<1> QED
  BY <1>2, <1>3, ChainMoves

-----------------------------------------------------------------------------
\* Attempts

\* An attempt to copy an add-on ends.
LEMMA AttemptEnds ==
  ASSUME Types, Attempts, NEW p \in posts, CopyAccepted(p) \/ CopyRetried(p) \/ CopyFails(p)
  PROVE  Attempts'
<1>1. /\ Started /\ stage = "COPY" /\ p.addon \in group
      /\ Node \in Nodes /\ p.addon \in Targets[Node] /\ p.addon \in Addons
      /\ group \subseteq Targets[Node] /\ group \subseteq Addons
      /\ copies[Node][p.addon] \in Nat /\ tries[p.addon] \in Nat /\ MaxRetries \in Nat
      /\ copies[Node][p.addon] <= tries[p.addon] /\ tries[p.addon] <= MaxRetries
  BY NodeIs, RetriesAssumption DEF Attempts, Types
<1>2. /\ posts' = posts \ {p} /\ chain' = chain /\ stage' = stage /\ Node' = Node /\ Started'
      /\ copies' \in {copies, Copying(p.addon)}
      /\ \/ group' = group \ {p.addon} /\ tries' = tries
         \/ /\ group' = group /\ tries[p.addon] < MaxRetries
            /\ tries' = [tries EXCEPT ![p.addon] = @ + 1]
  BY <1>1 DEF CopyAccepted, CopyRetried, CopyFails, Node, Started
<1>3. \A n \in Nodes : \A a \in Targets[n] :
        /\ copies'[n][a] \in Nat
        /\ n # Node \/ a # p.addon => copies'[n][a] = copies[n][a]
        /\ copies'[Node][p.addon] <= copies[Node][p.addon] + 1
  BY <1>1, <1>2 DEF Copying, Types
<1>4. \A a \in group' : a # p.addon => tries'[a] = tries[a]
  BY <1>1, <1>2 DEF Types
<1>5. \A n \in Nodes : \A a \in Targets[n] : copies'[n][a] <= MaxRetries + 1
  <2>1. copies'[Node][p.addon] <= MaxRetries + 1
    BY <1>1, <1>3 DEF Types
  <2> QED  BY <1>3, <2>1 DEF Attempts
<1>6. ASSUME NEW a \in group' PROVE copies'[Node][a] <= tries'[a] /\ tries'[a] <= MaxRetries
  <2>1. CASE a = p.addon
    <3>1. tries[p.addon] < MaxRetries /\ tries'[a] = tries[p.addon] + 1
      BY <1>1, <1>2, <1>6, <2>1 DEF Types
    <3> QED  BY <1>1, <1>3, <2>1, <3>1
  <2>2. CASE a # p.addon
    <3>1. a \in group /\ a \in Targets[Node] /\ tries'[a] = tries[a] /\ copies'[Node][a] = copies[Node][a]
      BY <1>1, <1>2, <1>3, <1>4, <1>6, <2>2
    <3> QED  BY <1>1, <3>1 DEF Attempts
  <2> QED  BY <2>1, <2>2
<1>7. \A q \in posts' : q.addon \in group' /\ \A t \in posts' : q.addon = t.addon => q = t
  BY <1>2 DEF Attempts
<1> QED
  BY <1>1, <1>2, <1>5, <1>6, <1>7 DEF Attempts

LEMMA AttemptsStep ==
  ASSUME Types, Waiting, Attempts, Next
  PROVE  Attempts'
<1>1. ASSUME UNCHANGED <<copies, celery>> PROVE Attempts'
  BY <1>1 DEF Attempts, celery, Started, Node
<1>2. CASE Chain
  <2>1. ASSUME NEW a \in Addons, StatAddon(a) \/ StatFails(a) PROVE Attempts'
    BY <2>1 DEF StatAddon, StatFails, InGroup, Attempts, Started, Node
  <2>2. CASE SizeExceeded
    BY <2>2 DEF SizeExceeded, Attempts, Started, Node
  <2>3. CASE ArchiveNode
    <3>1. /\ Started /\ stage = "STAT" /\ stage' = "COPY" /\ group' = files
          /\ UNCHANGED <<chain, tries, posts, copies>>
      BY <2>3 DEF ArchiveNode, Started
    <3>2. NotYet(Node)
      BY <3>1, NodeIs DEF Waiting, Node
    <3>3. posts = {} /\ tries = [a \in Addons |-> 0]
      BY <3>1 DEF Attempts
    <3>4. ASSUME NEW a \in group' PROVE copies[Node][a] <= tries[a] /\ tries[a] <= MaxRetries
      <4>1. copies[Node][a] = 0 /\ tries[a] = 0
        BY <3>1, <3>2, <3>3, NodeIs DEF NotYet
      <4> QED  BY <4>1, RetriesAssumption
    <3> QED
      BY <3>1, <3>3, <3>4 DEF Attempts, Started, Node
  <2>4. ASSUME NEW a \in Addons, CopyStarts(a) PROVE Attempts'
    <3>1. PICK p : p.addon = a /\ posts' = posts \cup {p}
      BY <2>4 DEF CopyStarts
    <3>2. Started /\ stage = "COPY" /\ a \in group /\ \A q \in posts : q.addon # a
      BY <2>4 DEF CopyStarts, InGroup, Started
    <3>3. UNCHANGED <<chain, stage, group, tries, copies>>
      BY <2>4 DEF CopyStarts
    <3> QED
      BY <3>1, <3>2, <3>3 DEF Attempts, Started, Node
  <2>5. ASSUME NEW a \in Addons, AddonFails(a) PROVE Attempts'
    BY <2>5 DEF AddonFails, InGroup, Attempts, Started, Node
  <2>6. ASSUME NEW p \in posts, CopyAccepted(p) \/ CopyRetried(p) \/ CopyFails(p) PROVE Attempts'
    BY <2>6, AttemptEnds
  <2>7. CASE ChainCallback
    <3>1. posts = {}
      BY <2>7 DEF ChainCallback, Attempts
    <3> QED
      BY <2>7, <3>1 DEF ChainCallback, Attempts
  <2> QED
    BY <1>2, <2>1, <2>2, <2>3, <2>4, <2>5, <2>6, <2>7 DEF Chain
<1>3. CASE Reports
  <2>1. ASSUME NEW n \in Nodes, NEW a \in Targets[n], copies[n][a] > 0,
               copies' = [copies EXCEPT ![n][a] = @ - 1], UNCHANGED celery
        PROVE  Attempts'
    <3>1. copies[n][a] \in Nat /\ copies'[n][a] = copies[n][a] - 1
      BY <2>1 DEF Types
    <3>2. \A m \in Nodes : \A b \in Targets[m] : m # n \/ b # a => copies'[m][b] = copies[m][b]
      BY <2>1 DEF Types
    <3>3. \A m \in Nodes : \A b \in Targets[m] : copies'[m][b] <= MaxRetries + 1
      <4>1. copies'[n][a] <= MaxRetries + 1
        BY <3>1, RetriesAssumption DEF Attempts
      <4> QED  BY <3>2, <4>1 DEF Attempts
    <3>4. ASSUME Started, stage = "COPY", NEW b \in group PROVE copies'[Node][b] <= tries[b]
      <4>1. Node \in Nodes /\ b \in Targets[Node] /\ tries[b] \in Nat /\ copies[Node][b] <= tries[b]
        BY <3>4, NodeIs DEF Attempts, Types
      <4>2. CASE Node = n /\ b = a
        BY <3>1, <4>1, <4>2
      <4>3. CASE Node # n \/ b # a
        BY <3>2, <4>1, <4>3
      <4> QED  BY <4>2, <4>3
    <3> QED
      BY <2>1, <3>3, <3>4 DEF Attempts, celery, Started, Node
  <2>2. ASSUME NEW r \in requests, CallbackConcludes(r) \/ CallbackCommits(r) PROVE Attempts'
    BY <1>1, <2>2 DEF CallbackConcludes, CallbackCommits
  <2> QED
    BY <1>3, <2>1, <2>2 DEF Reports, CallbackReads, CallbackGone
<1>4. CASE Success
  BY <1>1, <1>4 DEF Success, SuccessLoads, SuccessFails, SuccessSaves, FilesMissing, Ask, AskFails
<1> QED
  BY <1>2, <1>3, <1>4 DEF Next

-----------------------------------------------------------------------------
\* What the contributors are asked about

\* A node that has not been measured has a target without an outcome.
LEMMA UnreportedAhead ==
  ASSUME Types, Waiting, AllReported, Started
  PROVE  stage = "COPY"
<1>1. Node \in Nodes /\ Len(chain) \in Nat \ {0} /\ chain[1] = Node
  BY NodeIs DEF Node
<1>2. PICK a \in Targets[Node] : TRUE
  BY <1>1, TreeAssumption
<1>3. ~NotYet(Node)
  BY <1>1, <1>2 DEF NotYet, AllReported, Reported
<1>4. stage = "STAT" => NotYet(chain[1])
  BY <1>1 DEF Waiting
<1> QED
  BY <1>3, <1>4 DEF Types, Node

\* An outcome that was reported stays so.
LEMMA ReportedStays ==
  ASSUME Types, Waiting, Attempts, AllReported, Next
  PROVE  AllReported'
<1>1. ASSUME \A n \in Nodes : \A a \in Targets[n] : target[n][a] \in Final => target'[n][a] \in Final,
             \A r \in requests : r.concluded =>
               \/ \E s \in requests' : s.node = r.node /\ s.addon = r.addon /\ s.concluded
               \/ target'[r.node][r.addon] \in Final
      PROVE  AllReported'
  BY <1>1 DEF AllReported, Reported
<1>2. ASSUME UNCHANGED <<target, requests>> PROVE AllReported'
  BY <1>2 DEF AllReported, Reported
<1>3. CASE Chain
  <2>1. ASSUME NEW a \in Addons, StatFails(a) PROVE FALSE
    BY <2>1, UnreportedAhead DEF StatFails, InGroup, Started
  <2>2. CASE ArchiveNode
    BY <2>2, UnreportedAhead DEF ArchiveNode, Started
  <2>3. ASSUME NEW p \in posts, CopyFails(p) PROVE AllReported'
    <3>1. Node \in Nodes /\ p.addon \in Targets[Node]
      BY NodeIs DEF Attempts, Types
    <3>2. target' = [target EXCEPT ![Node][p.addon] = "FAILURE"] /\ requests' = requests
      BY <2>3 DEF CopyFails
    <3>3. \A n \in Nodes : \A a \in Targets[n] : target[n][a] \in Final => target'[n][a] \in Final
      BY <3>1, <3>2, TargetIs DEF Final, TargetStatuses, Statuses
    <3> QED  BY <1>1, <3>2, <3>3
  <2> QED
    BY <1>2, <1>3, <2>1, <2>2, <2>3
    DEF Chain, StatAddon, SizeExceeded, CopyStarts, CopyAccepted, CopyRetried, AddonFails,
        ChainCallback, rows
<1>4. CASE Reports
  <2>1. ASSUME NEW n \in Nodes, NEW a \in Targets[n], NEW st \in Final, CallbackReads(n, a, st)
        PROVE  AllReported'
    BY <1>1, <2>1 DEF CallbackReads, rows
  <2>2. ASSUME NEW n \in Nodes, NEW a \in Targets[n], CallbackGone(n, a) PROVE AllReported'
    BY <1>2, <2>2 DEF CallbackGone, rows
  <2>3. ASSUME NEW r \in requests, CallbackConcludes(r) PROVE AllReported'
    <3>1. ~r.concluded /\ target' = target /\ requests \ {r} \subseteq requests'
      BY <2>3 DEF CallbackConcludes, rows
    <3> QED  BY <1>1, <3>1
  <2>4. ASSUME NEW r \in requests, CallbackCommits(r) PROVE AllReported'
    <3>1. r.node \in Nodes /\ r.addon \in Targets[r.node] /\ r.status \in Final
      BY DEF Types
    <3>2. requests' = requests \ {r} /\ target' = [target EXCEPT ![r.node][r.addon] = r.status]
      BY <2>4 DEF CallbackCommits, TargetsSeen
    <3>3. \A n \in Nodes : \A a \in Targets[n] :
            target'[n][a] = IF n = r.node /\ a = r.addon THEN r.status ELSE target[n][a]
      BY <2>4, SeenIs DEF CallbackCommits
    <3> QED  BY <1>1, <3>1, <3>2, <3>3
  <2> QED
    BY <1>4, <2>1, <2>2, <2>3, <2>4 DEF Reports, Final
<1>5. CASE Success
  BY <1>2, <1>5 DEF Success, SuccessLoads, SuccessFails, SuccessSaves, FilesMissing, Ask, AskFails, rows
<1> QED
  BY <1>3, <1>4, <1>5 DEF Next

\* archive_success is queued by a callback that finds the tree finished.
LEMMA FinishedIsReported ==
  ASSUME NEW tg, TreeFinished(tg)
  PROVE  \A n \in Nodes : \A a \in Targets[n] : tg[n][a] \in Final
BY DEF TreeFinished, Pending, Final

LEMMA SuccessIsReportedStep ==
  ASSUME Types, Waiting, Attempts, SuccessIsReported, Next
  PROVE  SuccessIsReported'
<1>1. CASE Succeeding
  BY <1>1, ReportedStays DEF SuccessIsReported
<1>2. CASE ~Succeeding
  <2>1. /\ ~(queued.first > 0 \/ queued.again > 0) /\ \A row \in JobRows : ~(saving[row] > 0)
        /\ ~(asking > 0) /\ ~(asked > 0)
    BY <1>2 DEF Succeeding
  <2>2. ASSUME UNCHANGED success PROVE ~Succeeding'
    BY <2>1, <2>2 DEF success, Succeeding
  <2>3. ASSUME NEW d, Queue(d), d # "ASK", UNCHANGED <<saving, asking, asked>> PROVE ~Succeeding'
    BY <2>1, <2>3 DEF Queue, Succeeding
  <2>4. CASE Chain
    <3>1. ASSUME ChainCallback PROVE SuccessIsReported'
      <4> DEFINE d == Decision(target, job, sent)
      <4>1. Queue(d) /\ UNCHANGED <<target, requests, saving, asking, asked>>
        BY <3>1 DEF ChainCallback
      <4>2. d = "ASK" => TreeFinished(target)
        BY DEF Decision
      <4> HIDE DEF d
      <4>3. CASE d = "ASK"
        <5>1. AllReported'
          BY <4>1, <4>2, <4>3, FinishedIsReported DEF AllReported, Reported
        <5> QED  BY <5>1 DEF SuccessIsReported
      <4>4. CASE d # "ASK"
        BY <2>3, <4>1, <4>4 DEF SuccessIsReported
      <4> QED  BY <4>3, <4>4
    <3> QED
      BY <2>2, <2>4, <3>1
      DEF Chain, StatAddon, StatFails, ArchiveNode, SizeExceeded, CopyStarts, AddonFails,
          CopyAccepted, CopyRetried, CopyFails, SuccessIsReported
  <2>5. CASE Reports
    <3>1. ASSUME NEW r \in requests, CallbackConcludes(r) PROVE SuccessIsReported'
      <4> DEFINE d == Decision(TargetsSeen(r), JobsSeen(r), SentSeen(r))
      <4>1. Queue(d) /\ UNCHANGED <<target, saving, asking, asked>>
        BY <3>1 DEF CallbackConcludes, rows
      <4>2. d = "ASK" => TreeFinished(TargetsSeen(r))
        BY DEF Decision
      <4>3. d = "ASK" => \E s \in requests' : s.node = r.node /\ s.addon = r.addon /\ s.concluded
        <5>1. [r EXCEPT !.concluded = TRUE, !.fails = (d = "FAIL")].concluded = TRUE
              /\ [r EXCEPT !.concluded = TRUE, !.fails = (d = "FAIL")].node = r.node
              /\ [r EXCEPT !.concluded = TRUE, !.fails = (d = "FAIL")].addon = r.addon
          BY DEF Types
        <5> QED  BY <3>1, <5>1 DEF CallbackConcludes
      <4> HIDE DEF d
      <4>4. CASE d = "ASK"
        <5>1. r.node \in Nodes /\ r.addon \in Targets[r.node] /\ r.status \in TargetStatuses
          BY DEF Types, Final, TargetStatuses, Statuses
        <5>2. \A n \in Nodes : \A a \in Targets[n] :
                TargetsSeen(r)[n][a] = IF n = r.node /\ a = r.addon THEN r.status ELSE target[n][a]
          BY SeenIs
        <5>3. \A n \in Nodes : \A a \in Targets[n] : TargetsSeen(r)[n][a] \in Final
          BY <4>2, <4>4, FinishedIsReported
        <5>4. AllReported'
          BY <4>1, <4>3, <4>4, <5>2, <5>3 DEF AllReported, Reported
        <5> QED  BY <5>4 DEF SuccessIsReported
      <4>5. CASE d # "ASK"
        BY <2>3, <4>1, <4>5 DEF SuccessIsReported
      <4> QED  BY <4>4, <4>5
    <3> QED
      BY <2>2, <2>5, <3>1 DEF Reports, CallbackReads, CallbackGone, CallbackCommits, SuccessIsReported
  <2>6. CASE Success
    <3>1. ASSUME NEW try \in {"first", "again"}, Taken(try) PROVE FALSE
      BY <2>1, <3>1, TakenIs
    <3> QED
      BY <2>1, <2>6, <3>1 DEF Success, SuccessLoads, SuccessFails, SuccessSaves, FilesMissing, Ask, AskFails
  <2> QED
    BY <2>4, <2>5, <2>6 DEF Next
<1> QED
  BY <1>1, <1>2

-----------------------------------------------------------------------------
\* The inductive invariant

LEMMA InvInit == Init => Inv
<1> SUFFICES ASSUME Init PROVE Inv
  OBVIOUS
<1>1. Types
  BY TypesInit
<1>2. \A n \in Nodes : NotYet(n)
  BY DEF Init, NotYet, Final
<1>3. Waiting
  BY <1>2, TreeAssumption DEF Init, Waiting
<1>4. Attempts
  BY RetriesAssumption DEF Init, Attempts
<1>5. ~Succeeding
  BY DEF Init, Succeeding, JobRows
<1> QED
  BY <1>1, <1>3, <1>4, <1>5 DEF Inv, SuccessIsReported

LEMMA InvStep == Inv /\ [Next]_vars => Inv'
<1> SUFFICES ASSUME Inv, [Next]_vars PROVE Inv'
  OBVIOUS
<1>1. Types'
  BY TypesStep DEF Inv
<1>2. CASE Next
  BY <1>1, <1>2, WaitingStep, AttemptsStep, SuccessIsReportedStep DEF Inv
<1>3. CASE UNCHANGED vars
  BY <1>1, <1>3 DEF vars, rows, celery, success, Inv, Waiting, NotYet, Attempts, Started, Node,
                    SuccessIsReported, Succeeding, AllReported, Reported
<1> QED
  BY <1>2, <1>3

THEOREM Invariant == Spec => []Inv
BY InvInit, InvStep, PTL DEF Spec

\* The variables keep their types, and WaterButler is never asked for a copy
\* more often than the retries allow, whether or not requests time out.
THEOREM TypeCorrect == Spec => []TypeOK
<1>1. ASSUME Inv PROVE TypeOK
  <2>1. target \in [Nodes -> UNION {[Targets[n] -> Statuses \cup {"NETWORK_ERROR"}] : n \in Nodes}]
    <3>1. \A n \in Nodes : target[n] \in UNION {[Targets[m] -> Statuses \cup {"NETWORK_ERROR"}] : m \in Nodes}
      BY <1>1 DEF Inv, Types, TargetStatuses
    <3> QED  BY <1>1, <3>1 DEF Inv, Types
  <2>2. \A n \in Nodes : \A a \in Targets[n] : copies[n][a] \in 0 .. MaxRetries + 1
    <3>1. ASSUME NEW n \in Nodes, NEW a \in Targets[n] PROVE copies[n][a] \in 0 .. MaxRetries + 1
      <4>1. copies[n][a] \in Nat /\ copies[n][a] <= MaxRetries + 1 /\ MaxRetries \in Nat
        BY <1>1, RetriesAssumption DEF Inv, Types, Attempts
      <4> QED  BY <4>1
    <3> QED  BY <3>1
  <2>3. \A p \in posts : p.addon \in group /\ p.status \in Statuses /\ p.sent \in BOOLEAN
    BY <1>1 DEF Inv, Types, Attempts
  <2> QED
    BY <1>1, <2>1, <2>2, <2>3 DEF Inv, Types, TypeOK, Started
<1> QED
  BY <1>1, Invariant, PTL

\* The contributors are never asked about an archive of which a target has not
\* been reported, whatever the order of callbacks, retries and timeouts.
THEOREM AskedIsReportedAlways == Spec => []AskedIsReported
<1>1. Inv => AskedIsReported
  BY DEF Inv, SuccessIsReported, Succeeding, AllReported, Reported, AskedIsReported, Final
<1> QED
  BY <1>1, Invariant, PTL

-----------------------------------------------------------------------------
\* While no copy request times out: one copy and one report of every target

\* A target with an outcome is not written again.
LEMMA OutcomeStays ==
  ASSUME Types, Waiting, Attempts, OneCopy, Next,
         NEW n \in Nodes, NEW a \in Targets[n], target[n][a] \in Final
  PROVE  target'[n][a] = target[n][a]
<1>1. ~NotYet(n) /\ ~Untouched(n, a)
  BY DEF NotYet, Untouched
<1>2. Started /\ stage = "STAT" => Node # n
  BY <1>1, NodeIs DEF Waiting, Node
<1>3. CASE Chain
  <2>1. ASSUME NEW b \in Addons, StatFails(b) PROVE target'[n][a] = target[n][a]
    <3>1. Started /\ stage = "STAT"
      BY <2>1 DEF StatFails, InGroup, Started
    <3> QED  BY <1>2, <2>1, <3>1 DEF StatFails, Types
  <2>2. CASE ArchiveNode
    BY <1>2, <2>2 DEF ArchiveNode, Started, Types
  <2>3. ASSUME NEW p \in posts, CopyFails(p) PROVE target'[n][a] = target[n][a]
    <3>1. /\ Node \in Nodes /\ p.addon \in Targets[Node] /\ Untouched(Node, p.addon)
          /\ target' = [target EXCEPT ![Node][p.addon] = "FAILURE"]
      BY <2>3, NodeIs DEF CopyFails, Attempts, OneCopy, Types
    <3>2. n # Node \/ a # p.addon
      BY <1>1, <3>1
    <3> QED  BY <3>1, <3>2 DEF Types
  <2> QED
    BY <1>3, <2>1, <2>2, <2>3
    DEF Chain, StatAddon, SizeExceeded, CopyStarts, CopyAccepted, CopyRetried, AddonFails,
        ChainCallback, rows
<1>4. CASE Reports
  <2>1. ASSUME NEW r \in requests, CallbackCommits(r) PROVE target'[n][a] = target[n][a]
    <3>1. n # r.node \/ a # r.addon
      BY DEF OneCopy
    <3> QED  BY <2>1, <3>1, SeenIs DEF CallbackCommits
  <2> QED
    BY <1>4, <2>1 DEF Reports, CallbackReads, CallbackGone, CallbackConcludes, rows
<1>5. CASE Success
  BY <1>5 DEF Success, SuccessLoads, SuccessFails, SuccessSaves, FilesMissing, Ask, AskFails, rows
<1> QED
  BY <1>3, <1>4, <1>5 DEF Next

\* Nothing is under way for a tree whose targets were all reported.
LEMMA Quiet ==
  ASSUME Types, Waiting, Attempts, OneCopy, AllReported
  PROVE  /\ \A n \in Nodes : \A a \in Targets[n] : ~(copies[n][a] > 0)
         /\ \A r \in requests : r.concluded
         /\ Started => stage = "COPY" /\ group = {}
         /\ posts = {}
<1>1. ASSUME NEW n \in Nodes, NEW a \in Targets[n] PROVE ~Untouched(n, a)
  BY DEF AllReported, Reported, Untouched
<1>2. \A n \in Nodes : \A a \in Targets[n] : ~(copies[n][a] > 0)
  BY <1>1 DEF OneCopy
<1>3. ASSUME NEW r \in requests PROVE r.concluded
  <2>1. r.node \in Nodes /\ r.addon \in Targets[r.node]
    BY DEF Types
  <2>2. PICK s \in requests : s.node = r.node /\ s.addon = r.addon /\ s.concluded
    BY <2>1 DEF AllReported, Reported, OneCopy
  <2> QED  BY <2>2 DEF OneCopy
<1>4. Started => stage = "COPY" /\ group = {}
  BY <1>1, UnreportedAhead, NodeIs DEF OneCopy
<1>5. posts = {}
  BY <1>4 DEF Attempts
<1> QED
  BY <1>2, <1>3, <1>4, <1>5

\* A copy that is asked for has not begun.
LEMMA PostIs ==
  ASSUME Types, Attempts, OneCopy, NEW p \in posts
  PROVE  /\ Started /\ stage = "COPY" /\ p.addon \in group /\ Node \in Nodes
         /\ p.addon \in Targets[Node] /\ group \subseteq Targets[Node]
         /\ copies[Node][p.addon] = 0 /\ Untouched(Node, p.addon)
<1>1. Started /\ stage = "COPY" /\ p.addon \in group
  BY DEF Attempts, Types
<1>2. Node \in Nodes /\ group \subseteq Targets[Node]
  BY <1>1, NodeIs
<1> QED
  BY <1>1, <1>2 DEF OneCopy

LEMMA OneCopyChain ==
  ASSUME Types, Waiting, Attempts, OneCopy, ~Timeouts, Chain
  PROVE  OneCopy'
<1>1. ASSUME UNCHANGED <<target, copies, requests, chain, stage>>, group' \subseteq group PROVE OneCopy'
  BY <1>1 DEF OneCopy, Untouched, Started, Node
<1>2. ASSUME NEW a \in Addons, StatFails(a) PROVE OneCopy'
  <2>1. PICK st \in {"INITIATED", "NETWORK_ERROR"} : target' = [target EXCEPT ![Node][a] = st]
    BY <1>2 DEF StatFails
  <2>2. Node \in Nodes /\ a \in Targets[Node] /\ st \in TargetStatuses \ Final /\ stage = "STAT"
    BY <1>2, NodeIs DEF StatFails, InGroup, Started, TargetStatuses, Statuses, Final
  <2>3. \A n \in Nodes : \A b \in Targets[n] : target'[n][b] = target[n][b] \/ target'[n][b] \notin Final
    BY <2>1, <2>2, TargetIs
  <2>4. UNCHANGED <<copies, requests, stage>>
    BY <1>2 DEF StatFails
  <2>5. \A r \in requests : r.node \in Nodes /\ r.addon \in Targets[r.node]
    BY DEF Types
  <2> QED
    BY <2>2, <2>3, <2>4, <2>5 DEF OneCopy, Untouched
<1>3. CASE ArchiveNode
  <2>1. /\ Started /\ stage = "STAT" /\ stage' = "COPY" /\ group' = files
        /\ UNCHANGED <<copies, requests, chain>>
        /\ target' = [target EXCEPT ![Node] =
                        [a \in Targets[Node] |-> IF a \in files THEN @[a] ELSE "SUCCESS"]]
    BY <1>3 DEF ArchiveNode, Started
  <2>2. NotYet(Node) /\ Node \in Nodes /\ files \subseteq Targets[Node]
    BY <2>1, NodeIs DEF Waiting, Node
  <2>3. /\ \A n \in Nodes : n # Node => target'[n] = target[n]
        /\ \A a \in files : target'[Node][a] = target[Node][a]
    BY <2>1, <2>2 DEF Types
  <2>4. \A r \in requests : r.node # Node /\ r.node \in Nodes
    BY <2>2 DEF NotYet, Types
  <2>5. \A a \in Targets[Node] : ~(copies[Node][a] > 0) /\ copies[Node][a] = 0
    BY <2>2 DEF NotYet
  <2>6. \A a \in files : Untouched(Node, a)
    BY <2>2, <2>4 DEF NotYet, Untouched
  <2> QED
    BY <2>1, <2>2, <2>3, <2>4, <2>5, <2>6 DEF OneCopy, Untouched, Started, Node
<1>4. ASSUME NEW p \in posts, CopyAccepted(p) PROVE OneCopy'
  <2>1. /\ Started /\ stage = "COPY" /\ p.addon \in group /\ Node \in Nodes
        /\ p.addon \in Targets[Node] /\ group \subseteq Targets[Node]
        /\ copies[Node][p.addon] = 0 /\ Untouched(Node, p.addon)
    BY PostIs
  <2>2. /\ UNCHANGED <<target, requests, chain, stage>>
        /\ group' = group \ {p.addon} /\ copies' = Copying(p.addon)
    BY <1>4 DEF CopyAccepted, rows
  <2>3. \A n \in Nodes : \A a \in Targets[n] :
          copies'[n][a] = IF n = Node /\ a = p.addon THEN 1 ELSE copies[n][a]
    BY <2>1, <2>2, CopiesAre DEF Copying, Types
  <2> QED
    BY <2>1, <2>2, <2>3 DEF OneCopy, Untouched, Started, Node
<1>5. ASSUME NEW p \in posts, CopyRetried(p) PROVE OneCopy'
  BY <1>1, <1>5 DEF CopyRetried, rows
<1>6. ASSUME NEW p \in posts, CopyFails(p) PROVE OneCopy'
  <2>1. /\ Started /\ stage = "COPY" /\ p.addon \in group /\ Node \in Nodes
        /\ p.addon \in Targets[Node] /\ group \subseteq Targets[Node]
        /\ copies[Node][p.addon] = 0 /\ Untouched(Node, p.addon)
    BY PostIs
  <2>2. /\ UNCHANGED <<copies, requests, chain, stage>>
        /\ group' = group \ {p.addon} /\ target' = [target EXCEPT ![Node][p.addon] = "FAILURE"]
    BY <1>6 DEF CopyFails
  <2>3. \A n \in Nodes : \A a \in Targets[n] :
          n # Node \/ a # p.addon => target'[n][a] = target[n][a]
    BY <2>1, <2>2 DEF Types
  <2>4. \A r \in requests : r.node \in Nodes /\ r.addon \in Targets[r.node]
    BY DEF Types
  <2>5. ~(copies[Node][p.addon] > 0)
    BY <2>1
  <2> QED
    BY <2>1, <2>2, <2>3, <2>4, <2>5 DEF OneCopy, Untouched, Started, Node
<1>7. CASE ChainCallback
  BY <1>7 DEF ChainCallback, OneCopy, Untouched
<1> QED
  BY <1>1, <1>2, <1>3, <1>4, <1>5, <1>6, <1>7
  DEF Chain, StatAddon, SizeExceeded, CopyStarts, AddonFails, rows

LEMMA OneCopyReports ==
  ASSUME Types, OneCopy, Reports
  PROVE  OneCopy'
<1>1. \A r \in requests : r.node \in Nodes /\ r.addon \in Targets[r.node]
  BY DEF Types
<1>2. Started => Node \in Nodes /\ group \subseteq Targets[Node]
  BY NodeIs
<1>3. ASSUME NEW n \in Nodes, NEW a \in Targets[n], copies[n][a] > 0, UNCHANGED <<target, celery>>,
             copies' = [copies EXCEPT ![n][a] = @ - 1]
      PROVE  /\ Untouched(n, a)
             /\ \A m \in Nodes : \A b \in Targets[m] :
                  copies'[m][b] = IF m = n /\ b = a THEN 0 ELSE copies[m][b]
             /\ Started /\ stage = "COPY" /\ Node = n => a \notin group
  <2>1. copies[n][a] = 1 /\ Untouched(n, a)
    BY <1>3 DEF OneCopy
  <2>2. copies' = [copies EXCEPT ![n][a] = 0]
    <3>1. copies' = [copies EXCEPT ![n][a] = copies[n][a] - 1] /\ copies[n][a] - 1 = 0
      BY <1>3, <2>1 DEF Types
    <3> QED  BY <3>1
  <2>3. Started /\ stage = "COPY" /\ Node = n => a \notin group
    BY <2>1 DEF OneCopy
  <2> QED  BY <2>1, <2>2, <2>3, CopiesAre
<1>4. ASSUME NEW n \in Nodes, NEW a \in Targets[n], NEW st \in Final, CallbackReads(n, a, st)
      PROVE  OneCopy'
  <2>1. PICK r : r.node = n /\ r.addon = a /\ requests' = requests \cup {r}
    BY <1>4 DEF CallbackReads
  <2>2. copies[n][a] > 0 /\ copies' = [copies EXCEPT ![n][a] = @ - 1] /\ UNCHANGED <<target, celery>>
    BY <1>4 DEF CallbackReads, rows
  <2>3. /\ Untouched(n, a)
        /\ \A m \in Nodes : \A b \in Targets[m] :
             copies'[m][b] = IF m = n /\ b = a THEN 0 ELSE copies[m][b]
        /\ Started /\ stage = "COPY" /\ Node = n => a \notin group
    BY <1>3, <2>2
  <2>4. \A m \in Nodes : \A b \in Targets[m] :
          Untouched(m, b) /\ (m # n \/ b # a) => Untouched(m, b)'
    BY <2>1, <2>2 DEF Untouched
  <2>5. \A m \in Nodes : \A b \in Targets[m] :
          copies'[m][b] > 0 => copies'[m][b] = 1 /\ Untouched(m, b)'
    BY <2>3, <2>4 DEF OneCopy
  <2>6. \A s \in requests' :
          /\ target'[s.node][s.addon] \notin Final
          /\ \A q \in requests' : q.node = s.node /\ q.addon = s.addon => q = s
    BY <2>1, <2>2, <2>3 DEF OneCopy, Untouched
  <2>7. Started' /\ stage' = "COPY" =>
          \A b \in group' : copies'[Node'][b] = 0 /\ Untouched(Node, b)'
    BY <1>2, <2>1, <2>2, <2>3 DEF OneCopy, Untouched, celery, Started, Node
  <2> QED
    BY <2>5, <2>6, <2>7 DEF OneCopy
<1>5. ASSUME NEW n \in Nodes, NEW a \in Targets[n], CallbackGone(n, a) PROVE OneCopy'
  <2>1. /\ copies[n][a] > 0 /\ copies' = [copies EXCEPT ![n][a] = @ - 1]
        /\ UNCHANGED <<target, celery, requests>>
    BY <1>5 DEF CallbackGone, rows
  <2>2. \A m \in Nodes : \A b \in Targets[m] :
          copies'[m][b] = IF m = n /\ b = a THEN 0 ELSE copies[m][b]
    BY <1>3, <2>1
  <2> QED
    BY <1>2, <2>1, <2>2 DEF OneCopy, Untouched, celery, Started, Node
<1>6. ASSUME NEW r \in requests, CallbackConcludes(r) PROVE OneCopy'
  <2>1. PICK s : /\ s.node = r.node /\ s.addon = r.addon
                 /\ requests' = requests \ {r} \/ requests' = (requests \ {r}) \cup {s}
    <3> DEFINE d == Decision(TargetsSeen(r), JobsSeen(r), SentSeen(r))
               t == [r EXCEPT !.concluded = TRUE, !.fails = (d = "FAIL")]
    <3>1. t.node = r.node /\ t.addon = r.addon
      BY DEF Types
    <3>2. requests' = requests \ {r} \/ requests' = (requests \ {r}) \cup {t}
      BY <1>6 DEF CallbackConcludes
    <3> HIDE DEF t
    <3> QED  BY <3>1, <3>2
  <2>2. UNCHANGED <<target, celery, copies>>
    BY <1>6 DEF CallbackConcludes, rows
  <2>3. \A m, b : Untouched(m, b) => Untouched(m, b)'
    BY <2>1, <2>2 DEF Untouched
  <2>4. \A q \in requests' :
          /\ target'[q.node][q.addon] \notin Final
          /\ \A t \in requests' : t.node = q.node /\ t.addon = q.addon => t = q
    BY <2>1, <2>2 DEF OneCopy
  <2> QED
    BY <2>2, <2>3, <2>4 DEF OneCopy, celery, Started, Node
<1>7. ASSUME NEW r \in requests, CallbackCommits(r) PROVE OneCopy'
  <2>1. requests' = requests \ {r} /\ UNCHANGED <<copies, celery>>
    BY <1>7 DEF CallbackCommits
  <2>2. \A n \in Nodes : \A a \in Targets[n] :
          n # r.node \/ a # r.addon => target'[n][a] = target[n][a]
    BY <1>7, SeenIs DEF CallbackCommits
  <2>3. \A n \in Nodes : \A a \in Targets[n] : Untouched(n, a) => Untouched(n, a)'
    BY <2>1, <2>2 DEF Untouched
  <2>4. \A n \in Nodes : \A a \in Targets[n] :
          copies'[n][a] > 0 => copies'[n][a] = 1 /\ Untouched(n, a)'
    BY <2>1, <2>3 DEF OneCopy
  <2>5. \A q \in requests' :
          /\ target'[q.node][q.addon] \notin Final
          /\ \A t \in requests' : t.node = q.node /\ t.addon = q.addon => t = q
    BY <1>1, <2>1, <2>2 DEF OneCopy
  <2>6. Started' /\ stage' = "COPY" =>
          \A b \in group' : copies'[Node'][b] = 0 /\ Untouched(Node, b)'
    BY <1>2, <2>1, <2>2 DEF OneCopy, Untouched, celery, Started, Node
  <2> QED
    BY <2>4, <2>5, <2>6 DEF OneCopy
<1> QED
  BY <1>4, <1>5, <1>6, <1>7 DEF Reports, Final

LEMMA OneCopyStep ==
  ASSUME Types, Waiting, Attempts, OneCopy, ~Timeouts, Next
  PROVE  OneCopy'
<1>1. CASE Success
  BY <1>1 DEF Success, SuccessLoads, SuccessFails, SuccessSaves, FilesMissing, Ask, AskFails, rows, celery,
              OneCopy, Untouched, Started, Node
<1> QED
  BY <1>1, OneCopyChain, OneCopyReports DEF Next

-----------------------------------------------------------------------------
\* While no copy request times out: verdicts

LEMMA CompleteStays ==
  ASSUME Types, Waiting, Attempts, OneCopy, Next, NEW n \in Nodes, Complete(n)
  PROVE  Complete(n)'
BY OutcomeStays DEF Complete, Final

\* A job that a verdict of success is saved to has its targets in place.
LEMMA SavedIsTrue ==
  ASSUME Types, VerdictsAreTrue, NEW n \in Nodes, NEW v \in {"NONE", "SUCCESS", "FAILURE"},
         job' = Saved(n, v, job), v = "SUCCESS" => Complete(n)',
         \A m \in Nodes : Complete(m) => Complete(m)'
  PROVE  \A m \in Nodes : job'[m].status = "SUCCESS" => job'[m].done /\ Complete(m)'
<1> TAKE m \in Nodes
<1> HAVE job'[m].status = "SUCCESS"
<1>0. job \in [Nodes -> JobRows]
  BY DEF Types
<1>1. CASE m \notin Written(n, v)
  <2>1. Saved(n, v, job)[m] = job[m]
    BY <1>0, <1>1, SavedIs
  <2> QED  BY <2>1 DEF VerdictsAreTrue
<1>2. CASE m \in Written(n, v)
  <2>1. Saved(n, v, job)[m].status = "SUCCESS" =>
          m = n /\ v = "SUCCESS" /\ Saved(n, v, job)[m].done
    BY <1>0, <1>2, SavedIs
  <2> QED  BY <2>1
<1> QED
  BY <1>1, <1>2

LEMMA VerdictsAreTrueStep ==
  ASSUME Types, Waiting, Attempts, OneCopy, VerdictsAreTrue, Next
  PROVE  VerdictsAreTrue'
<1>1. \A n \in Nodes : Complete(n) => Complete(n)'
  BY CompleteStays
<1>2. Root \in Nodes
  BY TreeAssumption
<1> DEFINE Jobs == \A n \in Nodes : job[n].status = "SUCCESS" => job[n].done /\ Complete(n)
           Requests == \A r \in requests : r.verdict = "SUCCESS" =>
             /\ r.status = "SUCCESS"
             /\ \A a \in Targets[r.node] \ {r.addon} : target[r.node][a] = "SUCCESS"
           Rows == \A row \in JobRows : saving[row] > 0 /\ row.status = "SUCCESS" =>
                     row.done /\ Complete(Root)
<1>3. Jobs /\ Requests /\ Rows
  BY DEF VerdictsAreTrue
<1>4. ASSUME job' = job PROVE Jobs'
  BY <1>1, <1>3, <1>4
<1>5. ASSUME \A r \in requests' : \/ r.verdict # "SUCCESS"
                                  \/ \E s \in requests : /\ s.node = r.node /\ s.addon = r.addon
                                                         /\ s.status = r.status /\ s.verdict = r.verdict
      PROVE  Requests'
  <2> TAKE r \in requests'
  <2> HAVE r.verdict = "SUCCESS"
  <2>1. PICK s \in requests : s.node = r.node /\ s.addon = r.addon
                              /\ s.status = r.status /\ s.verdict = "SUCCESS"
    BY <1>5
  <2>2. s.node \in Nodes /\ s.status = "SUCCESS"
        /\ \A a \in Targets[s.node] \ {s.addon} : target[s.node][a] = "SUCCESS"
    BY <1>3, <2>1 DEF Types
  <2>3. \A a \in Targets[s.node] : target[s.node][a] = "SUCCESS" => target'[s.node][a] = "SUCCESS"
    BY <2>2, OutcomeStays DEF Final
  <2> QED
    BY <2>1, <2>2, <2>3
<1>6. ASSUME saving' = saving PROVE Rows'
  BY <1>1, <1>2, <1>3, <1>6
<1> HIDE DEF Jobs, Requests, Rows
<1>7. SUFFICES Jobs' /\ Requests' /\ Rows'
  BY DEF VerdictsAreTrue, Jobs, Requests, Rows
<1>8. CASE Chain
  <2>1. requests' = requests /\ saving' = saving
    BY <1>8 DEF Chain, StatAddon, StatFails, ArchiveNode, SizeExceeded, CopyStarts, AddonFails,
                CopyAccepted, CopyRetried, CopyFails, ChainCallback, success
  <2>5. ASSUME NEW n \in Nodes, NEW st, job' = Saved(n, Verdict(n, st, target'), job)
        PROVE  Jobs' /\ Requests' /\ Rows'
    <3>1. PICK v : v = Verdict(n, st, target')
      OBVIOUS
    <3>2. v \in {"NONE", "SUCCESS", "FAILURE"} /\ (v = "SUCCESS" => Complete(n)')
      BY <3>1, VerdictIs DEF Complete
    <3>3. job' = Saved(n, v, job)
      BY <2>5, <3>1
    <3>4. Jobs'
      BY <1>1, <3>2, <3>3, SavedIsTrue DEF Jobs
    <3> QED
      BY <1>5, <1>6, <2>1, <3>4
  <2>2. CASE ArchiveNode
    <3>1. PICK n, st : n \in Nodes /\ job' = Saved(n, Verdict(n, st, target'), job)
      BY <2>2, NodeIs DEF ArchiveNode, Started
    <3> QED
      BY <2>1, <2>5, <3>1
  <2>3. ASSUME NEW p \in posts, CopyFails(p) PROVE Jobs' /\ Requests' /\ Rows'
    <3>1. PICK n, st : n \in Nodes /\ job' = Saved(n, Verdict(n, st, target'), job)
      BY <2>3, PostIs DEF CopyFails
    <3> QED
      BY <2>1, <2>5, <3>1
  <2>4. ASSUME job' = job PROVE Jobs' /\ Requests' /\ Rows'
    BY <1>4, <1>5, <1>6, <2>1, <2>4
  <2> QED
    BY <1>8, <2>2, <2>3, <2>4
    DEF Chain, StatAddon, StatFails, SizeExceeded, CopyStarts, AddonFails, CopyAccepted, CopyRetried,
        ChainCallback, rows
<1>9. CASE Reports
  <2>1. saving' = saving
    BY <1>9 DEF Reports, CallbackReads, CallbackGone, CallbackConcludes, CallbackCommits, success
  <2>2. ASSUME NEW n \in Nodes, NEW a \in Targets[n], NEW st \in Final, CallbackReads(n, a, st)
        PROVE  Requests' /\ job' = job
    <3> DEFINE v == Verdict(n, job[n].status, [target EXCEPT ![n][a] = st])
    <3>1. PICK r : /\ r.node = n /\ r.addon = a /\ r.status = st /\ r.verdict = v
                   /\ requests' = requests \cup {r}
      BY <2>2 DEF CallbackReads
    <3>2. target' = target /\ job' = job
      BY <2>2 DEF CallbackReads, rows
    <3>3. v = "SUCCESS" => st = "SUCCESS" /\ \A b \in Targets[n] \ {a} : target[n][b] = "SUCCESS"
      <4> DEFINE tg == [target EXCEPT ![n][a] = st]
      <4>1. v = "SUCCESS" => \A b \in Targets[n] : tg[n][b] = "SUCCESS"
        BY VerdictIs
      <4>2. st \in TargetStatuses
        BY DEF Final, TargetStatuses, Statuses
      <4>3. \A b \in Targets[n] : tg[n][b] = IF b = a THEN st ELSE target[n][b]
        BY <4>2, TargetIs
      <4> QED  BY <4>1, <4>3
    <3> HIDE DEF v
    <3> QED
      BY <1>3, <3>1, <3>2, <3>3 DEF Requests
  <2>3. ASSUME NEW n \in Nodes, NEW a \in Targets[n], CallbackGone(n, a) PROVE Requests' /\ job' = job
    BY <1>5, <2>3 DEF CallbackGone, rows
  <2>4. ASSUME NEW r \in requests, CallbackConcludes(r) PROVE Requests' /\ job' = job
    <3> DEFINE d == Decision(TargetsSeen(r), JobsSeen(r), SentSeen(r))
               t == [r EXCEPT !.concluded = TRUE, !.fails = (d = "FAIL")]
    <3>1. t.node = r.node /\ t.addon = r.addon /\ t.status = r.status /\ t.verdict = r.verdict
      BY DEF Types
    <3>2. requests' = requests \ {r} \/ requests' = (requests \ {r}) \cup {t}
      BY <2>4 DEF CallbackConcludes
    <3> HIDE DEF t
    <3>3. job' = job
      BY <2>4 DEF CallbackConcludes, rows
    <3> QED
      BY <1>5, <3>1, <3>2, <3>3
  <2>5. ASSUME NEW r \in requests, CallbackCommits(r) PROVE Requests' /\ Jobs'
    <3>1. requests' = requests \ {r} /\ job' = Saved(r.node, r.verdict, job)
      BY <2>5 DEF CallbackCommits, JobsSeen
    <3>2. PICK n \in Nodes, v \in {"NONE", "SUCCESS", "FAILURE"} : n = r.node /\ v = r.verdict
      BY DEF Types
    <3>3. v = "SUCCESS" => Complete(n)'
      <4>1. \A a \in Targets[n] : target'[n][a] = IF a = r.addon THEN r.status ELSE target[n][a]
        BY <2>5, <3>2, SeenIs DEF CallbackCommits
      <4>2. v = "SUCCESS" =>
              r.status = "SUCCESS" /\ \A a \in Targets[n] \ {r.addon} : target[n][a] = "SUCCESS"
        BY <1>3, <3>2 DEF Requests
      <4> QED  BY <4>1, <4>2 DEF Complete
    <3> QED
      BY <1>1, <1>5, <3>1, <3>2, <3>3, SavedIsTrue DEF Jobs
  <2> QED
    BY <1>4, <1>6, <1>9, <2>1, <2>2, <2>3, <2>4, <2>5 DEF Reports, Final
<1>10. CASE Success
  <2>1. requests' = requests
    BY <1>10 DEF Success, SuccessLoads, SuccessFails, SuccessSaves, FilesMissing, Ask, AskFails
  <2>2. ASSUME NEW try \in {"first", "again"}, SuccessLoads(try) PROVE Rows' /\ job' = job
    <3>1. UNCHANGED <<job, target>> /\ saving' \in {saving, [saving EXCEPT ![job[Root]] = @ + 1]}
      BY <2>2 DEF SuccessLoads, rows
    <3>2. saving \in [JobRows -> Nat] /\ job[Root] \in JobRows
      BY <1>2 DEF Types
    <3>3. \A row \in JobRows : saving'[row] > 0 => saving[row] > 0 \/ row = job[Root]
      BY <3>1, <3>2
    <3> QED
      BY <1>2, <1>3, <3>1, <3>3 DEF Rows, Jobs, Complete
  <2>3. ASSUME NEW row \in JobRows, SuccessSaves(row) PROVE Rows' /\ Jobs'
    <3>1. /\ saving[row] > 0 /\ saving' = [saving EXCEPT ![row] = saving[row] - 1]
          /\ job' = [job EXCEPT ![Root] = row] /\ target' = target
      BY <2>3 DEF SuccessSaves, Types
    <3>2. saving \in [JobRows -> Nat] /\ job \in [Nodes -> JobRows]
      BY DEF Types
    <3>3. \A other \in JobRows : saving'[other] > 0 => saving[other] > 0
      BY <3>1, <3>2
    <3>4. row.status = "SUCCESS" => row.done /\ Complete(Root)
      BY <1>3, <3>1 DEF Rows
    <3>5. \A n \in Nodes : n # Root => job'[n] = job[n]
      BY <3>1, <3>2
    <3>6. job'[Root] = row
      BY <1>2, <3>1, <3>2
    <3> QED
      BY <1>3, <3>1, <3>3, <3>4, <3>5, <3>6 DEF Rows, Jobs, Complete
  <2> QED
    BY <1>4, <1>5, <1>6, <1>10, <2>1, <2>2, <2>3
    DEF Success, SuccessFails, FilesMissing, Ask, AskFails, rows
<1> QED
  BY <1>8, <1>9, <1>10 DEF Next

-----------------------------------------------------------------------------
\* While no copy request times out: the last request

\* What can still happen once archive_success is queued.
LEMMA AfterSuccess ==
  ASSUME Types, Waiting, Attempts, SuccessIsReported, OneCopy, Succeeding, Next
  PROVE  \/ ChainCallback
         \/ \E r \in requests : CallbackCommits(r)
         \/ Success
         \/ UNCHANGED <<rows, copies, requests, success>>
<1>1. AllReported
  BY DEF SuccessIsReported
<1>2. /\ \A n \in Nodes : \A a \in Targets[n] : ~(copies[n][a] > 0)
      /\ \A r \in requests : r.concluded
      /\ Started => stage = "COPY" /\ group = {}
      /\ posts = {}
  BY <1>1, Quiet
<1>3. CASE Chain
  BY <1>2, <1>3 DEF Chain, StatAddon, StatFails, ArchiveNode, SizeExceeded, CopyStarts, AddonFails,
                    InGroup, Started
<1>4. CASE Reports
  BY <1>2, <1>4 DEF Reports, CallbackReads, CallbackGone, CallbackConcludes
<1> QED
  BY <1>3, <1>4 DEF Next

\* The request that ends last leaves a finished tree.
LEMMA CommitFinishes ==
  ASSUME Types, Waiting, Attempts, SuccessIsReported, OneCopy, LastRequest, Succeeding,
         NEW r \in requests, CallbackCommits(r)
  PROVE  TreeFinished(target)' /\ requests' = {}
<1>1. requests' = {}
  BY DEF LastRequest, CallbackCommits
<1>2. AllReported'
  BY ReportedStays DEF SuccessIsReported, Next, Reports
<1> QED
  BY <1>1, <1>2 DEF AllReported, Reported, TreeFinished, Pending, Final

\* The archive of the root stays finished.
LEMMA FinishingStays ==
  ASSUME NEW done, Finishing(done), target' = target, requests' = requests
  PROVE  Finishing(done)'
BY DEF Finishing, WritesRoot, TreeFinished, Pending

LEMMA LastRequestStays ==
  ASSUME Inv, OnceInv, Succeeding, Next
  PROVE  LastRequest'
<1>1. /\ \A r, s \in requests : r = s /\ ~r.fails
      /\ Finishing(job[Root].done)
      /\ \A row \in JobRows : saving[row] > 0 => Finishing(row.done)
  BY DEF OnceInv, LastRequest
<1>2. /\ job[Root] \in JobRows /\ saving \in [JobRows -> Nat] /\ job \in [Nodes -> JobRows]
      /\ Root \in Nodes
  BY TreeAssumption DEF Inv, Types
<1>3. ASSUME target' = target, requests' = requests,
             NEW row \in JobRows, row = job'[Root], Finishing(row.done),
             \A other \in JobRows : saving'[other] > 0 => Finishing(other.done)
      PROVE  LastRequest'
  <2>1. Finishing(row.done)'
    BY <1>3, FinishingStays
  <2>2. ASSUME NEW other \in JobRows, saving'[other] > 0 PROVE Finishing(other.done)'
    <3>1. PICK done : done = other.done
      OBVIOUS
    <3>2. Finishing(done)
      BY <1>3, <2>2, <3>1
    <3>3. Finishing(done)'
      BY <1>3, <3>2, FinishingStays
    <3> QED  BY <3>1, <3>3
  <2> QED
    BY <1>1, <1>3, <2>1, <2>2 DEF LastRequest
<1>4. ASSUME UNCHANGED <<target, requests, job, saving>> PROVE LastRequest'
  BY <1>1, <1>2, <1>3, <1>4
<1>5. ASSUME NEW r \in requests, CallbackCommits(r) PROVE LastRequest'
  <2>1. TreeFinished(target)' /\ requests' = {}
    BY <1>5, CommitFinishes DEF Inv, OnceInv
  <2> QED
    BY <2>1 DEF LastRequest, Finishing
<1>6. CASE Success
  <2>1. ASSUME NEW try \in {"first", "again"}, SuccessLoads(try) PROVE LastRequest'
    <3>1. /\ UNCHANGED <<job, target, requests>>
          /\ saving' \in {saving, [saving EXCEPT ![job[Root]] = @ + 1]}
      BY <2>1 DEF SuccessLoads, rows
    <3>2. \A row \in JobRows : saving'[row] > 0 => saving[row] > 0 \/ row = job[Root]
      BY <1>2, <3>1
    <3>3. \A row \in JobRows : saving'[row] > 0 => Finishing(row.done)
      BY <1>1, <3>2
    <3> QED
      BY <1>1, <1>2, <1>3, <3>1, <3>3
  <2>2. ASSUME NEW row \in JobRows, SuccessSaves(row) PROVE LastRequest'
    <3>1. /\ saving[row] > 0 /\ saving' = [saving EXCEPT ![row] = saving[row] - 1]
          /\ job' = [job EXCEPT ![Root] = row] /\ UNCHANGED <<target, requests>>
      BY <1>2, <2>2 DEF SuccessSaves
    <3>2. job'[Root] = row
      BY <1>2, <3>1
    <3>3. \A other \in JobRows : saving'[other] > 0 => saving[other] > 0
      BY <1>2, <3>1
    <3> QED
      BY <1>1, <1>3, <3>1, <3>2, <3>3
  <2>3. ASSUME NEW try \in {"first", "again"}, SuccessFails(try) PROVE LastRequest'
    BY <1>4, <2>3 DEF SuccessFails
  <2> QED
    BY <1>4, <1>6, <2>1, <2>2, <2>3 DEF Success, FilesMissing, Ask, AskFails, rows
<1>7. ASSUME ChainCallback PROVE LastRequest'
  BY <1>4, <1>7 DEF ChainCallback
<1>8. ASSUME UNCHANGED <<rows, copies, requests, success>> PROVE LastRequest'
  BY <1>4, <1>8 DEF rows, success
<1> QED
  BY <1>5, <1>6, <1>7, <1>8, AfterSuccess DEF Inv, OnceInv

\* archive_success is queued when the tree is finished but for the request that
\* queues it, and the root's job is done but for what that request saves.
LEMMA LastRequestBegins ==
  ASSUME Inv, OnceInv, ~Succeeding, Next
  PROVE  LastRequest'
<1>1. /\ ~(queued.first > 0 \/ queued.again > 0) /\ \A row \in JobRows : ~(saving[row] > 0)
      /\ ~(asking > 0) /\ ~(asked > 0)
  BY DEF Succeeding
<1>2. ASSUME UNCHANGED success PROVE LastRequest'
  BY <1>1, <1>2 DEF success, Succeeding, LastRequest
<1>3. ASSUME NEW d, Queue(d), d # "ASK", UNCHANGED <<saving, asking, asked>> PROVE LastRequest'
  BY <1>1, <1>3 DEF Queue, Succeeding, LastRequest
<1>4. ASSUME TreeFinished(target)', requests' = {} PROVE LastRequest'
  BY <1>4 DEF LastRequest, Finishing
<1>5. CASE Chain
  <2>1. ASSUME ChainCallback PROVE LastRequest'
    <3> DEFINE d == Decision(target, job, sent)
    <3>1. Queue(d) /\ UNCHANGED <<target, requests, saving, asking, asked>>
      BY <2>1 DEF ChainCallback
    <3>2. CASE d = "ASK"
      <4>1. TreeFinished(target)
        BY <3>2 DEF Decision
      <4>2. requests = {}
        BY <4>1, FinishedIsReported DEF Inv, OnceInv, OneCopy, Types
      <4> QED
        BY <1>4, <3>1, <4>1, <4>2 DEF TreeFinished, Pending
    <3>3. CASE d # "ASK"
      <4> HIDE DEF d
      <4> QED  BY <1>3, <3>1, <3>3
    <3> QED  BY <3>2, <3>3
  <2> QED
    BY <1>2, <1>5, <2>1
    DEF Chain, StatAddon, StatFails, ArchiveNode, SizeExceeded, CopyStarts, AddonFails,
        CopyAccepted, CopyRetried, CopyFails
<1>6. CASE Reports
  <2>1. ASSUME NEW r \in requests, CallbackConcludes(r) PROVE LastRequest'
    <3> DEFINE d == Decision(TargetsSeen(r), JobsSeen(r), SentSeen(r))
               t == [r EXCEPT !.concluded = TRUE, !.fails = (d = "FAIL")]
    <3>1. Queue(d) /\ UNCHANGED <<target, job, saving, asking, asked>>
      BY <2>1 DEF CallbackConcludes, rows
    <3>2. CASE d = "ASK"
      <4>1. TreeFinished(TargetsSeen(r)) /\ JobsSeen(r)[Root].status = "SUCCESS"
        BY <3>2 DEF Decision
      <4>2. ASSUME NEW s \in requests PROVE s = r
        <5>1. s.node \in Nodes /\ s.addon \in Targets[s.node]
          BY DEF Inv, Types
        <5>2. TargetsSeen(r)[s.node][s.addon] \in Final /\ target[s.node][s.addon] \notin Final
          BY <4>1, <5>1, FinishedIsReported DEF OnceInv, OneCopy
        <5>3. s.node = r.node /\ s.addon = r.addon
          BY <5>1, <5>2, SeenIs DEF Inv
        <5> QED  BY <5>3 DEF OnceInv, OneCopy
      <4>3. /\ requests' = {t} /\ ~t.fails /\ t.node = r.node /\ t.verdict = r.verdict
        <5>1. requests' = (requests \ {r}) \cup {t}
          BY <2>1, <3>2 DEF CallbackConcludes
        <5>2. ~t.fails /\ t.node = r.node /\ t.verdict = r.verdict
          BY <3>2 DEF Inv, Types
        <5> HIDE DEF t
        <5> QED  BY <4>2, <5>1, <5>2
      <4>4. job[Root].done \/ WritesRoot(r)
        <5>1. PICK n \in Nodes, v \in {"NONE", "SUCCESS", "FAILURE"} : n = r.node /\ v = r.verdict
          BY DEF Inv, Types
        <5>2. job \in [Nodes -> JobRows] /\ Root \in Nodes
          BY TreeAssumption DEF Inv, Types
        <5>3. CASE Root \notin Written(n, v)
          <6>1. Saved(n, v, job)[Root] = job[Root]
            BY <5>2, <5>3, SavedIs
          <6>2. job[Root].status = "SUCCESS"
            BY <4>1, <5>1, <6>1 DEF JobsSeen
          <6> QED  BY <5>2, <6>2 DEF OnceInv, VerdictsAreTrue
        <5> QED  BY <5>1, <5>3 DEF WritesRoot
      <4> HIDE DEF t
      <4>5. Finishing(job[Root].done)'
        BY <3>1, <4>3, <4>4 DEF Finishing, WritesRoot
      <4> QED
        BY <1>1, <3>1, <4>3, <4>5 DEF LastRequest
    <3>3. CASE d # "ASK"
      <4> HIDE DEF d
      <4> QED  BY <1>3, <3>1, <3>3
    <3> QED  BY <3>2, <3>3
  <2> QED
    BY <1>2, <1>6, <2>1 DEF Reports, CallbackReads, CallbackGone, CallbackCommits
<1>7. CASE Success
  <2>1. ASSUME NEW try \in {"first", "again"}, Taken(try) PROVE FALSE
    BY <1>1, <2>1, TakenIs DEF Inv
  <2> QED
    BY <1>1, <1>7, <2>1 DEF Success, SuccessLoads, SuccessFails, SuccessSaves, FilesMissing, Ask, AskFails
<1> QED
  BY <1>5, <1>6, <1>7 DEF Next

LEMMA SentStaysStep ==
  ASSUME Inv, OnceInv, Next
  PROVE  SentStays'
<1>1. CASE ~Succeeding
  <2>1. ~(asking' > 0) /\ ~(asked' > 0)
    BY <1>1 DEF Next, Chain, Reports, Success, StatAddon, StatFails, ArchiveNode, SizeExceeded, CopyStarts,
                AddonFails, CopyAccepted, CopyRetried, CopyFails, ChainCallback, CallbackReads,
                CallbackGone, CallbackConcludes, CallbackCommits, SuccessLoads, SuccessSaves,
                FilesMissing, SuccessFails, Ask, AskFails, success, Succeeding
  <2> QED
    BY <2>1 DEF SentStays
<1>2. CASE Succeeding
  <2>1. \A r \in requests : r.concluded
    BY <1>2, Quiet DEF Inv, SuccessIsReported, OnceInv
  <2>2. ASSUME NEW row \in JobRows, SuccessSaves(row) PROVE SentStays'
    BY <2>1, <2>2 DEF SuccessSaves, Unlocked, SentStays, WritesRoot
  <2>3. ASSUME asking > 0 \/ asked > 0, requests' \subseteq requests, sent' = sent \/ sent' = TRUE
        PROVE  SentStays'
    BY <2>3 DEF OnceInv, SentStays, WritesRoot
  <2>4. ASSUME ~(asking > 0 \/ asked > 0), UNCHANGED <<asking, asked>> PROVE SentStays'
    BY <2>4 DEF SentStays
  <2>5. asking \in Nat /\ asked \in Nat
    BY DEF Inv, Types
  <2>6. CASE ChainCallback
    BY <2>3, <2>4, <2>6 DEF ChainCallback
  <2>7. ASSUME NEW r \in requests, CallbackCommits(r) PROVE SentStays'
    <3>1. requests' \subseteq requests /\ UNCHANGED <<asking, asked>> /\ sent' = SentSeen(r)
      BY <2>7 DEF CallbackCommits, success
    <3>2. CASE asking > 0 \/ asked > 0
      <4>1. ~WritesRoot(r)
        BY <3>2 DEF OnceInv, SentStays
      <4>2. ~(r.verdict # "NONE" /\ r.node = Root)
        <5>1. PICK n \in Nodes, v \in {"NONE", "SUCCESS", "FAILURE"} : n = r.node /\ v = r.verdict
          BY DEF Inv, Types
        <5>2. n \in Written(n, v) <=> v # "NONE"
          BY WrittenIs
        <5> QED  BY <4>1, <5>1, <5>2 DEF WritesRoot
      <4>3. sent' = sent
        BY <3>1, <4>2 DEF SentSeen
      <4> QED  BY <2>3, <3>1, <3>2, <4>3
    <3>3. CASE ~(asking > 0 \/ asked > 0)
      BY <2>4, <3>1, <3>3
    <3> QED  BY <3>2, <3>3
  <2>8. CASE Success
    <3>1. ASSUME NEW try \in {"first", "again"}, SuccessLoads(try) PROVE SentStays'
      BY <2>3, <2>4, <3>1 DEF SuccessLoads, rows
    <3>2. ASSUME NEW try \in {"first", "again"}, SuccessFails(try) PROVE SentStays'
      BY <2>3, <2>4, <3>2, OnFailureIs DEF SuccessFails
    <3>3. CASE FilesMissing
      BY <2>3, <2>4, <3>3 DEF FilesMissing, rows
    <3>4. CASE Ask
      BY <2>3, <3>4 DEF Ask, rows
    <3>5. CASE AskFails
      BY <2>3, <3>5, OnFailureIs DEF AskFails
    <3> QED
      BY <2>2, <2>8, <3>1, <3>2, <3>3, <3>4, <3>5 DEF Success
  <2>9. ASSUME UNCHANGED <<rows, copies, requests, success>> PROVE SentStays'
    BY <2>3, <2>4, <2>9 DEF rows, success
  <2> QED
    BY <1>2, <2>6, <2>7, <2>8, <2>9, AfterSuccess DEF Inv, OnceInv
<1> QED
  BY <1>1, <1>2

LEMMA OnceInvInit == Init => OnceInv
<1> SUFFICES ASSUME Init PROVE OnceInv
  OBVIOUS
<1>1. OneCopy
  BY DEF Init, OneCopy
<1>2. VerdictsAreTrue
  BY DEF Init, VerdictsAreTrue, JobRows
<1>3. ~Succeeding
  BY DEF Init, Succeeding, JobRows
<1> QED
  BY <1>1, <1>2, <1>3 DEF OnceInv, LastRequest, SentStays, Succeeding

LEMMA OnceInvStep == ~Timeouts /\ Inv /\ OnceInv /\ [Next]_vars => OnceInv'
<1> SUFFICES ASSUME ~Timeouts, Inv, OnceInv, [Next]_vars PROVE OnceInv'
  OBVIOUS
<1>1. CASE Next
  <2>1. OneCopy'
    BY <1>1, OneCopyStep DEF Inv, OnceInv
  <2>2. VerdictsAreTrue'
    BY <1>1, VerdictsAreTrueStep DEF Inv, OnceInv
  <2>3. LastRequest'
    BY <1>1, LastRequestStays, LastRequestBegins
  <2>4. SentStays'
    BY <1>1, SentStaysStep
  <2> QED
    BY <2>1, <2>2, <2>3, <2>4 DEF OnceInv
<1>2. CASE UNCHANGED vars
  <2>1. UNCHANGED <<target, job, sent, chain, stage, group, copies, requests, success>>
    BY <1>2 DEF vars, rows, celery
  <2>2. OneCopy' /\ VerdictsAreTrue'
    BY <2>1 DEF OnceInv, OneCopy, Untouched, VerdictsAreTrue, Complete, Started, Node, success
  <2>3. LastRequest' /\ SentStays'
    BY <2>1 DEF OnceInv, LastRequest, SentStays, Succeeding, Finishing, WritesRoot, TreeFinished, Pending,
                success
  <2> QED
    BY <2>2, <2>3 DEF OnceInv
<1> QED
  BY <1>1, <1>2

THEOREM OnceInvariant == ~Timeouts /\ Spec => [](Inv /\ OnceInv)
<1> SUFFICES ASSUME ~Timeouts PROVE Spec => [](Inv /\ OnceInv)
  OBVIOUS
<1>1. Init => Inv /\ OnceInv
  BY InvInit, OnceInvInit
<1>2. Inv /\ OnceInv /\ [Next]_vars => Inv' /\ OnceInv'
  BY InvStep, OnceInvStep
<1> QED
  BY <1>1, <1>2, PTL DEF Spec

\* While no copy request times out, a job is not marked successful before all its
\* targets are copied, whatever callbacks on the same job overlap.
THEOREM SuccessIsCompleteAlways == ~Timeouts /\ Spec => []SuccessIsComplete
<1>1. OnceInv => SuccessIsComplete
  BY DEF OnceInv, VerdictsAreTrue, SuccessIsComplete, Complete
<1> QED
  BY <1>1, OnceInvariant, PTL

-----------------------------------------------------------------------------
\* While no copy request times out: the archiver keeps its promise

FinishedNow == job[Root].done \/ TreeFinished(target)

ArchiveNow == IF deleted THEN "FAILED"
              ELSE IF asked > 0 THEN "SENT"
              ELSE IF FinishedNow THEN "FINISHED"
              ELSE "ARCHIVING"

\* A finished archive does not start again.
LEMMA FinishedStays ==
  ASSUME Inv, OnceInv, Next, FinishedNow
  PROVE  FinishedNow'
<1>1. CASE TreeFinished(target)
  <2>1. \A n \in Nodes : \A a \in Targets[n] : target'[n][a] = target[n][a] /\ target[n][a] \in Final
    BY <1>1, FinishedIsReported, OutcomeStays DEF Inv, OnceInv
  <2> QED
    BY <2>1 DEF FinishedNow, TreeFinished, Pending, Final
<1>2. CASE job[Root].done /\ ~TreeFinished(target)
  <2>1. job \in [Nodes -> JobRows] /\ Root \in Nodes
    BY TreeAssumption DEF Inv, Types
  <2>2. ASSUME job' = job PROVE FinishedNow'
    BY <1>2, <2>2 DEF FinishedNow
  <2>3. ASSUME NEW n \in Nodes, NEW v \in {"NONE", "SUCCESS", "FAILURE"}, job' = Saved(n, v, job)
        PROVE  FinishedNow'
    <3>1. Saved(n, v, job)[Root].done
      <4>1. CASE Root \in Written(n, v)
        BY <1>2, <2>1, <4>1, SavedIs
      <4>2. CASE Root \notin Written(n, v)
        BY <1>2, <2>1, <4>2, SavedIs
      <4> QED  BY <4>1, <4>2
    <3> QED  BY <2>3, <3>1 DEF FinishedNow
  <2>4. CASE Chain
    <3>1. CASE ArchiveNode
      BY <2>3, <3>1, NodeIs, VerdictIs DEF ArchiveNode, Started, Inv
    <3>2. ASSUME NEW p \in posts, CopyFails(p) PROVE FinishedNow'
      BY <2>3, <3>2, PostIs, VerdictIs DEF CopyFails, Inv, OnceInv
    <3> QED
      BY <2>2, <2>4, <3>1, <3>2
      DEF Chain, StatAddon, StatFails, SizeExceeded, CopyStarts, AddonFails, CopyAccepted, CopyRetried,
          ChainCallback, rows
  <2>5. CASE Reports
    <3>1. ASSUME NEW r \in requests, CallbackCommits(r) PROVE FinishedNow'
      BY <2>3, <3>1 DEF CallbackCommits, JobsSeen, Inv, Types
    <3> QED
      BY <2>2, <2>5, <3>1 DEF Reports, CallbackReads, CallbackGone, CallbackConcludes, rows
  <2>6. CASE Success
    <3>1. ASSUME NEW row \in JobRows, SuccessSaves(row) PROVE FinishedNow'
      <4>1. saving[row] > 0 /\ Succeeding
        BY <3>1 DEF SuccessSaves, Succeeding
      <4>2. \A r \in requests : ~WritesRoot(r)
        <5>1. \A r \in requests : r.concluded
          BY <4>1, Quiet DEF Inv, SuccessIsReported, OnceInv
        <5> QED  BY <3>1, <5>1 DEF SuccessSaves, Unlocked, WritesRoot
      <4>3. Finishing(row.done)
        BY <4>1 DEF OnceInv, LastRequest
      <4>4. row.done
        BY <1>2, <4>2, <4>3 DEF Finishing
      <4>5. job'[Root] = row
        BY <2>1, <3>1 DEF SuccessSaves
      <4> QED  BY <4>4, <4>5 DEF FinishedNow
    <3> QED
      BY <2>2, <2>6, <3>1 DEF Success, SuccessLoads, SuccessFails, FilesMissing, Ask, AskFails, rows
  <2> QED
    BY <2>4, <2>5, <2>6 DEF Next
<1> QED
  BY <1>1, <1>2 DEF FinishedNow

\* A registration that was asked about is not torn down.
LEMMA NotDeletedAfterAsking ==
  ASSUME Inv, OnceInv, Next, asked > 0, ~deleted
  PROVE  ~deleted' /\ asked' > 0
<1>1. Succeeding /\ sent /\ asked \in Nat /\ asking \in Nat
  BY DEF Succeeding, OnceInv, SentStays, Inv, Types
<1>2. CASE ChainCallback
  BY <1>1, <1>2 DEF ChainCallback, Decision
<1>3. ASSUME NEW r \in requests, CallbackCommits(r) PROVE ~deleted' /\ asked' > 0
  BY <1>1, <1>3 DEF CallbackCommits, OnceInv, LastRequest, success
<1>4. CASE Success
  <2>1. deleted' = deleted
    BY <1>1, <1>4, OnFailureIs
    DEF Success, SuccessLoads, SuccessSaves, FilesMissing, SuccessFails, Ask, AskFails, rows
  <2>2. asked' = asked \/ asked' = asked + 1
    BY <1>4 DEF Success, SuccessLoads, SuccessSaves, FilesMissing, SuccessFails, Ask, AskFails
  <2> QED
    BY <1>1, <2>1, <2>2
<1>5. CASE UNCHANGED <<rows, copies, requests, success>>
  BY <1>1, <1>5 DEF rows, success
<1> QED
  BY <1>1, <1>2, <1>3, <1>4, <1>5, AfterSuccess DEF Inv, OnceInv

\* The contributors are asked about a finished archive.
LEMMA AskedWhenFinished ==
  ASSUME Inv, OnceInv, Next, ~(asked > 0), asked' > 0
  PROVE  FinishedNow /\ deleted' = deleted
<1>1. Ask
  BY DEF Next, Chain, Reports, Success, StatAddon, StatFails, ArchiveNode, SizeExceeded, CopyStarts,
         AddonFails, CopyAccepted, CopyRetried, CopyFails, ChainCallback, CallbackReads, CallbackGone,
         CallbackConcludes, CallbackCommits, SuccessLoads, SuccessSaves, FilesMissing, SuccessFails,
         AskFails, success
<1>2. asking > 0 /\ deleted' = deleted
  BY <1>1 DEF Ask, rows
<1> QED
  BY <1>2 DEF OnceInv, LastRequest, Succeeding, SentStays, Finishing, FinishedNow

LEMMA DeletedStays ==
  ASSUME Inv, Next, deleted
  PROVE  deleted'
<1>1. CASE Chain
  BY <1>1, OnFailureIs DEF Chain, StatAddon, StatFails, ArchiveNode, SizeExceeded, CopyStarts, AddonFails,
                           CopyAccepted, CopyRetried, CopyFails, ChainCallback, rows
<1>2. CASE Reports
  BY <1>2 DEF Reports, CallbackReads, CallbackGone, CallbackConcludes, CallbackCommits, rows
<1>3. CASE Success
  BY <1>3, OnFailureIs DEF Success, SuccessLoads, SuccessFails, SuccessSaves, FilesMissing, Ask, AskFails, rows
<1> QED
  BY <1>1, <1>2, <1>3 DEF Next

LEMMA OutcomeStep ==
  ASSUME Inv, OnceInv, [Next]_vars
  PROVE  \/ ArchiveNow = "ARCHIVING" /\ ArchiveNow' = "FINISHED"
         \/ ArchiveNow = "FINISHED" /\ ArchiveNow' = "SENT"
         \/ ArchiveNow \in {"ARCHIVING", "FINISHED"} /\ ArchiveNow' = "FAILED"
         \/ UNCHANGED ArchiveNow
<1>1. CASE UNCHANGED vars
  BY <1>1 DEF vars, rows, success, ArchiveNow, FinishedNow, TreeFinished, Pending
<1>2. CASE Next
  <2>1. deleted => deleted'
    BY <1>2, DeletedStays
  <2>2. asked > 0 /\ ~deleted => ~deleted' /\ asked' > 0
    BY <1>2, NotDeletedAfterAsking
  <2>3. ~(asked > 0) /\ asked' > 0 => FinishedNow /\ deleted' = deleted
    BY <1>2, AskedWhenFinished
  <2>4. FinishedNow => FinishedNow'
    BY <1>2, FinishedStays
  <2> QED
    BY <2>1, <2>2, <2>3, <2>4 DEF ArchiveNow
<1> QED
  BY <1>1, <1>2

\* While no copy request times out, the archiver takes no step that its promise
\* to the sanctions does not know: in particular, it asks about finished archives
\* only, and what was asked about is not torn down.
THEOREM ArchiverImplementsOutcome == ~Timeouts /\ Spec => ImplementsOutcome
<1>1. Init => Outcome!OutcomeInit
  <2> SUFFICES ASSUME Init PROVE ArchiveNow = "ARCHIVING"
    BY DEF Outcome!OutcomeInit, ArchiveNow, FinishedNow
  <2>1. ~deleted /\ ~(asked > 0) /\ ~job[Root].done
    BY TreeAssumption DEF Init
  <2>2. ~TreeFinished(target)
    <3>1. PICK a \in Targets[Root] : TRUE
      BY TreeAssumption
    <3>2. target[Root][a] = "INITIATED"
      BY TreeAssumption DEF Init
    <3> QED  BY <3>2, TreeAssumption DEF TreeFinished, Pending
  <2> QED
    BY <2>1, <2>2 DEF ArchiveNow, FinishedNow
<1>2. Inv /\ OnceInv /\ [Next]_vars => [Outcome!OutcomeNext]_ArchiveNow
  BY OutcomeStep DEF Outcome!OutcomeNext, Outcome!Finish, Outcome!Send, Outcome!Fail, ArchiveNow, FinishedNow
<1>3. ~Timeouts /\ Spec => Outcome!OutcomeInit /\ [][Outcome!OutcomeNext]_ArchiveNow
  BY <1>1, <1>2, OnceInvariant, PTL DEF Spec
<1> QED
  BY <1>3 DEF ImplementsOutcome, Outcome!OutcomeSpec, ArchiveNow, FinishedNow

=============================================================================
