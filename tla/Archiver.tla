------------------------------ MODULE Archiver ------------------------------
(***************************************************************************)
(* The archiver of one registration: a job for every node of the tree and  *)
(* a target for every storage add-on of the node.                          *)
(*                                                                         *)
(* Actors: the celery workers, which run one chain over the nodes (measure *)
(* the add-ons of a node, ask WaterButler to copy them, archive_callback,  *)
(* then the next node) and the archive_success tasks; WaterButler, which   *)
(* copies and reports every copy to the API; and the API's requests.  A    *)
(* request is a transaction under READ COMMITTED: it looks at the targets, *)
(* then at the tree, and then its writes appear to others.  Tasks run in   *)
(* autocommit mode.                                                        *)
(***************************************************************************)
EXTENDS Naturals, Sequences

CONSTANTS
  Nodes,       \* the registration and its components
  Root,        \* the registration
  Order,       \* node_and_primary_descendants of the root, a sequence
  Parent,      \* the parent of every node but the root
  Targets,     \* the target add-ons of each node
  MaxRetries,  \* of a copy request
  Timeouts     \* may a copy request time out that WaterButler carries out?

ASSUME TreeAssumption ==
  /\ Root \in Nodes
  /\ Parent \in [Nodes \ {Root} -> Nodes]
  /\ Order \in Seq(Nodes) /\ \A i, j \in 1 .. Len(Order) : Order[i] = Order[j] => i = j
  /\ \A n \in Nodes : Targets[n] # {}

ASSUME RetriesAssumption == MaxRetries \in Nat /\ Timeouts \in BOOLEAN

Addons == UNION {Targets[n] : n \in Nodes}

VARIABLES
  target,   \* status of each target of each job
  job,      \* status and done of each job
  sent,     \* sent of the root's job
  chain,    \* nodes whose part of the celery chain is not over; the head runs
  stage,    \* what the group in progress does: STAT or COPY
  group,    \* add-ons whose task in that group is not over
  broken,   \* a task of the group has failed: the chain stops after the group
  files,    \* add-ons of the node in which stat_addon found files
  tries,    \* failed attempts of the node's copy requests
  posts,    \* copy requests under way, with the job's row as they loaded it
  copies,   \* copies WaterButler is making, for each target
  requests, \* callback requests whose transaction is open
  queued,   \* archive_success tasks: not tried yet, and to be retried
  saving,   \* archive_success tasks about to save the job row they loaded
  asking,   \* archive_success tasks between setting sent and asking
  asked,    \* how often the contributors were asked
  deleted   \* handle_archive_fail has deleted the registration

celery  == <<chain, stage, group, broken, files, tries, posts>>
success == <<queued, saving, asking, asked>>
rows    == <<target, job, sent, deleted>>
vars    == <<rows, celery, copies, requests, success>>

Node == chain[1]

Statuses == {"INITIATED", "SUCCESS", "FAILURE"}

JobRows == [status : Statuses, done : BOOLEAN]

-----------------------------------------------------------------------------
\* ArchiveJob

\* A target that met a network error counts as pending.
Pending(n, tg) == \E a \in Targets[n] : tg[n][a] \notin {"SUCCESS", "FAILURE"}

\* Fault: the components are not looked at.
TreeFinished_RootOnly(tg) == ~Pending(Root, tg)

\* archive_tree_finished of the root's job.
TreeFinished(tg) == \A n \in Nodes : ~Pending(n, tg)

\* Fault: one copied target makes the job a success.
Verdict_AnySuccess(n, st, tg) ==
  IF st = "FAILURE" \/ Pending(n, tg) THEN "NONE"
  ELSE IF \E a \in Targets[n] : tg[n][a] = "SUCCESS" THEN "SUCCESS" ELSE "FAILURE"

\* What _post_update_target concludes from the targets of a job it loaded with
\* status st: a failed job stays as it is.
Verdict(n, st, tg) ==
  IF st = "FAILURE" \/ Pending(n, tg) THEN "NONE"
  ELSE IF \E a \in Targets[n] : tg[n][a] = "FAILURE" THEN "FAILURE" ELSE "SUCCESS"

\* The job rows that saving a verdict writes: _fail_above marks the job just
\* above a failed one.
Written(n, v) ==
  CASE v = "NONE"                    -> {}
    [] v = "FAILURE" /\ n # Root     -> {n, Parent[n]}
    [] OTHER                         -> {n}

Saved(n, v, jb) ==
  [m \in Nodes |->
     IF m \notin Written(n, v) THEN jb[m]
     ELSE IF m = n THEN [status |-> v, done |-> TRUE]
     ELSE [jb[m] EXCEPT !.status = "FAILURE"]]

\* No open transaction has written this target.
TargetFree(n, a) == \A r \in requests : <<r.node, r.addon>> # <<n, a>>

\* No open transaction has written these job rows.
Unlocked(S) == \A r \in requests : r.concluded => S \cap Written(r.node, r.verdict) = {}

-----------------------------------------------------------------------------
\* The two ways to a verdict

\* Fault: the sent flag is not looked at.
OnFailure_Again(n, jb) ==
  IF jb[n].status = "FAILURE"
  THEN UNCHANGED <<sent, deleted>>
  ELSE Unlocked({Root}) /\ sent' = TRUE /\ deleted' = TRUE

\* ArchiverTask.on_failure and the archive_fail listener: nothing is done when
\* the job is marked as failed, or when mails are out.
OnFailure(n, jb) ==
  IF jb[n].status = "FAILURE" \/ sent
  THEN UNCHANGED <<sent, deleted>>
  ELSE Unlocked({Root}) /\ sent' = TRUE /\ deleted' = TRUE

\* What archive_callback decides: when the tree is finished and no mail is out,
\* queue archive_success or fail the archive (which does not set sent).
Decision(tg, jb, sentNow) ==
  IF ~TreeFinished(tg) \/ sentNow THEN "NONE"
  ELSE IF jb[Root].status = "SUCCESS" THEN "ASK" ELSE "FAIL"

Queue(decision) ==
  queued' = IF decision = "ASK" THEN [queued EXCEPT !.first = @ + 1] ELSE queued

-----------------------------------------------------------------------------
\* The celery chain: archive() for every node, one node after the other

Init ==
  /\ target = [n \in Nodes |-> [a \in Targets[n] |-> "INITIATED"]]
  /\ job = [n \in Nodes |-> [status |-> "INITIATED", done |-> FALSE]]
  /\ sent = FALSE
  /\ chain = Order
  /\ stage = "STAT"
  /\ group = Targets[Order[1]]
  /\ broken = FALSE
  /\ files = {}
  /\ tries = [a \in Addons |-> 0]
  /\ posts = {}
  /\ copies = [n \in Nodes |-> [a \in Targets[n] |-> 0]]
  /\ requests = {}
  /\ queued = [first |-> 0, again |-> 0]
  /\ saving = [row \in JobRows |-> 0]
  /\ asking = 0
  /\ asked = 0
  /\ deleted = FALSE

InGroup(s, a) == chain # <<>> /\ stage = s /\ a \in group

\* stat_addon finds files to copy, or none.
StatAddon(a) ==
  /\ InGroup("STAT", a)
  /\ group' = group \ {a}
  /\ files' \in {files, files \cup {a}}
  /\ UNCHANGED <<rows, chain, stage, broken, tries, posts, copies, requests, success>>

\* stat_addon fails: on an HTTP error the target is marked, otherwise not.
StatFails(a) ==
  /\ InGroup("STAT", a)
  /\ group' = group \ {a}
  /\ broken' = TRUE
  /\ \E st \in {"INITIATED", "NETWORK_ERROR"} : target' = [target EXCEPT ![Node][a] = st]
  /\ OnFailure(Node, job)
  /\ UNCHANGED <<job, chain, stage, files, tries, posts, copies, requests, success>>

\* archive_node: add-ons without files are done, the others are to be copied.
ArchiveNode ==
  /\ chain # <<>> /\ stage = "STAT" /\ group = {} /\ ~broken
  /\ Unlocked({Node})
  /\ target' = [target EXCEPT ![Node] =
                  [a \in Targets[Node] |-> IF a \in files THEN @[a] ELSE "SUCCESS"]]
  /\ job' = Saved(Node, Verdict(Node, job[Node].status, target'), job)
  /\ stage' = "COPY"
  /\ group' = files
  /\ UNCHANGED <<sent, deleted, chain, broken, files, tries, posts, copies, requests, success>>

\* archive_node: more than MAX_ARCHIVE_SIZE to copy.
SizeExceeded ==
  /\ chain # <<>> /\ stage = "STAT" /\ group = {} /\ ~broken
  /\ files # {}
  /\ broken' = TRUE
  /\ OnFailure(Node, job)
  /\ UNCHANGED <<target, job, chain, stage, group, files, tries, posts, copies, requests, success>>

\* make_copy_request loads the job and sends the request.
CopyStarts(a) ==
  /\ InGroup("COPY", a)
  /\ \A p \in posts : p.addon # a
  /\ posts' = posts \cup {[addon |-> a, status |-> job[Node].status, sent |-> sent]}
  /\ UNCHANGED <<rows, chain, stage, group, broken, files, tries, copies, requests, success>>

Copying(a) == [copies EXCEPT ![Node][a] = @ + 1]

\* WaterButler accepts to copy.
CopyAccepted(p) ==
  /\ posts' = posts \ {p}
  /\ group' = group \ {p.addon}
  /\ copies' = Copying(p.addon)
  /\ UNCHANGED <<rows, chain, stage, broken, files, tries, requests, success>>

\* Fault: every failed attempt is retried.
CopyRetried_Always(p) ==
  /\ posts' = posts \ {p}
  /\ UNCHANGED <<rows, chain, stage, group, broken, files, tries, copies, requests, success>>

\* Fault: one attempt too many.
CopyRetried_OneMore(p) ==
  /\ tries[p.addon] <= MaxRetries
  /\ posts' = posts \ {p}
  /\ tries' = [tries EXCEPT ![p.addon] = @ + 1]
  /\ copies' = copies \/ (Timeouts /\ copies' = Copying(p.addon))
  /\ UNCHANGED <<rows, chain, stage, group, broken, files, requests, success>>

\* A timeout or a server error is retried.
CopyRetried(p) ==
  /\ tries[p.addon] < MaxRetries
  /\ posts' = posts \ {p}
  /\ tries' = [tries EXCEPT ![p.addon] = @ + 1]
  /\ copies' = copies \/ (Timeouts /\ copies' = Copying(p.addon))
  /\ UNCHANGED <<rows, chain, stage, group, broken, files, requests, success>>

\* WaterButler refuses, or the retries are used up: the target fails, the job
\* row is saved as it was loaded, and the task raises.
CopyFails(p) ==
  LET tg == [target EXCEPT ![Node][p.addon] = "FAILURE"]
      v  == Verdict(Node, p.status, tg)
  IN  /\ TargetFree(Node, p.addon) /\ Unlocked(Written(Node, v))
      /\ posts' = posts \ {p}
      /\ group' = group \ {p.addon}
      /\ broken' = TRUE
      /\ target' = tg
      /\ job' = Saved(Node, v, job)
      /\ IF v # "NONE" /\ Node = Root
         THEN sent' = p.sent /\ UNCHANGED deleted
         ELSE OnFailure(Node, job')
      /\ copies' = copies
           \/ (Timeouts /\ tries[p.addon] = MaxRetries /\ copies' = Copying(p.addon))
      /\ UNCHANGED <<chain, stage, files, tries, requests, success>>

\* archive_addon raises, for instance because the add-on was removed.
AddonFails(a) ==
  /\ InGroup("COPY", a)
  /\ tries[a] = 0
  /\ \A p \in posts : p.addon # a
  /\ group' = group \ {a}
  /\ broken' = TRUE
  /\ OnFailure(Node, job)
  /\ UNCHANGED <<target, job, chain, stage, files, tries, posts, copies, requests, success>>

\* The chord's body: archive_callback, then the next node of the chain.
ChainCallback ==
  /\ chain # <<>> /\ stage = "COPY" /\ group = {} /\ ~broken
  /\ LET d == Decision(target, job, sent)
     IN  Queue(d) /\ deleted' = (deleted \/ d = "FAIL")
  /\ chain' = Tail(chain)
  /\ stage' = "STAT"
  /\ group' = IF Len(chain) > 1 THEN Targets[chain[2]] ELSE {}
  /\ files' = {}
  /\ tries' = [a \in Addons |-> 0]
  /\ UNCHANGED <<target, job, sent, broken, posts, copies, requests, saving, asking, asked>>

-----------------------------------------------------------------------------
\* WaterButler reports a copy to RegistrationCallbackView

\* The request loads the job, updates its target and looks at the other targets
\* as they are committed; a request on the same target waits for its row.
CallbackReads(n, a, st) ==
  /\ ~deleted
  /\ copies[n][a] > 0
  /\ TargetFree(n, a)
  /\ copies' = [copies EXCEPT ![n][a] = @ - 1]
  /\ requests' = requests \cup
       {[node |-> n, addon |-> a, status |-> st, sent |-> sent,
         verdict |-> Verdict(n, job[n].status, [target EXCEPT ![n][a] = st]),
         concluded |-> FALSE, fails |-> FALSE]}
  /\ UNCHANGED <<rows, celery, success>>

\* A deleted registration is Gone.
CallbackGone(n, a) ==
  /\ deleted
  /\ copies[n][a] > 0
  /\ copies' = [copies EXCEPT ![n][a] = @ - 1]
  /\ UNCHANGED <<rows, celery, requests, success>>

\* The rows as the request sees them once it has saved the job: the whole row,
\* with sent as it was loaded.
TargetsSeen(r) == [target EXCEPT ![r.node][r.addon] = r.status]
JobsSeen(r) == Saved(r.node, r.verdict, job)
SentSeen(r) == IF r.verdict # "NONE" /\ r.node = Root THEN r.sent ELSE sent

\* The request saves the job and calls archive_callback, which starts
\* archive_success at once.  When the archive has failed and the registration
\* is cut off its project already, it raises and the request is rolled back.
CallbackConcludes(r) ==
  LET d == Decision(TargetsSeen(r), JobsSeen(r), SentSeen(r))
  IN  /\ ~r.concluded
      /\ Unlocked(Written(r.node, r.verdict))
      /\ Queue(d)
      /\ requests' = IF d = "FAIL" /\ deleted THEN requests \ {r}
                     ELSE (requests \ {r}) \cup
                            {[r EXCEPT !.concluded = TRUE, !.fails = (d = "FAIL")]}
      /\ UNCHANGED <<rows, celery, copies, saving, asking, asked>>

CallbackCommits(r) ==
  /\ r.concluded
  /\ requests' = requests \ {r}
  /\ target' = TargetsSeen(r)
  /\ job' = JobsSeen(r)
  /\ sent' = SentSeen(r)
  /\ deleted' = (deleted \/ r.fails)
  /\ UNCHANGED <<celery, copies, success>>

-----------------------------------------------------------------------------
\* archive_success

Taken(try) == queued[try] > 0 /\ queued' = [queued EXCEPT ![try] = @ - 1]

\* The files are in place: load the job, and go on unless mails are out.
SuccessLoads(try) ==
  /\ Taken(try)
  /\ saving' = IF sent THEN saving ELSE [saving EXCEPT ![job[Root]] = @ + 1]
  /\ UNCHANGED <<rows, celery, copies, requests, asking, asked>>

\* Set sent and save the whole row.
SuccessSaves(row) ==
  /\ saving[row] > 0
  /\ Unlocked({Root})
  /\ saving' = [saving EXCEPT ![row] = @ - 1]
  /\ job' = [job EXCEPT ![Root] = row]
  /\ sent' = TRUE
  /\ asking' = asking + 1
  /\ UNCHANGED <<target, deleted, celery, copies, requests, queued, asked>>

\* ArchivedFileNotFound: tried again once.
FilesMissing ==
  /\ queued.first > 0
  /\ queued' = [first |-> queued.first - 1, again |-> queued.again + 1]
  /\ UNCHANGED <<rows, celery, copies, requests, saving, asking, asked>>

\* archive_success fails for good.
SuccessFails(try) ==
  /\ Taken(try)
  /\ OnFailure(Root, job)
  /\ UNCHANGED <<target, job, celery, copies, requests, saving, asking, asked>>

\* sanction.ask mails the contributors ...
Ask ==
  /\ asking > 0
  /\ asking' = asking - 1
  /\ asked' = asked + 1
  /\ UNCHANGED <<rows, celery, copies, requests, queued, saving>>

\* ... or raises.
AskFails ==
  /\ asking > 0
  /\ asking' = asking - 1
  /\ OnFailure(Root, job)
  /\ UNCHANGED <<target, job, celery, copies, requests, queued, saving, asked>>

-----------------------------------------------------------------------------
Chain ==
  \/ \E a \in Addons : StatAddon(a) \/ StatFails(a)
  \/ ArchiveNode
  \/ SizeExceeded
  \/ \E a \in Addons : CopyStarts(a) \/ AddonFails(a)
  \/ \E p \in posts : CopyAccepted(p) \/ CopyRetried(p) \/ CopyFails(p)
  \/ ChainCallback

Reports ==
  \/ \E n \in Nodes : \E a \in Targets[n] :
       \/ \E st \in {"SUCCESS", "FAILURE"} : CallbackReads(n, a, st)
       \/ CallbackGone(n, a)
  \/ \E r \in requests : CallbackConcludes(r) \/ CallbackCommits(r)

Success ==
  \/ \E try \in {"first", "again"} : SuccessLoads(try) \/ SuccessFails(try)
  \/ \E row \in JobRows : SuccessSaves(row)
  \/ FilesMissing
  \/ Ask
  \/ AskFails

Next == Chain \/ Reports \/ Success

Spec == Init /\ [][Next]_vars

\* Workers take their tasks, WaterButler reports its copies, requests end.
Fairness == WF_vars(Chain) /\ WF_vars(Reports) /\ WF_vars(Success)

FairSpec == Spec /\ Fairness
-----------------------------------------------------------------------------
\* Properties

\* The types of the variables.  WaterButler is never asked for a copy more often
\* than the retries of make_copy_request allow.
TypeOK ==
  /\ target \in [Nodes -> UNION {[Targets[n] -> Statuses \cup {"NETWORK_ERROR"}] : n \in Nodes}]
  /\ job \in [Nodes -> JobRows]
  /\ chain = <<>> \/ group \subseteq Targets[Node]
  /\ \A p \in posts : p.addon \in group /\ p.status \in Statuses /\ p.sent \in BOOLEAN
  /\ {sent, broken, deleted} \subseteq BOOLEAN
  /\ \A n \in Nodes : \A a \in Targets[n] : copies[n][a] \in 0 .. MaxRetries + 1
  /\ \A r \in requests : r.verdict \in {"NONE", "SUCCESS", "FAILURE"}

\* Contributors are never asked about an archive of which any target, at any
\* depth of the tree, has not been reported: its row may not be committed yet,
\* for archive_success starts before that, but the request is past its checks.
AskedIsReported ==
  asked > 0 => \A n \in Nodes : \A a \in Targets[n] :
    \/ target[n][a] \in {"SUCCESS", "FAILURE"}
    \/ \E r \in requests : r.node = n /\ r.addon = a /\ r.concluded

\* A job is not marked successful while one of its targets has failed,
\* whatever requests on the same job overlap (when no request times out).
SuccessIsComplete ==
  \A n \in Nodes : job[n].status = "SUCCESS" => \A a \in Targets[n] : target[n][a] = "SUCCESS"

Outcome == INSTANCE ArchiveOutcome WITH
  archive <- IF deleted THEN "FAILED"
             ELSE IF asked > 0 THEN "SENT"
             ELSE IF job[Root].done \/ TreeFinished(target) THEN "FINISHED"
             ELSE "ARCHIVING"

\* While no copy request times out, the archiver takes the steps the sanctions
\* rely on: in particular, a registration whose contributors have been asked is
\* not torn down any more.  (A torn down one may still be asked about,
\* when two archive_success tasks run at once; its sanction is rejected by then.)
ImplementsOutcome == Outcome!OutcomeSpec

\* Nothing is left for a worker, WaterButler or the API to do.
Idle ==
  /\ chain = <<>> \/ (broken /\ group = {})
  /\ \A n \in Nodes : \A a \in Targets[n] : copies[n][a] = 0
  /\ requests = {} /\ queued.first = 0 /\ queued.again = 0 /\ asking = 0
  /\ \A row \in JobRows : saving[row] = 0

\* The archiver comes to rest: retries end, and no callback starts new work.
Settles == <>[]Idle
=============================================================================
