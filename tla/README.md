# Verification of the OSF

TLA+ models of the parts of osf.io that carry its own logic, checked with TLC,
and their safety proved with TLAPS. The core is the life of a registration
under its *sanctions*: the approval or embargo it is created with, the early
termination of the embargo, and its retraction ("withdrawal"). Around it stand
the archiver, which decides whether a registration lives at all, the revisions
of its answers, the versions and reviews of preprints, the contributors of a
resource and the accounts behind them, the file trees of OSF Storage, and the
queues and transaction of a request, on which all of them run.

Sections 1 and 2 give the inventory and the plan, 3 the core, 4 the proofs of
all modules, 5 to 10 one module each, 11 what the checks found, 12 what is not
modelled. Of every state machine the control is kept and the data reduced to
what the properties tell apart.

## 1. The system

| component | state | operations | hard behaviour | what makes it correct |
|---|---|---|---|---|
| Registration sanctions (`osf/models/sanctions.py`, `registrations.py`, `osf/utils/workflows.py`) | one row per sanction (state, `approval_state` of the admins), foreign keys on the root, `moderation_state` of every node | approve, accept, reject, forcibly_reject, terminate_embargo, withdraw, update_moderation_state | four sanctions on one registration of which only one is active, several copies of a row in one handler, scripts without a transaction | moderation state follows the sanctions; visibility follows the approvals; decisions are final; nothing waits for ever |
| Node visibility (`osf/models/node.py`, `admin/base/utils.py`) | `is_public`, `is_deleted` | set_privacy, change_embargo_date | checks made on one sanction while another is active; DOI minting may fail | nothing unapproved or embargoed is public |
| Registration API (`api/actions`, `api/registrations`) | none of its own | moderator actions, withdrawal requests | a request is undone unless the transition it caused is the one asked for | moderators decide what waits for them, once |
| Nightly scripts (`scripts/*.py`) | none | accept what is overdue, lift embargoes | autocommit, partial failure, retried daily | progress without harming the invariants |
| Archiver (`osf/models/archive.py`, `website/archiver`) | a job per node, a target per add-on, `sent` | copy requests, callbacks, failure handling | celery chains and retries, external callbacks, one verdict for a tree of jobs | exactly one verdict; contributors asked once, and only about a complete copy |
| Schema responses (`osf/models/schema_response.py`) | revisions of the answers, shared blocks, pending approvers | create, update, submit, approve, accept, reject | blocks shared with approved revisions; state also written by the sanctions; approvals that overlap | approved answers never change; what is submitted is valid; revisions are decided |
| Collection submissions (`osf/models/collection_submission.py`) | state, workflow of the provider | submit, accept, reject, remove, resubmit, cancel | side effects on the project's visibility | what is accepted is public and was moderated |
| Preprints (`osf/models/preprint.py`, `osf/utils/machines.py`) | versions, machine_state, is_published, base guid, withdrawal request | create_version, submit, accept, reject, withdraw, un-withdraw, hard delete | review requests that save whole rows, withdrawals undone | published exactly when the workflow says so; one draft |
| Contributors (`osf/models/mixins.py`) | rows, permission groups, visibility, claim records | add, update, remove, manage, claim | checks and writes without a lock | always a registered admin and somebody visible; rows and groups agree |
| Task queues (`framework/celery_tasks`, `framework/postcommit_tasks`, `framework/transactions`) | thread-local queues | enqueue, dispatch, clear | order with the commit, exceptions in between | tasks of committed requests only, all of them |
| OSF Storage (`addons/osfstorage`, `osf/models/files.py`) | file tree, targets, checkouts, primary files | create, move, copy, delete, restore, check in/out | checkouts and primary files deep in a tree, delayed tasks | no checked out file moves; files belong to the tree they lie in |
| Identifiers, outcomes | identifiers, resources | finalize, update, delete | shared identifiers | one finalized resource per identifier and type |
| Bulk upload (`api/providers/tasks.py`) | job and row states | prepare, pick up, create, finish | two tasks save the same job | a job ends in the state of its rows |
| Accounts (`osf/models/user.py`) | registered, disabled, merged, deleted; emails | register, claim, merge, disable, delete | many tables in one merge | no permission lost |
| Spam, notifications, drafts, authentication, add-ons, search, metadata, front end, metrics, maintenance | see `PROJECT.json` | | | |

They interact by direct calls inside a request (one database transaction:
`ATOMIC_REQUESTS` in the API, `framework/transactions` in the website), by
celery tasks (the archiver, notifications), by the celery beat that starts the
scripts, and through the rows they share. The archiver and the sanctions meet
in three places: contributors are asked when the archive is complete, a failed
archive rejects the active sanction, and the approval script waits for the
root's archive job. Sanctions and schema responses meet in
`update_moderation_state`, which writes the state of the sanction into the
initial response. Contributors meet OSF Storage in the signal
`contributor_removed`, whose task checks files in; accounts meet both when they
are merged. The API and the website send their celery tasks through the queues
of the request.

## 2. Plan

1. **RegistrationSanctions** with **ApprovalWorkflow** as its abstract
   specification, the MC module, and **RegistrationSanctionsProofs** - *done*.
2. **Archiver** with **ArchiveOutcome** as its abstract specification: jobs and
   targets of a tree, copy requests with retries, callbacks, `archive_success`,
   `on_failure`, `handle_archive_fail` - *done*. The `archive` variable of the
   core is its interface.
3. **SchemaResponses** - *done*, 4. **Preprints** - *done*, 5. **RequestTasks**
   - *done*, 6. **Contributors**, with the accounts behind them - *done*,
   7. **OsfStorage** - *done*. Each module has a proof module with a theorem for
   every safety property its runs check.
8. **SanctionRequests**: two requests on one sanction, split into read and
   write under READ COMMITTED, without row locks; which invariants of the core
   survive, and lost approvals. An extension of the core with revert to draft.
9. **CollectionSubmissions**, 10. **Resources** (outcomes that share an
   identifier), 11. **BulkUpload**, 12. **Digests** of notifications.

The order is that of importance: the review workflows, then what they run on.
Every module has one passing run (the core and the archiver two, because their
liveness and their safety need different instances). Runs stay small: two actors
of a kind, a root and one component, two rows of everything that can be
replaced. Every module states a type invariant; the other properties are aimed
at the hazards that `PROJECT.json` lists with the lines where they bite.

A definition whose name has a suffix (`Lifted_RequestForgotten`,
`Deleted_Own`, ...) stands directly above the definition it is a faulty version
of. They are the deliberate faults used to see that a property can fail; nothing
else uses them. `PROJECT.json` names one for each property.

## 3. The core: RegistrationSanctions

### State and its counterpart

| variable | code |
|---|---|
| `moderated` | `provider.is_reviewed`, fixed |
| `archive` | `ARCHIVING` (the root's job is not done), `FINISHED`, `SENT` (`job.sent`, contributors asked), `FAILED` |
| `state[s]` | `state` of the sanction row `s`; `NONE` before it is created |
| `approved[s]` | users whose `has_approved` is set in `approval_state` |
| `retraction`, `termination` | the foreign keys of the root. The keys to approval and embargo never change, so they are the constants `Approval` and `Embargo`, and a registration has those whose state is not `NONE` |
| `forExisting` | `embargo.for_existing_registration` |
| `modState`, `public` | `moderation_state` and `is_public` of every node |
| `deleted`, `source` | `is_deleted` and `registered_from`, which `delete_registration_tree` sets on the tree |

A registration starts private and unapproved, with an approval or an embargo,
while its archive is being made.

### Actions

Every action is one handler with all it calls, and ends with the
`update_moderation_state` of the code (`Settle`) where the code does.

* **Admin contributors** - `AdminApprove`, `AdminReject` (token links and the
  API), `RequestRetraction`, `RequestTermination` (making an embargoed
  registration public), `MakePublic`.
* **Moderators** - `ModeratorAccept`, `ModeratorReject`, `ForceWithdraw`: the
  API rolls the request back unless the last `RegistrationAction` carries the
  trigger asked for. The actions written are not kept: as a conjunct over
  `modState'` the change has to be one that writes such an action. Only forced
  withdrawals can be repeated without writing one; `ForceWithdraw` allows that
  whenever some retraction took effect before, which is a little more than the
  code does (the earlier one must have been forced as well).
* **Nightly scripts** - `NightlyApproval`, `NightlyEmbargo`, `NightlyExpiry`,
  `NightlyTermination`, `NightlyRetraction` and `NightlyRetractionFails`.
  The celery task opens no transaction (only
  `approve_embargo_terminations` does), so `transaction.savepoint()` in the
  scripts is a no-op and a failed publication leaves what was saved before.
  `NightlyExpiry(P)` publishes the nodes of `P`, root first;
  `RegistrationApproval._on_complete` has an atomic block of its own, so a
  failure there leaves nothing. The branch of `embargo_registrations` for
  deleted registrations is dead: its two conditions already exclude them.
* **Archiver** - `ArchiveFinished`, `ArchiveSuccess`, `ArchiveFail`.
* **Admin application** - `UpdateEmbargo`, `AddEmbargo`,
  `UpdateModerationState`. The first models the saved stale copy of the root.

### Abstractions

A request is one step (concurrent requests on the same row are planned). Time
is left out: anything may become overdue, any embargo may reach its end, at any
moment. Tokens are perfect. The authorizers of all sanctions are the same set.
A publication can fail only inside a script and only as set_privacy raises (no
DOI, spam); a process that dies between two statements is not modelled. Left
out altogether: revert to draft, deletion and restoration by site admins, spam
flags, the copy of the state into schema responses (section 6), contributor changes,
`has_rejected`, `force_archive`.

### Properties

| property | says |
|---|---|
| `TypeOK` | foreign keys point at rows of their type, a node's moderation state is never UNDEFINED |
| `PublicIsApproved` | what is public no longer waits for its admins |
| `EmbargoIsHonoured` | without moderation, an embargo in force means private, also after half-finished scripts and renewed embargoes |
| `WithdrawnAgrees` | WITHDRAWN exactly when the attached retraction is approved |
| `TerminationIsSettled` | a pending request never outlives its embargo |
| `ComponentsAreCurrent` | components always hold the derived moderation state |
| `RejectedIsDeleted` | a rejected approval leaves the registration deleted; a registration without project is deleted. It does not speak of rejected embargoes: a forced withdrawal rejects one and deletes nothing |
| `DeletedStaysPrivate` | no step publishes what was deleted and cut off |
| `DecisionsAreFinal` | decisions are overturned only by a failing archive |
| `FollowsWorkflow` | every sanction but the embargo refines `ApprovalWorkflow` |
| `SanctionsAreDecided` | approvals, embargoes and retractions do not wait for ever (`ApprovalIsDecided`, `EmbargoEnds`, `RetractionIsDecided`) |

`EmbargoIsHonoured` is limited to registries without moderation because with
moderation an admin may publish between the admins' approval and the
moderators' (section 11), after which the moderators put the
public registration under embargo. `DeletedStaysPrivate` speaks of
registrations cut off their project because an embargo that a site admin added
keeps a deleted registration attached, and a pending retraction then publishes
it.

### Runs

| run | instance | distinct states | shows |
|---|---|---|---|
| `sanctions` | 1 admin, root and component, 2 terminations, 2 retractions, symmetric | 119 663 | the invariants and action properties that relate rows, foreign keys, moderation state and visibility |
| `sanctions_live` | 2 admins, root and component, 1 termination, 1 retraction | 39 007 | `PublicIsApproved`, the refinement `FollowsWorkflow`, the liveness of `SanctionsAreDecided` |
| `expired_accepted` | 1 admin, root and component, 1 termination, 1 retraction | found violated | finding 1 |

Why this is enough: two admins separate "one approved" from "all approved";
root and component separate the copies written through the root; two rows of a
kind allow a request to be replaced after a decision, and a third adds no new
relation because only the attached row is looked at. State graphs are finite
without further bounds: rows are used once, approvals are sets.

Symmetry (admins, terminations, retractions) is used only in the first run,
which checks no liveness.

### Fairness

Weak fairness of each nightly script and of the archiver: the beat starts the
scripts every day (`website/settings/defaults.py`, `beat_schedule`), they try
every row again, and the archiver's jobs end (a stuck job is failed by hand).
Admins, moderators and site admins owe nothing. `NightlyExpiry` is fair for
some set of published nodes, so even a DOI service that never answers does not
stop an embargo from *ending* - the registration may then stay private
(section 11). `SettledSpec` adds that the site admins eventually leave the
registration alone; they could otherwise renew an embargo for ever.

## 4. Proofs

Every module `M` that describes code has a module `MProofs` beside it. For every
value of the constants TLAPS proves every invariant and action property of the
passing runs, and both refinements; `PROJECT.json` lists the theorems.

| module | holds for any | theorems |
|---|---|---|
| `RegistrationSanctionsProofs` | admins, nodes, terminations, retractions | `TypeCorrect`, one per invariant, `DecisionsAreFinalAlways`, `DeletedStaysPrivateAlways`, `ImplementsWorkflow` |
| `ArchiverProofs` | tree, add-ons, retries | `TypeCorrect`, `AskedIsReportedAlways`; without timeouts `SuccessIsCompleteAlways`, `ArchiverImplementsOutcome` |
| `SchemaResponsesProofs` | admins, form, answers, number of versions | `TypeCorrect`, `SubmittedIsValidAlways`, `RevisionsDifferAlways`, `ApprovedStays` |
| `PreprintsProofs` | workflows, versions, review requests | `TypeCorrect`, `PublicationFollowsTheState`, `DecisionsAreShown`, `OneDraftAtATime` |
| `RequestTasksProofs` | stacks, number of requests | `TypeCorrect`, `TasksFollowTheCommit`, `ResponsesTellTheTruth`, `TasksAreSentInTheirRequest` |
| `ContributorsProofs` | users, groups among the three of OSF, requests in flight | `TypeCorrect`, `PermissionsAgree`, `AlwaysVisible`, `AlwaysAnAdmin`, `MergingIsSafe` |
| `OsfStorageProofs` | projects, preprints, users, finite set of items, items that may be checked out, limits on checkouts and tasks | `TypeCorrect`, `FilesFollowTheirRoot`, `CheckedOutNeverMoves`, `CheckedOutByContributorsAlways`, `PrimaryStaysAlways`, `NothingOutlivesItsProjectAlways` |

What is assumed of the constants is named in the module that declares them and
evaluated by TLC in its run: roots and creators belong to their sets, rows of
two kinds are distinct, `None` is none of them, bounds are numbers. Two say more.
`TreeAssumption` has every node at most once in `Order`, as
`node_and_primary_descendants` yields it, because a node archived twice would
have two reports of each target. `~Timeouts` is a hypothesis of two theorems
because without it they are false (section 5).

Each module has one inductive invariant, `Inv` (the archiver a second one,
`OnceInv`, for what needs `~Timeouts`), with one step per action, and lemmas for
the handlers that actions share. The properties are seldom inductive as they
stand. What had to be added, and why:

**RegistrationSanctions.** `RowsOK`, the relations between rows and foreign keys:
an attached row exists, the approval is never COMPLETED, an approval in `NONE`
means there is an embargo. The derived moderation state is defined only for the
stages a row of its type can be in; `EmbargoIsHonoured` survives `MakePublic` and
the scripts only since a pending or approved embargo blocks `MayPublish`; a
termination attached to a registration was requested under an embargo in force,
which only a retraction can cancel. `Moves` and `Approves` describe how a step
may move a row's stage: from them follow the finality of decisions and the
refinement.

**Archiver.** `Waiting`, that nothing is reported of a node before its turn in the
chain; `Attempts`, that a target has at most one attempt under way and never more
copies than were tried;
`SuccessIsReported`, that an `archive_success` in any stage implies a report of
every target, committed or in a request that has concluded. For the refinement
one has to show that a torn down registration is never asked about for the first
time. `OnceInv` does: each target is reported once (`OneCopy`), so that once
`archive_success` is queued at most one request is open, it has concluded and it
does not fail (`LastRequest`), no verdict is based on a failed target
(`VerdictsAreTrue`), and nobody saves a job row that predates `sent`
(`SentStays`).

**SchemaResponses.** `Lineage`: a revision revises an older response which is
settled and not deleted before it. `BlocksAreShared`: a response has a block of
its own for what it changed and shares the others with what it revises, and others
hold a block only once its source is settled. An edit, a revert or a deletion
of what is not settled therefore touches no block that an approved version holds.
`CreationsAreSound` and `ApprovalsAreSound` say that what a request has read is
still usable when it writes, `NeverSentBack` marks where the exception of the
initial response begins, and `ChangesAreChanges` turns "has a block" into
"differs": what reaches the comparison is free of markup, and what
`set_response` stores is that value unless it counts as none, where the block
is one of an optional question, because a required one would not be valid.

**Preprints.** A review request saves a whole row that it loaded earlier, so
`PublishedAgreesWithState` must hold of the copies in memory as well
(`LoadedIsGood`), and `RowsAreGood` says what every handler saves.
`WithdrawnFromOK` says the same of the states withdrawals are undone to.

**RequestTasks.** The handlers run in a fixed order, and the invariant says for
each place in that order what the transaction, the queues and the status may be
(`Shape`, `Begun`, `FlaskEnds`, `DjangoEnds`, `ErrorIsAnswered`,
`RefusedIsCleared`), that the queues hold nothing but what the current request
asked for (`OwnTasks`), and that what was asked for and not sent is still queued
(`StillQueued`).

**Contributors.** `ChecksHold`: what a request in flight has checked still holds
until somebody else writes. That is where the exemption of overlaps
comes from, and it is exactly as wide as the proof needs: a request that is not
`stale` cannot take the last admin or the last visible contributor.

**OsfStorage.** `Grounded`: in every nonempty set of items one has its folder
outside the set. It is how a proof says that folders form trees, and every move,
copy and deletion preserves it. With `Hanging` (the folder of what is
live is live and of the same target) it yields `TargetsAgree` at any depth, and
shows that checking the items below a folder and checking the folders above an
item agree, on which `CheckedOutStays` rests. `PrimaryHangs` looks at the folder
of a primary file too, and `Emptied` at what hangs in the root of a deleted project.
Where `get_root` finds one root, nothing else in the tree of that root is marked
as one (`MarkedIs`, `ProjectRootIs`), so that deleting the root's tree spares
nothing below it.

The recursive functions of the models (`origins` in SchemaResponses, the path in
`Above`) are never computed in the proofs. The induction theorems of the library
cannot be used with these provers; a smallest counterexample stands in
(`NatLessThanWellFounded` over the versions, `Grounded` over the folders). That the
defining equation of `path` has a solution is proved (`UpIs`), not assumed.

Only model-checked are the three liveness properties `SanctionsAreDecided`,
`RevisionIsDecided` and `Settles`: fairness means ENABLED, which is out of the
provers' reach. The three violated statements of section 11 are counterexamples,
and need TLC.

## 5. Archiver

### State and its counterpart

| variable | code |
|---|---|
| `target`, `job`, `sent` | the rows of `ArchiveTarget` and `ArchiveJob` as they are committed: a target per add-on, a job per node, and `sent` of the root's job |
| `chain`, `stage`, `group`, `broken` | the celery chain `after_register` starts: the nodes whose `archive` is not over, whether the head node measures (`stat_addon`) or copies (`make_copy_request`), which tasks of that group are not over, and whether one failed. The other tasks of a failed group go on; its body and the rest of the chain never run |
| `files`, `tries`, `posts` | what `stat_addon` found, the failed attempts of `make_copy_request`, and the attempts under way with the job row each has loaded |
| `copies` | copies that WaterButler is making and will report |
| `requests` | callback requests with an open transaction: the verdict they came to, and whether they are past `archive_callback` |
| `queued`, `saving`, `asking`, `asked` | `archive_success` tasks: queued, about to save the row they loaded, about to call `sanction.ask`, and how often the contributors were asked |
| `deleted` | `handle_archive_fail` has deleted the registration |

### Actions and what is atomic

The chain (`StatAddon` to `ChainCallback`), the callback request in three steps
(`CallbackReads`, `CallbackConcludes`, `CallbackCommits`) and `archive_success`
in three (`SuccessLoads`, `SuccessSaves`, `Ask`) interleave freely. Requests run
under `ATOMIC_REQUESTS` and PostgreSQL's READ COMMITTED: a request sees what is
committed and what it wrote itself, and a writer waits for the row another
transaction has written (`TargetFree`, `Unlocked`, modelled as external). It
starts `archive_success` before it commits, as the code does. A celery task is
not in a transaction. The tasks that spend long between reading and writing a
row, the copy requests and `archive_success`, do so in two steps;
the others read and write in one.

### Abstractions

A duplicate is a counter, not a list. `handle_archive_fail` on a registration
that is cut off already raises (there is no `registered_from`), so it has no
second effect. Left out: missing job rows and the retry of loading them,
`force_archive`, Dataverse with its two targets, the wording of the mails,
rewriting of file references, the branch of the view for errors of the
callback's payload. `Timeouts` allows a copy request to time out although
WaterButler carries it out, which yields several reports of one target.

### Properties

| property | says |
|---|---|
| `TypeOK` | types, and no target is being copied more often than the retries allow |
| `AskedIsReported` | contributors are asked only when every target of the tree was reported, whatever overlaps or is reported twice |
| `SuccessIsComplete` | no job is successful with a failed or missing target, although rows are saved whole from old copies |
| `ImplementsOutcome` | the archiver refines `ArchiveOutcome`, the steps `ArchiveFinished`, `ArchiveSuccess` and `ArchiveFail` of the core: contributors once asked, the archive fails no more |
| `Settles` | retries and callbacks end |

`SuccessIsComplete` and `ImplementsOutcome` are claimed, and checked, only
while no timed out request is carried out. With `Timeouts` they fail: a second
report may turn a copied target into a failed one, and the failure of a retried
request may save a job row in which `sent` is still unset. A torn down
registration may still be asked about, when two `archive_success` tasks run at
once; the refinement mapping gives FAILED precedence, and the sanction is
rejected by then.

### Runs

| run | instance | distinct states | shows |
|---|---|---|---|
| `archiver` | root and component, two add-ons each, 1 retry | 53 433 | `SuccessIsComplete`, `ImplementsOutcome` |
| `archiver_timeouts` | root and component, OSF Storage only, 1 retry, timeouts, fair | 81 316 | `TypeOK`, `AskedIsReported`, `Settles` |

Two nodes give overlapping callbacks of different jobs, two add-ons overlapping
callbacks of one job. (Trees of three levels, where `_fail_above` stops short,
are not checked, see section 11.) One retry stands for the three of the code: it separates the first, the
repeated and the last attempt. Deadlock is not checked, because the archiver
stops when it is done.

### Fairness

Weak fairness of the celery workers and of the API with WaterButler: each of
these has some task or request to take as long as work is left, and takes it.
That WaterButler eventually reports every copy is assumed.

## 6. SchemaResponses

### State and its counterpart

| variable | code |
|---|---|
| `moderated`, `sanction`, `late`, `deleted` | the registration: `is_moderated`, the state of its approval or embargo, whether that is an embargo a site admin added later, and whether it was deleted with its first sanction |
| `state`, `previous`, `pending` | `reviews_state`, `previous_response`, `pending_approvers` of each response; response 1 is the initial one, a number is used again after its response was deleted |
| `block`, `holds` | the blocks whose source is a response, and for every response and question the source of the block it holds: `response_blocks` shares blocks between versions |
| `creating`, `approving` | requests between their check and their writes: creations of a revision, and approvals with whether anybody else was left to approve |

### Actions

`CreationChecks` / `CreationInserts` (the query of
`create_from_previous_response` and the insert), `UpdateResponse` (one answer of
a PATCH, with what becomes of it on the way: the serializer of the API strips its
markup (`Cleaned`), what is left is compared with the answer held and with the
version before, and `set_response` strips again and stores the default for what
counts as none (`Stored`); the answer is changed, reverted or put in a new block),
`Delete` with the cascade of
the foreign key, `Submit`, `ApprovalChecks` / `ApprovalCommits`, `AdminReject`,
`ModeratorAccept`, `ModeratorReject`, `NightlyAccept` of any set of overdue
responses, and on the side of the registration `SanctionMoves`, `AddEmbargo` and
`UpdateModerationState`, which write the sanction's state into the initial
response. Everything but creations and approvals is one step. An approval
overlaps approvals of the same response only. Left out: withdrawal of the
registration, a PATCH that overlaps a submission, an approval that overlaps a
rejection, the justification, changes of contributors, `allow_updates`.

### Properties and runs

| property | says |
|---|---|
| `TypeOK` | types, and no response ends in COMPLETED, out of which its machine has no way |
| `SubmittedIsValid` | every version answers every question, and what is submitted or approved has passed validation, inherited answers included |
| `RevisionsDiffer` | nobody is asked about a revision that revises nothing, although values are compared before they are stored; the one way around it is an optional question answered anew with nothing |
| `ApprovedIsFrozen` | no step changes an answer of an approved version, although later revisions share and delete its blocks |
| `RevisionIsDecided` | an unapproved revision does not wait for ever |

`schema_responses` (740 618 states): two admins, one of whom creates, a required
question with two answers, the blank one and one with markup, an optional one
that was left blank and has one answer and a value that counts as none, an
initial response and two revisions, moderated and not. A third version is needed for blocks shared over two
generations, a second question for one shared block beside one that is not. It
stops when the registration is deleted, so deadlock is not checked.
`one_open_revision`: two creators, violated in six states (finding 2).

The exceptions stated in the properties are real: when the moderators, or an
embargo added later, send the *initial* response back, the code lets its answers
be changed, and the revisions that hold its blocks change with it.

Fairness: for each revision, the nightly script accepts it if it stays overdue
(the celery beat starts it every day), and a request that approves ends. People
owe nothing. Of two approvals that overlap each may see the other approver left,
so that nobody completes the approval; it is the script that does.

## 7. Preprints

### State and its counterpart

| variable | code |
|---|---|
| `workflow` | `reviews_workflow` of the provider |
| `made`, `rejected`, `base` | the versions in `GuidVersionsThrough`, those with `is_rejected`, and the version the base guid refers to |
| `row` | `machine_state`, `is_published`, `ever_public` (set together with `date_published`) and whether there is a `date_withdrawn` |
| `before`, `withdrawal` | the state from which a version was withdrawn (its last action), and the state of the withdrawal request |
| `loaded`, `overwritten` | what review requests under way have loaded; a history variable for versions that such a request has saved over |

### Actions

`CreateVersion`, `Publish` (no moderation), `HardDelete`, the review action in
two steps (`Load`, then `Commit` of a trigger or `Refuse`: the preprint is
loaded without a lock and saved with every column), `AskWithdrawal` (approved at
once for what was never public under pre-moderation), `AcceptWithdrawal`,
`RejectWithdrawal`, `Unwithdraw`. Left out: what a submission requires of files
and subjects, spam and `is_public`, the recovery and re-versioning pages of the
admin application, a provider that changes its workflow, hybrid moderation
("not relevant" for preprints, as `run_submit` says), a hard delete while a
review of that draft is under way.

### Properties and runs

| property | says |
|---|---|
| `TypeOK` | types; the link leads to a version that exists |
| `PublishedAgreesWithState` | what is not withdrawn is published exactly when its state is public under the workflow, whatever requests overlap |
| `DecisionsShow` | the flags that later requests go by follow accepted withdrawals, rejections and acceptances, unless a review request overwrote the row |
| `OneDraft` | at most one draft, the newest version, and the link of a moderated preprint does not lead to it while there is another version |

`preprints` (2 429 077 states): two versions, two review requests at a time,
the three workflows, symmetric in the requests. Two versions are the least for
the link to move, two requests the least to overlap. A behaviour ends when the
only version is deleted, so deadlock is not checked.

## 8. RequestTasks

### State and its counterpart

One thread of a server of the `stack` Flask or Django serves requests one after
the other. `phase` and `todo` say where it is and which handlers are left,
`status` and `error` what the client is told, `transaction` what became of the
request's transaction. `queue` are the three thread-local queues of
`framework/celery_tasks` and `framework/postcommit_tasks` (tasks, functions,
signatures), each holding the number of the requests that put something in it;
`asked`, `sent`, `late` and `lost` record what was asked for and what became of
it.

### Actions

`Begin` (the before handlers), `Enqueue`, `FlaskResponds`, `DjangoReturns`,
`DjangoRaises`, then one action for each handler and for each way it fails:
`PostcommitClears`, `PostcommitRuns`, `PostcommitFails`, `LateFunction`
(a function that goes on after the pool's five seconds), `TransactionEnds`,
`CommitFails`, `CeleryClears`, `Teardown`, `TeardownFails`. `FlaskAfter` and
`DjangoAfter` give their order: Flask calls `after_request` handlers in reverse
order of registration and its teardown handlers always. Left out: views without
a transaction, `once_per_request`, before handlers that fail, tasks queued
outside requests, `DEBUG_MODE`.

### Properties and runs

| property | says |
|---|---|
| `TypeOK` | types, and no finished request leaves a transaction open |
| `SentIsCommitted` | a celery task is sent only once its transaction is committed; behind the API that holds for functions and signatures too |
| `ResponsesAreTrue` | who is told *ok* gets the tasks, unless the broker is down; a 500 of Flask changed nothing |
| `SentInItsRequest` | what a request leaves behind in the queues is never sent by a later one |

`request_tasks` (3 464 222 states): three requests on either stack. Two separate a
request from the one before, the third follows a request that found something
left. The thread stops after its requests, so deadlock is not checked.
`postcommit_after_commit`: one request of Flask (finding 3).

## 9. Contributors

### State and its counterpart

One resource (a node or a preprint: the mixin is the same) and the accounts of
its users. `contributors` and `visible` are the rows of the contributor table,
`groups` the Django groups, `unclaimed` the claim records, `status` what has
become of an account. `flight` holds requests (`PATCH`, `DELETE` of a
contributor) that have checked and not yet written, `stale` those for which
somebody else has written in between; `excuse` remembers that such a request
did write (`raced`), or that a site admin removed somebody by force.

### Actions

`AddContributor`, `AddAgain`, `AddRefused` (a list of invitations that is refused
half-way with a 400, which commits the claim records saved until then),
`CopyContributor` (forks and components), the
two-step requests `ChangeChecks` / `ChangeWrites` and `RemoveChecks` /
`RemoveWrites`, `Manage` (the whole list at once), `SiteAdminRemoves`, and for
the accounts `Register`, `Claim`, `Merge`, `Disable`, `Reactivate`,
`GdprDelete`. The latter are one step and make requests in flight stale. Left
out: the order of contributors, curators, add-ons, several resources (so the
loops over nodes are several steps), claims kept in a session (with one, an
account that is not confirmed yet could take over from the last registered
admin), registration through an external identity provider (which keeps the
claim records), the deletion of an account before it was registered, a merge that
fails half-way. A user who was merged is added as the user merged into; that a
merged account is named by its own id is left out.

### Properties and runs

| property | says |
|---|---|
| `TypeOK` | types, and only contributors are cited. A claim record need not lead to a contributor |
| `GroupsAgree` | every contributor has one permission and nobody else any; a merged account is left with nothing |
| `SomeVisible` | somebody is left to cite |
| `RegisteredAdmin` | a registered admin is left, whoever merges, claims or deletes |
| `MergeKeepsTheBest` | a merge takes no permission and no citation from anybody |

`contributors` (493 167 states): three users, the permissions read and admin, one
request in flight, symmetric. Three users allow one to leave while another is
merged into the third. All but `TypeOK` exempt what the code does not defend:
requests that overlap (no row is locked), and for `SomeVisible` and
`RegisteredAdmin` removals by site admins. They say that there is no *other* way to
lose the last one. Everybody may be deleted in the end, so deadlock is not
checked.

## 10. OsfStorage

### State and its counterpart

| variable | code |
|---|---|
| `state`, `parent`, `target`, `checkout` | of each file or folder: whether it is live or in the trash (the type of the row), its folder, the project or preprint it belongs to, and who has checked it out |
| `isRoot` | folders with `is_root`: the roots, and the copies of roots, which `BaseModel.clone` leaves marked |
| `primary` | `primary_file` of each preprint |
| `deleted`, `contributors`, `merged` | projects that are deleted, contributors of each target whatever their permission (which is what the check-in task tests), accounts that were merged |
| `tasks` | celery tasks sent and not run: `checkin_files_task`, `delete_files_task` |
| `strays`, `orphans`, `spared` | history: files restored under a folder that had moved to another target, files whose user was merged after losing the project, projects whose task failed or that got files late |

### Actions

The hooks of WaterButler (`CreateChild`, `Move`, `Copy`, `Delete`), which are not
guarded by a permission because the request was authorized when it began.
`Copy` takes whole storages too, as the archiver asks for them
(`website/archiver/tasks.py:286`); their copies are second roots, and where there
is one `OneRoot` fails `Delete` and `DeleteFiles`. The
API (`CheckOut`, `CheckIn`, `SetPrimary`, which lock the row); `AddContributor`,
`RemoveContributor`, `Merge`; `RemoveNode`; the tasks `CheckinFiles` and
`DeleteFiles`, run at any later time; `Restore`. A whole subtree is moved, copied,
or deleted in one step. Left out: versions, names and regions, registrations,
hooks that overlap each other or a checkout, a checkout that overlaps the removal
of its user, folders moved or copied into themselves (WaterButler does not), the
move of a whole storage (the file browser offers none, and the repository only
copies them), the deletion of preprints and of projects by site admins (which
sends no task), restoration of folders. A copied root may keep its empty name,
and requests that go by paths may then go astray; names are not modelled.

### Properties and runs

| property | says |
|---|---|
| `TypeOK` | types; nothing in the trash is checked out |
| `TargetsAgree` | what is live can be reached from a root and belongs to the target of that root, at any depth, `strays` apart |
| `CheckedOutStays` | no step moves, deletes or re-targets what is checked out, nor a folder above it |
| `CheckedOutByContributors` | a file is checked out by a contributor or a task is under way to check it in, `orphans` apart |
| `PrimaryStays` | the primary file stays live and in the tree of its preprint |
| `NothingOutlivesItsProject` | after its task a deleted project has no files, `spared` ones apart |

`osf_storage` (232 069 states): a project and a preprint, two folders, a file,
two users, one item checked out and one task waiting at a time, symmetric in
folders and users. Users check out the file (`Wanted`). Two folders put a file
below the children of what is moved, and take the copy of a root with a folder
in it; copies need as many new ids as the tree has items. The properties hold as
well with `Wanted` extended by the project's root (425 723 states), by the folders
(497 215), and by everything (926 023), which takes TLC longer. Deadlock is
checked.

## 11. What the checks found

Findings, each with its run:

1. `ExpiredIsAccepted` (`expired_accepted`) - an embargo that expires with a
   termination request pending leaves the root in PENDING_EMBARGO_TERMINATION.
2. `OneOpenRevision` (`one_open_revision`) - two requests may both start a
   revision of the same response; what the first approved one changed is hidden by the
   second.
3. `PostcommitIsAfterCommit` (`postcommit_after_commit`) - in the website,
   postcommit functions and signatures go out before the transaction commits.

`PROJECT.json` quotes the line each of them contradicts.

Other disagreements noted while modelling. No run checks them; where the module
has the steps, its properties are stated so as to allow for them:

* A retraction requested before the embargo is approved and then rejected leaves
  a registration in INITIAL or PENDING, where a comment says ACCEPTED or EMBARGO
  (`osf/utils/workflows.py:104`).
* `set_privacy` tests `is_pending_approval`, so an admin can publish a
  registration that waits for its moderators (`osf/models/node.py:1214`).
* A publication that fails at the end of an embargo leaves a completed embargo on
  a private registration; the savepoint of the script does nothing, because no
  transaction is open (`scripts/embargo_registrations.py:106`).
* `_fail_above` marks the job just above only (`osf/models/archive.py:117`). The
  final failure of a copy request is taken as already captured, and nothing is
  torn down (`website/archiver/tasks.py:133`). Of two overlapping callbacks
  neither may see the tree complete, and then nobody is asked (line 539); two
  `archive_success` tasks may ask twice, or after a failure (line 489). When
  asking fails, `sent` is set already (line 492).
* Deleting a draft refers the link to the last earlier version that is not
  rejected, even if that was withdrawn unseen (`admin/preprints/views.py:447`). A
  review request that overlaps may set `ever_public` back. Accepting an older
  rejected version moves the link back. Undoing a withdrawal may leave two
  versions pending.
* A claim record is deleted before the removal of its contributor is refused
  (`osf/models/mixins.py:1869`); `set_permissions` counts registered admins where
  `remove_contributor` counts active ones (line 2180); `gdpr_delete` leaves nodes
  before it fails on a preprint (`osf/models/user.py:2060`); accounts are merged
  in a task without a transaction (`api/users/tasks.py:34`). An invitation refused
  half-way commits claim records that lead to no contributor
  (`website/project/views/contributor.py:173`).
* An answer is compared before `set_response` turns it into what it stores, so a
  revision that answers an empty optional question with another empty value may
  be submitted although nothing changes (`osf/models/schema_response.py:246`,
  `osf/models/schema_response_block.py:68`).
* A checked out file keeps its deleted project's files alive, because the task
  that deletes them raises and is not retried (`addons/osfstorage/listeners.py:52`).
  A whole storage copied into a project makes a second root there: the task then
  fails as soon as it looks for the root (line 48), and until then no file of that
  project can be deleted (`addons/osfstorage/models.py:30`,
  `osf/models/base.py:168`).
  Checked out folders are not checked in with their user. A file restored after
  its folder moved keeps the old target.

## 12. Not modelled

Each of the sections above names what its module leaves out, and section 2 what
is planned. Left out for good: adapters to third-party
storage and citation services, search and metadata (derived data), web front
end, metrics and logs, one-off maintenance commands, CAS and session handling.
`PROJECT.json` lists each with its reason.
