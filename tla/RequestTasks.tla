----------------------------- MODULE RequestTasks -----------------------------
(***************************************************************************)
(* What one thread of a web server does with the tasks its requests queue. *)
(* A request writes in a transaction, and leaves celery tasks (enqueue_    *)
(* task), functions and celery signatures (enqueue_postcommit_task) in the *)
(* queues of its thread.  Handlers around the view commit or roll back and *)
(* empty the queues: attach_handlers orders them for the Flask             *)
(* application, MIDDLEWARE for the API.  Flask calls after_request handlers *)
(* in reverse order, and once more with its own error response when one of *)
(* them raises; a Django middleware that raises turns the response into an *)
(* error for the middlewares around it.                                    *)
(*                                                                         *)
(* A queue holds the numbers of the requests that put something in it.     *)
(***************************************************************************)
EXTENDS Naturals, Sequences

CONSTANTS
  Stacks,       \* the applications: a subset of {"flask", "django"}
  MaxRequests   \* bound on the requests of the thread

ASSUME StacksAssumption == Stacks \subseteq {"flask", "django"}
ASSUME MaxRequestsAssumption == MaxRequests \in Nat \ {0}

Numbers == 1 .. MaxRequests
Kinds == {"task", "function", "signature"}

VARIABLES
  stack,       \* the application the thread serves
  request,     \* number of the request, 0 before the first
  phase,       \* "idle", "view", or "after" the view
  todo,        \* the handlers left to run
  status,      \* of the responses: "ok" below 400, "client" below 500, "server"
  error,       \* Flask: an exception reached wsgi_app
  transaction, \* of each request: "none", "open", "committed", "rolled back"
  queue,       \* _local.queue, postcommit_queue and postcommit_celery_queue
  asked,       \* history: what was queued
  late,        \* functions still running when the pool's five seconds were over
  sent,        \* history: tasks and signatures sent, functions run
  lost         \* history: requests whose tasks the broker did not take

vars == <<stack, request, phase, todo, status, error, transaction, queue, asked,
          late, sent, lost>>

Statuses == {"ok", "client", "server"}

NoTasks == [k \in Kinds |-> {}]

Init ==
  /\ stack \in Stacks
  /\ request = 0
  /\ phase = "idle"
  /\ todo = <<>>
  /\ status = [n \in Numbers |-> "ok"]
  /\ error = FALSE
  /\ transaction = [n \in Numbers |-> "none"]
  /\ queue = NoTasks
  /\ asked = {}
  /\ late = {}
  /\ sent = {}
  /\ lost = {}

-----------------------------------------------------------------------------
\* Fault: the celery queue of the thread is not emptied.
Fresh_Celery == [NoTasks EXCEPT !["task"] = queue["task"]]

\* celery_before_request and postcommit_before_request
Fresh == NoTasks

\* before_request handlers; transaction_before_request, ATOMIC_REQUESTS
Begin ==
  /\ phase = "idle"
  /\ request < MaxRequests
  /\ request' = request + 1
  /\ phase' = "view"
  /\ error' = FALSE
  /\ transaction' = [transaction EXCEPT ![request'] = "open"]
  /\ queue' = Fresh
  /\ UNCHANGED <<stack, todo, status, asked, late, sent, lost>>

\* enqueue_task, enqueue_postcommit_task
Enqueue(kind) ==
  /\ phase = "view"
  /\ queue' = [queue EXCEPT ![kind] = @ \cup {request}]
  /\ asked' = asked \cup {<<kind, request>>}
  /\ UNCHANGED <<stack, request, phase, todo, status, error, transaction, late, sent, lost>>

\* Fault: the transaction handlers are not attached.
FlaskAfter_NoTransaction == <<"postcommit", "celery">>

\* The handlers after a Flask view, in the reverse of the order of attach_handlers
FlaskAfter == <<"postcommit", "transaction", "celery">>

\* process_response, from the innermost middleware out
DjangoAfter == <<"postcommit", "celery">>

\* A Flask view returns a response, HTTPErrors included, or raises.
FlaskResponds ==
  /\ stack = "flask"
  /\ phase = "view"
  /\ \E s \in Statuses : status' = [status EXCEPT ![request] = s]
  /\ error' \in IF status'[request] = "server" THEN BOOLEAN ELSE {FALSE}
  /\ phase' = "after"
  /\ todo' = FlaskAfter
  /\ UNCHANGED <<stack, request, transaction, queue, asked, late, sent, lost>>

\* A Django view returns a response, of whatever status, and is committed.
DjangoReturns ==
  /\ stack = "django"
  /\ phase = "view"
  /\ \E s \in Statuses : status' = [status EXCEPT ![request] = s]
  /\ transaction' = [transaction EXCEPT ![request] = "committed"]
  /\ phase' = "after"
  /\ todo' = DjangoAfter
  /\ UNCHANGED <<stack, request, error, queue, asked, late, sent, lost>>

\* It raises (set_rollback), or the commit does: process_exception runs only
\* for what the API's exception handler does not handle, the queue is cleared
\* by the status as well.
DjangoRaises ==
  /\ stack = "django"
  /\ phase = "view"
  /\ \E s \in {"client", "server"} : status' = [status EXCEPT ![request] = s]
  /\ transaction' = [transaction EXCEPT ![request] = "rolled back"]
  /\ phase' = "after"
  /\ todo' = DjangoAfter
  /\ UNCHANGED <<stack, request, error, queue, asked, late, sent, lost>>

-----------------------------------------------------------------------------
\* Handlers after the view

\* Fault: the API keeps the tasks of what a client did wrong.
Refused_Server == status[request] = "server"

\* base_status_code_error is 500 for Flask and 400 for Django
Refused ==
  \/ status[request] = "server"
  \/ status[request] = "client" /\ stack = "django"

Handles(handler) == phase = "after" /\ todo # <<>> /\ Head(todo) = handler

\* Fault: the response stays as it was.
Raise_Answered == UNCHANGED status /\ error' = TRUE /\ todo' = Tail(todo)

\* A handler raises: Flask runs them all again on its own 500 (handle_exception),
\* with which none raises; the API goes on to the next middleware.
Raise ==
  /\ status' = [status EXCEPT ![request] = "server"]
  /\ error' = (stack = "flask")
  /\ todo' = IF stack = "flask" THEN FlaskAfter ELSE Tail(todo)

PostcommitClears ==
  /\ Handles("postcommit")
  /\ Refused
  /\ queue' = [queue EXCEPT !["function"] = {}, !["signature"] = {}]
  /\ todo' = Tail(todo)
  /\ UNCHANGED <<stack, request, phase, status, error, transaction, asked, late, sent, lost>>

\* postcommit_after_request: the functions run in greenlets, which are joined
\* for five seconds; then the signatures are sent.
PostcommitRuns ==
  /\ Handles("postcommit")
  /\ ~Refused
  /\ \E slow \in SUBSET queue["function"] :
       /\ late' = late \cup slow
       /\ sent' = sent \cup ({"function"} \X (queue["function"] \ slow))
                       \cup ({"signature"} \X queue["signature"])
  /\ todo' = Tail(todo)
  /\ UNCHANGED <<stack, request, phase, status, error, transaction, queue, asked, lost>>

\* A function fails, or the broker does not take a signature, when some of the
\* functions may have run.  An AttributeError is logged, anything else leaves
\* the handler.
PostcommitFails ==
  /\ Handles("postcommit")
  /\ ~Refused
  /\ queue["function"] \cup queue["signature"] # {}
  /\ \E done \in SUBSET queue["function"] :
       sent' = sent \cup ({"function"} \X done)
  /\ \/ todo' = Tail(todo) /\ UNCHANGED <<status, error>>
     \/ Raise
  /\ UNCHANGED <<stack, request, phase, transaction, queue, asked, late, lost>>

LateFunction(n) ==
  /\ n \in late
  /\ late' = late \ {n}
  /\ sent' = sent \cup {<<"function", n>>}
  /\ UNCHANGED <<stack, request, phase, todo, status, error, transaction, queue, asked, lost>>

\* Fault: every response commits.
Commits_Always == TRUE

\* transaction_after_request: a response below 500 commits.
Commits == status[request] # "server"

TransactionEnds ==
  /\ Handles("transaction")
  /\ transaction' = [transaction EXCEPT ![request] =
       IF @ # "open" THEN @ ELSE IF Commits THEN "committed" ELSE "rolled back"]
  /\ todo' = Tail(todo)
  /\ UNCHANGED <<stack, request, phase, status, error, queue, asked, late, sent, lost>>

\* The database refuses the commit.
CommitFails ==
  /\ Handles("transaction")
  /\ Commits
  /\ transaction' = [transaction EXCEPT ![request] = "rolled back"]
  /\ Raise
  /\ UNCHANGED <<stack, request, phase, queue, asked, late, sent, lost>>

\* celery_after_request
CeleryClears ==
  /\ Handles("celery")
  /\ queue' = IF Refused THEN [queue EXCEPT !["task"] = {}] ELSE queue
  /\ todo' = Tail(todo)
  /\ UNCHANGED <<stack, request, phase, status, error, transaction, asked, late, sent, lost>>

\* celery_teardown_request: nothing is sent after an error.
Sendable == IF error THEN {} ELSE queue["task"]

\* The handlers are through.  The queue itself is left as it is.
Teardown ==
  /\ phase = "after"
  /\ todo = <<>>
  /\ phase' = "idle"
  /\ sent' = sent \cup ({"task"} \X Sendable)
  /\ UNCHANGED <<stack, request, todo, status, error, transaction, queue, asked, late, lost>>

\* The broker does not take the tasks.  The API answers 500, Flask has
\* answered.
TeardownFails ==
  /\ phase = "after"
  /\ todo = <<>>
  /\ Sendable # {}
  /\ phase' = "idle"
  /\ lost' = lost \cup {request}
  /\ status' = IF stack = "django" THEN [status EXCEPT ![request] = "server"] ELSE status
  /\ UNCHANGED <<stack, request, todo, error, transaction, queue, asked, late, sent>>

-----------------------------------------------------------------------------
Next ==
  \/ Begin
  \/ \E kind \in Kinds : Enqueue(kind)
  \/ FlaskResponds \/ DjangoReturns \/ DjangoRaises
  \/ PostcommitClears \/ PostcommitRuns \/ PostcommitFails
  \/ TransactionEnds \/ CommitFails
  \/ CeleryClears \/ Teardown \/ TeardownFails
  \/ \E n \in Numbers : LateFunction(n)

Spec == Init /\ [][Next]_vars

-----------------------------------------------------------------------------
Finished == IF phase = "idle" THEN 1 .. request ELSE 1 .. request - 1

\* Types of the variables; no request leaves its transaction open.
TypeOK ==
  /\ stack \in Stacks
  /\ request \in 0 .. MaxRequests
  /\ phase \in {"idle", "view", "after"}
  /\ \E handlers \in {FlaskAfter, DjangoAfter}, i \in 1 .. 4 :
       todo = SubSeq(handlers, i, Len(handlers))
  /\ status \in [Numbers -> Statuses]
  /\ error \in BOOLEAN
  /\ transaction \in [Numbers -> {"none", "open", "committed", "rolled back"}]
  /\ \A n \in Finished : transaction[n] # "open"
  /\ queue \in [Kinds -> SUBSET Numbers]
  /\ asked \subseteq Kinds \X Numbers
  /\ sent \subseteq asked
  /\ late \subseteq Numbers
  /\ lost \subseteq Numbers

\* A celery task is only sent once the transaction that it is about is
\* committed, on every path through the handlers; behind the API that goes
\* for functions and signatures too.
SentIsCommitted ==
  \A p \in sent :
    p[1] = "task" \/ stack = "django" => transaction[p[2]] = "committed"

\* The response tells what happened.  A client that was told ok gets the tasks
\* of the request: a handler that raises or clears the queue shows in the
\* response (or the broker is down); and what Flask answers with a 500 changed
\* nothing in the database.
ResponsesAreTrue ==
  \A n \in Finished :
    /\ status[n] = "ok" /\ <<"task", n>> \in asked => <<"task", n>> \in sent \/ n \in lost
    /\ stack = "flask" /\ status[n] = "server" => transaction[n] = "rolled back"

\* A thread never sends what an earlier request left in its queues
\* (celery_before_request, postcommit_before_request).
SentInItsRequest ==
  [][\A p \in sent' \ sent : p[2] = request \/ p[2] \in late]_vars

\* Functions and signatures wait until the transaction is committed, as
\* run_postcommit says.
PostcommitIsAfterCommit ==
  \A p \in sent : transaction[p[2]] = "committed"
===============================================================================
