-------------------------- MODULE RequestTasksProofs --------------------------
(***************************************************************************)
(* Proofs of the safety properties of RequestTasks, for either application *)
(* and any number of requests of the thread.                               *)
(***************************************************************************)
EXTENDS RequestTasks, SequenceTheorems, TLAPS

\* What is left to run once the first handlers are through.
AfterPostcommit == <<"transaction", "celery">>
LastHandler == <<"celery">>

\* The handlers left are those of the application, and none outside a request.
Shape ==
  /\ todo \in {LastHandler, <<>>} \cup
       (IF stack = "flask" THEN {FlaskAfter, AfterPostcommit} ELSE {DjangoAfter})
  /\ phase # "after" => todo = <<>>
  /\ phase # "idle" => request # 0
  /\ phase = "view" => ~error
  /\ error => stack = "flask"

\* A queue holds what the current request asked for.
OwnTasks ==
  \A k \in Kinds : \A n \in queue[k] : n = request /\ n # 0 /\ <<k, n>> \in asked

\* Nothing is known of requests to come.
KnownRequests ==
  /\ \A k \in Kinds, n \in Numbers : <<k, n>> \in asked => n <= request
  /\ \A n \in late : n <= request /\ <<"function", n>> \in asked

\* The API runs functions of committed requests.
LateIsCommitted == stack = "django" => \A n \in late : transaction[n] = "committed"

\* A task stays in the queue until a handler sees that the request failed.
StillQueued ==
  phase = "view" \/ (phase = "after" /\ status[request] = "ok") =>
    (<<"task", request>> \in asked => request \in queue["task"])

\* How far the transaction of the current request is: the API ends it with the
\* view, Flask with a handler, and the status at that moment decides.
Begun == phase = "view" => transaction[request] = "open"

DjangoEnds ==
  phase = "after" /\ stack = "django" =>
    \/ transaction[request] = "committed"
    \/ transaction[request] = "rolled back" /\ status[request] # "ok"

FlaskEnds ==
  phase = "after" /\ stack = "flask" =>
    IF todo \in {LastHandler, <<>>}
    THEN transaction[request] =
           IF status[request] = "server" THEN "rolled back" ELSE "committed"
    ELSE \/ transaction[request] = "open"
         \/ transaction[request] = "rolled back" /\ status[request] = "server"

\* Flask answers an error with a 500.
ErrorIsAnswered == phase = "after" /\ error => status[request] = "server"

\* A request that failed has no tasks once the handlers are through.
RefusedIsCleared == phase = "after" /\ todo = <<>> /\ Refused => queue["task"] = {}

\* The inductive invariant.
Inv ==
  /\ TypeOK
  /\ Shape
  /\ OwnTasks /\ KnownRequests /\ LateIsCommitted /\ StillQueued
  /\ Begun /\ DjangoEnds /\ FlaskEnds /\ ErrorIsAnswered /\ RefusedIsCleared
  /\ SentIsCommitted
  /\ ResponsesAreTrue

-----------------------------------------------------------------------------
\* The lists of handlers

LEMMA HandlerLists ==
  /\ Head(FlaskAfter) = "postcommit" /\ Tail(FlaskAfter) = AfterPostcommit
  /\ Head(DjangoAfter) = "postcommit" /\ Tail(DjangoAfter) = LastHandler
  /\ Head(AfterPostcommit) = "transaction" /\ Tail(AfterPostcommit) = LastHandler
  /\ Head(LastHandler) = "celery" /\ Tail(LastHandler) = <<>>
  /\ \A s \in {FlaskAfter, DjangoAfter, AfterPostcommit, LastHandler} : s # <<>>
BY DEF FlaskAfter, DjangoAfter, AfterPostcommit, LastHandler

\* The handlers that Shape names are what TypeOK says is left of a list.
LEMMA ListsAreTails ==
  ASSUME NEW s \in {FlaskAfter, AfterPostcommit, DjangoAfter, LastHandler, <<>>}
  PROVE  \E handlers \in {FlaskAfter, DjangoAfter}, i \in 1 .. 4 :
           s = SubSeq(handlers, i, Len(handlers))
<1> DEFINE H == {"postcommit", "transaction", "celery"}
<1>1. /\ FlaskAfter \in Seq(H) /\ Len(FlaskAfter) = 3
      /\ DjangoAfter \in Seq(H) /\ Len(DjangoAfter) = 2
  BY DEF FlaskAfter, DjangoAfter
<1> HIDE DEF H
<1>2. FlaskAfter = SubSeq(FlaskAfter, 1, 3) /\ DjangoAfter = SubSeq(DjangoAfter, 1, 2)
  BY <1>1, SubSeqFull
<1>3. AfterPostcommit = SubSeq(FlaskAfter, 2, 3)
  BY <1>1, HandlerLists, TailIsSubSeq
<1>4. LastHandler = SubSeq(DjangoAfter, 2, 2)
  BY <1>1, HandlerLists, TailIsSubSeq
<1>5. <<>> = SubSeq(DjangoAfter, 3, 2)
  BY SubSeqEmpty
<1>6. CASE s = FlaskAfter
  <2> WITNESS FlaskAfter \in {FlaskAfter, DjangoAfter}, 1 \in 1 .. 4
  <2> QED  BY <1>1, <1>2, <1>6
<1>7. CASE s = AfterPostcommit
  <2> WITNESS FlaskAfter \in {FlaskAfter, DjangoAfter}, 2 \in 1 .. 4
  <2> QED  BY <1>1, <1>3, <1>7
<1>8. CASE s = DjangoAfter
  <2> WITNESS DjangoAfter \in {FlaskAfter, DjangoAfter}, 1 \in 1 .. 4
  <2> QED  BY <1>1, <1>2, <1>8
<1>9. CASE s = LastHandler
  <2> WITNESS DjangoAfter \in {FlaskAfter, DjangoAfter}, 2 \in 1 .. 4
  <2> QED  BY <1>1, <1>4, <1>9
<1>10. CASE s = <<>>
  <2> WITNESS DjangoAfter \in {FlaskAfter, DjangoAfter}, 3 \in 1 .. 4
  <2> QED  BY <1>1, <1>5, <1>10
<1> QED
  BY <1>6, <1>7, <1>8, <1>9, <1>10

\* Refused is only about the status and the application.
LEMMA ServerIsRefused ==
  /\ status[request] = "server" => Refused
  /\ Refused => status[request] # "ok"
BY DEF Refused

-----------------------------------------------------------------------------
LEMMA InvInit == Init => Inv
<1> SUFFICES ASSUME Init PROVE Inv
  OBVIOUS
<1> USE StacksAssumption, MaxRequestsAssumption DEF Init
<1>1. TypeOK
  <2>1. todo \in {FlaskAfter, AfterPostcommit, DjangoAfter, LastHandler, <<>>}
    OBVIOUS
  <2>2. \A n \in Finished : FALSE
    BY DEF Finished
  <2>3. \E handlers \in {FlaskAfter, DjangoAfter}, i \in 1 .. 4 :
          todo = SubSeq(handlers, i, Len(handlers))
    BY <2>1, ListsAreTails
  <2>4. /\ stack \in Stacks
        /\ request \in 0 .. MaxRequests
        /\ phase \in {"idle", "view", "after"}
        /\ status \in [Numbers -> Statuses]
        /\ transaction \in [Numbers -> {"none", "open", "committed", "rolled back"}]
    BY DEF Statuses
  <2>5. queue \in [Kinds -> SUBSET Numbers]
    BY DEF NoTasks
  <2>6. /\ asked \subseteq Kinds \X Numbers
        /\ sent \subseteq asked
        /\ late \subseteq Numbers
        /\ lost \subseteq Numbers
    OBVIOUS
  <2>7. error \in BOOLEAN
    OBVIOUS
  <2> QED
    BY <2>2, <2>3, <2>4, <2>5, <2>6, <2>7 DEF TypeOK
<1>2. Shape
  BY DEF Shape
<1>4. OwnTasks /\ KnownRequests /\ LateIsCommitted /\ StillQueued
  BY DEF OwnTasks, KnownRequests, LateIsCommitted, StillQueued, NoTasks
<1>5. Begun /\ DjangoEnds /\ FlaskEnds /\ ErrorIsAnswered /\ RefusedIsCleared
  BY DEF Begun, DjangoEnds, FlaskEnds, ErrorIsAnswered, RefusedIsCleared
<1>3. SentIsCommitted /\ ResponsesAreTrue
  BY DEF SentIsCommitted, ResponsesAreTrue, Finished
<1> QED
  BY <1>1, <1>2, <1>3, <1>4, <1>5 DEF Inv

-----------------------------------------------------------------------------
\* The handlers left after every step

LEMMA BasicTypes ==
  ASSUME TypeOK
  PROVE  /\ stack \in {"flask", "django"}
         /\ request \in Nat /\ request <= MaxRequests
         /\ MaxRequests \in Nat
         /\ \A n \in 1 .. request : n \in Numbers
         /\ request # 0 => request \in Numbers
<1>1. stack \in Stacks /\ request \in 0 .. MaxRequests
  BY DEF TypeOK
<1> QED
  BY <1>1, StacksAssumption, MaxRequestsAssumption DEF Numbers

\* The handler that runs tells the application and what is left.
LEMMA HandlerRuns ==
  ASSUME Shape, stack \in {"flask", "django"}
  PROVE  /\ Handles("postcommit") =>
              IF stack = "flask" THEN todo = FlaskAfter /\ Tail(todo) = AfterPostcommit
              ELSE todo = DjangoAfter /\ Tail(todo) = LastHandler
         /\ Handles("transaction") =>
              stack = "flask" /\ todo = AfterPostcommit /\ Tail(todo) = LastHandler
         /\ Handles("celery") => todo = LastHandler /\ Tail(todo) = <<>>
BY HandlerLists DEF Shape, Handles

LEMMA ShapeStep ==
  ASSUME TypeOK, Shape, [Next]_vars
  PROVE  Shape'
<1> USE BasicTypes, HandlerRuns DEF Shape
<1>1. CASE Begin
  BY <1>1 DEF Begin
<1>2. ASSUME NEW kind \in Kinds, Enqueue(kind)
      PROVE  Shape'
  BY <1>2 DEF Enqueue
<1>3. CASE FlaskResponds
  BY <1>3 DEF FlaskResponds
<1>4. CASE DjangoReturns \/ DjangoRaises
  <2>1. /\ stack = "django" /\ stack' = stack /\ phase = "view" /\ phase' = "after"
        /\ todo' = DjangoAfter /\ UNCHANGED <<request, error>>
    BY <1>4 DEF DjangoReturns, DjangoRaises
  <2> QED  BY <2>1
<1>5. CASE PostcommitClears \/ PostcommitRuns
  BY <1>5 DEF PostcommitClears, PostcommitRuns, Handles
<1>6. CASE PostcommitFails
  <2>1. phase = "after" /\ UNCHANGED <<stack, request, phase>>
    BY <1>6 DEF PostcommitFails, Handles
  <2>2. CASE todo' = Tail(todo) /\ UNCHANGED error
    BY <1>6, <2>1, <2>2 DEF PostcommitFails
  <2>3. CASE Raise
    BY <1>6, <2>1, <2>3 DEF PostcommitFails, Raise
  <2> QED  BY <1>6, <2>2, <2>3 DEF PostcommitFails
<1>7. CASE TransactionEnds \/ CommitFails
  BY <1>7 DEF TransactionEnds, CommitFails, Raise, Handles
<1>8. CASE CeleryClears
  BY <1>8 DEF CeleryClears, Handles
<1>9. CASE Teardown \/ TeardownFails
  BY <1>9 DEF Teardown, TeardownFails
<1>10. ASSUME NEW n \in Numbers, LateFunction(n)
       PROVE  Shape'
  BY <1>10 DEF LateFunction
<1>11. CASE UNCHANGED vars
  BY <1>11 DEF vars
<1> QED
  BY <1>1, <1>2, <1>3, <1>4, <1>5, <1>6, <1>7, <1>8, <1>9, <1>10, <1>11 DEF Next

-----------------------------------------------------------------------------
\* What the queues hold was asked for, and stays as long as it may be sent

\* The types that the steps below rest on.
Types ==
  /\ stack \in {"flask", "django"}
  /\ request \in Nat
  /\ request # 0 => request \in Numbers
  /\ 1 .. request \subseteq Numbers
  /\ request < MaxRequests => request + 1 \in Numbers
  /\ queue \in [Kinds -> SUBSET Numbers]
  /\ status \in [Numbers -> Statuses]
  /\ transaction \in [Numbers -> {"none", "open", "committed", "rolled back"}]
  /\ late \subseteq Numbers
  /\ \A n \in Numbers : n \in Nat

LEMMA TypesHold == TypeOK => Types
<1> SUFFICES ASSUME TypeOK PROVE Types
  OBVIOUS
<1>1. /\ request \in 0 .. MaxRequests
      /\ queue \in [Kinds -> SUBSET Numbers]
      /\ status \in [Numbers -> Statuses]
      /\ transaction \in [Numbers -> {"none", "open", "committed", "rolled back"}]
      /\ late \subseteq Numbers
  BY DEF TypeOK
<1>2. /\ request # 0 => request \in Numbers
      /\ 1 .. request \subseteq Numbers
      /\ request < MaxRequests => request + 1 \in Numbers
      /\ request \in Nat
      /\ \A n \in Numbers : n \in Nat
  <2>1. MaxRequests \in Nat /\ request \in 0 .. MaxRequests
    BY <1>1, MaxRequestsAssumption
  <2> QED  BY <2>1 DEF Numbers
<1> QED
  BY <1>1, <1>2, BasicTypes DEF Types

LEMMA OwnStep ==
  ASSUME Types, Shape, OwnTasks, [Next]_vars
  PROVE  OwnTasks'
<1> USE DEF Types, OwnTasks
<1>1. CASE Begin
  BY <1>1 DEF Begin, Fresh, NoTasks
<1>2. ASSUME NEW kind \in Kinds, Enqueue(kind)
      PROVE  OwnTasks'
  BY <1>2 DEF Enqueue, Shape
<1>3. CASE PostcommitClears
  <2>1. \A k \in Kinds : queue'[k] \subseteq queue[k]
    BY <1>3 DEF PostcommitClears
  <2> QED  BY <1>3, <2>1 DEF PostcommitClears
<1>4. CASE CeleryClears
  <2>1. \A k \in Kinds : queue'[k] \subseteq queue[k]
    BY <1>4 DEF CeleryClears
  <2> QED  BY <1>4, <2>1 DEF CeleryClears
<1>5. CASE UNCHANGED <<request, queue, asked>>
  BY <1>5
<1> QED
  BY <1>1, <1>2, <1>3, <1>4, <1>5
  DEF Next, FlaskResponds, DjangoReturns, DjangoRaises, PostcommitRuns, PostcommitFails,
      TransactionEnds, CommitFails, Teardown, TeardownFails, LateFunction, vars

LEMMA KnownStep ==
  ASSUME Types, Shape, OwnTasks, KnownRequests, [Next]_vars
  PROVE  KnownRequests'
<1> USE DEF KnownRequests
<1>0. request \in Nat /\ late \subseteq Numbers /\ \A n \in Numbers : n \in Nat
  BY DEF Types
<1>1. CASE Begin
  <2>1. request' = request + 1 /\ asked' = asked /\ late' = late
    BY <1>1 DEF Begin
  <2>2. \A n \in Numbers : n <= request => n <= request'
    BY <1>0, <2>1
  <2> QED  BY <1>0, <2>1, <2>2
<1>2. ASSUME NEW kind \in Kinds, Enqueue(kind)
      PROVE  KnownRequests'
  <2>1. request' = request /\ asked' = asked \cup {<<kind, request>>} /\ late' = late
    BY <1>2 DEF Enqueue
  <2>2. ASSUME NEW k \in Kinds, NEW n \in Numbers, <<k, n>> \in asked'
        PROVE  n <= request
    <3>1. <<k, n>> \in asked \/ n = request
      BY <2>1, <2>2
    <3> QED  BY <1>0, <3>1
  <2>3. \A n \in late' : n <= request' /\ <<"function", n>> \in asked'
    BY <2>1
  <2> QED  BY <2>1, <2>2, <2>3
<1>3. CASE PostcommitRuns
  BY <1>0, <1>3 DEF PostcommitRuns, OwnTasks, Kinds, Types
<1>4. ASSUME NEW n \in Numbers, LateFunction(n)
      PROVE  KnownRequests'
  BY <1>4 DEF LateFunction
<1>5. CASE UNCHANGED <<request, asked, late>>
  BY <1>5
<1> QED
  BY <1>1, <1>2, <1>3, <1>4, <1>5
  DEF Next, FlaskResponds, DjangoReturns, DjangoRaises, PostcommitClears, PostcommitFails,
      TransactionEnds, CommitFails, CeleryClears, Teardown, TeardownFails, vars

LEMMA StillStep ==
  ASSUME Types, Shape, OwnTasks, KnownRequests, StillQueued, [Next]_vars
  PROVE  StillQueued'
<1> USE DEF StillQueued
<1>1. CASE Begin
  <2>1. request' = request + 1 /\ request + 1 \in Numbers /\ asked' = asked
    BY <1>1 DEF Begin, Types
  <2>2. <<"task", request'>> \notin asked'
    <3>1. ASSUME <<"task", request + 1>> \in asked
          PROVE  FALSE
      <4>1. request + 1 <= request
        BY <2>1, <3>1 DEF KnownRequests, Kinds
      <4>2. request \in Nat
        BY DEF Types
      <4> QED  BY <4>1, <4>2
    <3> QED  BY <2>1, <3>1
  <2> QED  BY <2>2
<1>2. ASSUME NEW kind \in Kinds, Enqueue(kind)
      PROVE  StillQueued'
  <2>1. CASE kind = "task"
    BY <1>2, <2>1 DEF Enqueue, Types
  <2>2. CASE kind # "task"
    BY <1>2, <2>2 DEF Enqueue, Kinds
  <2> QED  BY <2>1, <2>2
<1>3. CASE FlaskResponds \/ DjangoReturns \/ DjangoRaises
  <2>1. phase = "view" /\ UNCHANGED <<request, queue, asked>>
    BY <1>3 DEF FlaskResponds, DjangoReturns, DjangoRaises
  <2> QED  BY <2>1
<1>4. CASE PostcommitClears
  <2>1. queue'["task"] = queue["task"]
    BY <1>4 DEF PostcommitClears, Kinds, Types
  <2> QED  BY <1>4, <2>1 DEF PostcommitClears, Handles
<1>5. CASE CeleryClears
  BY <1>5, ServerIsRefused DEF CeleryClears, Handles
<1>6. CASE Raise /\ phase = "after" /\ UNCHANGED <<request, phase, queue, asked>>
  BY <1>6, BasicTypes DEF Raise, Shape
<1>7. CASE phase = "after" /\ UNCHANGED <<request, phase, queue, asked, status>>
  BY <1>7
<1>8. CASE Teardown \/ TeardownFails
  BY <1>8 DEF Teardown, TeardownFails
<1>9. CASE UNCHANGED <<request, phase, queue, asked, status>>
  BY <1>9
<1> QED
  BY <1>1, <1>2, <1>3, <1>4, <1>5, <1>6, <1>7, <1>8, <1>9
  DEF Next, PostcommitRuns, PostcommitFails, TransactionEnds, CommitFails, Handles,
      LateFunction, vars

LEMMA LateStep ==
  ASSUME Types, Shape, OwnTasks, KnownRequests, Begun, DjangoEnds, LateIsCommitted, [Next]_vars
  PROVE  LateIsCommitted'
<1> USE DEF LateIsCommitted
<1>0. stack' = stack
  BY DEF Next, vars, Begin, Enqueue, FlaskResponds, DjangoReturns, DjangoRaises,
         PostcommitClears, PostcommitRuns, PostcommitFails, TransactionEnds, CommitFails,
         CeleryClears, Teardown, TeardownFails, LateFunction
<1> SUFFICES ASSUME stack = "django"
             PROVE  \A n \in late' : transaction'[n] = "committed"
  BY <1>0
<1>1. CASE Begin
  <2>1. request \in Nat /\ late \subseteq Numbers
    BY DEF Types
  <2>2. request' = request + 1 /\ late' = late
        /\ transaction' = [transaction EXCEPT ![request + 1] = "open"]
    BY <1>1 DEF Begin
  <2>3. \A n \in late : n \in Nat /\ n <= request
    BY DEF KnownRequests, Types
  <2>4. \A n \in late : n # request + 1
    BY <2>1, <2>3
  <2> QED  BY <2>1, <2>2, <2>4 DEF Types
<1>2. CASE DjangoReturns
  BY <1>2 DEF DjangoReturns, Types
<1>3. CASE DjangoRaises
  <2>1. transaction[request] = "open" /\ late' = late
        /\ transaction' = [transaction EXCEPT ![request] = "rolled back"]
    BY <1>3 DEF DjangoRaises, Begun
  <2> QED  BY <2>1 DEF Types
<1>4. CASE PostcommitRuns
  <2>1. PICK slow \in SUBSET queue["function"] : late' = late \cup slow
    BY <1>4 DEF PostcommitRuns
  <2>2. \A n \in slow : n = request
    BY <2>1 DEF OwnTasks, Kinds
  <2>3. phase = "after" /\ ~Refused /\ transaction' = transaction
    BY <1>4 DEF PostcommitRuns, Handles
  <2>4. status[request] = "ok" \/ request = 0
    BY <2>3 DEF Refused, Types, Statuses
  <2>5. transaction[request] = "committed"
    BY <2>3, <2>4 DEF DjangoEnds, Shape
  <2> QED  BY <2>1, <2>2, <2>3, <2>5
<1>5. CASE TransactionEnds \/ CommitFails
  BY <1>5, HandlerRuns DEF TransactionEnds, CommitFails, Types
<1>6. ASSUME NEW n \in Numbers, LateFunction(n)
      PROVE  \A m \in late' : transaction'[m] = "committed"
  BY <1>6 DEF LateFunction
<1>7. CASE UNCHANGED <<late, transaction>>
  BY <1>7
<1> QED
  BY <1>1, <1>2, <1>3, <1>4, <1>5, <1>6, <1>7
  DEF Next, Enqueue, FlaskResponds, PostcommitClears, PostcommitFails, CeleryClears, Teardown,
      TeardownFails, vars

-----------------------------------------------------------------------------
\* The transaction of a request ends the way its status says

LEMMA ProgressStep ==
  ASSUME Types, Shape, Begun, DjangoEnds, FlaskEnds, ErrorIsAnswered, [Next]_vars
  PROVE  Begun' /\ DjangoEnds' /\ FlaskEnds' /\ ErrorIsAnswered'
<1> USE DEF Begun, DjangoEnds, FlaskEnds, ErrorIsAnswered
<1>0. /\ stack \in {"flask", "django"}
      /\ status \in [Numbers -> Statuses]
      /\ transaction \in [Numbers -> {"none", "open", "committed", "rolled back"}]
      /\ phase # "idle" => request \in Numbers
  BY DEF Types, Shape
<1>1. CASE Begin
  <2>1. /\ phase' = "view" /\ request' = request + 1 /\ request + 1 \in Numbers
        /\ transaction' = [transaction EXCEPT ![request + 1] = "open"]
    BY <1>1 DEF Begin, Types
  <2> QED  BY <1>0, <2>1
<1>2. ASSUME NEW kind \in Kinds, Enqueue(kind)
      PROVE  Begun' /\ DjangoEnds' /\ FlaskEnds' /\ ErrorIsAnswered'
  BY <1>2 DEF Enqueue
<1>3. CASE FlaskResponds
  <2>1. /\ stack = "flask" /\ stack' = stack /\ phase' = "after" /\ phase = "view"
        /\ UNCHANGED <<request, transaction>>
        /\ todo' = FlaskAfter
        /\ error' => status'[request] = "server"
    BY <1>3 DEF FlaskResponds
  <2>2. todo' \notin {LastHandler, <<>>}
    BY <2>1, HandlerLists
  <2> QED  BY <2>1, <2>2
<1>4. CASE DjangoReturns
  BY <1>0, <1>4 DEF DjangoReturns, Shape
<1>5. CASE DjangoRaises
  BY <1>0, <1>5 DEF DjangoRaises, Shape
<1>6. ASSUME Raise, phase = "after", UNCHANGED <<stack, request, phase>>,
             stack = "flask" => transaction'[request] \in {"open", "rolled back"},
             stack = "django" => UNCHANGED transaction
      PROVE  Begun' /\ DjangoEnds' /\ FlaskEnds' /\ ErrorIsAnswered'
  <2>1. /\ request \in Numbers
        /\ status' = [status EXCEPT ![request] = "server"]
        /\ stack = "flask" => todo' = FlaskAfter
    BY <1>0, <1>6 DEF Raise
  <2>2. status'[request] = "server"
    BY <1>0, <2>1
  <2>3. FlaskAfter \notin {LastHandler, <<>>}
    BY HandlerLists
  <2>4. Begun' /\ ErrorIsAnswered'
    BY <1>6, <2>2
  <2>5. CASE stack = "flask"
    BY <1>6, <2>1, <2>2, <2>3, <2>5
  <2>6. CASE stack = "django"
    BY <1>6, <2>2, <2>6
  <2> QED  BY <1>0, <2>4, <2>5, <2>6
<1>7. ASSUME Handles("postcommit"), todo' = Tail(todo),
             UNCHANGED <<stack, request, phase, status, error, transaction>>
      PROVE  Begun' /\ DjangoEnds' /\ FlaskEnds' /\ ErrorIsAnswered'
  <2>1. phase = "after" /\ (stack = "flask" => todo = FlaskAfter /\ todo' = AfterPostcommit)
    BY <1>0, <1>7, HandlerRuns DEF Handles
  <2>2. FlaskAfter \notin {LastHandler, <<>>} /\ AfterPostcommit \notin {LastHandler, <<>>}
    BY HandlerLists
  <2> QED  BY <1>0, <1>7, <2>1, <2>2
<1>8. CASE PostcommitFails
  <2>1. Handles("postcommit") /\ UNCHANGED <<stack, request, phase, transaction>>
        /\ ~Refused
    BY <1>8 DEF PostcommitFails
  <2>2. CASE todo' = Tail(todo) /\ UNCHANGED <<status, error>>
    BY <1>7, <2>1, <2>2
  <2>3. CASE Raise
    <3>1. phase = "after" /\ (stack = "flask" => todo = FlaskAfter)
      BY <1>0, <2>1, HandlerRuns DEF Handles
    <3>2. stack = "flask" => transaction[request] = "open"
      BY <2>1, <3>1, HandlerLists, ServerIsRefused
    <3> QED  BY <1>0, <1>6, <2>1, <2>3, <3>1, <3>2
  <2> QED  BY <1>8, <2>2, <2>3 DEF PostcommitFails
<1>9. CASE TransactionEnds
  <2>1. /\ stack = "flask" /\ todo = AfterPostcommit /\ todo' = LastHandler
        /\ phase = "after" /\ request \in Numbers
        /\ UNCHANGED <<stack, request, phase, status, error>>
        /\ transaction' = [transaction EXCEPT ![request] =
             IF @ # "open" THEN @ ELSE IF Commits THEN "committed" ELSE "rolled back"]
    BY <1>0, <1>9, HandlerRuns DEF TransactionEnds, Handles
  <2>2. AfterPostcommit \notin {LastHandler, <<>>}
    BY HandlerLists
  <2>3. \/ transaction[request] = "open"
        \/ transaction[request] = "rolled back" /\ status[request] = "server"
    BY <2>1, <2>2
  <2>4. transaction'[request] = IF status[request] = "server" THEN "rolled back" ELSE "committed"
    BY <1>0, <2>1, <2>3 DEF Commits
  <2> QED  BY <2>1, <2>4
<1>10. CASE CommitFails
  <2>1. /\ stack = "flask" /\ phase = "after" /\ request \in Numbers
        /\ UNCHANGED <<stack, request, phase>>
        /\ transaction' = [transaction EXCEPT ![request] = "rolled back"]
        /\ Raise
    BY <1>0, <1>10, HandlerRuns DEF CommitFails, Handles
  <2> QED  BY <1>0, <1>6, <2>1
<1>11. CASE CeleryClears
  <2>1. /\ phase = "after" /\ todo = LastHandler /\ todo' = <<>>
        /\ UNCHANGED <<stack, request, phase, status, error, transaction>>
    BY <1>0, <1>11, HandlerRuns DEF CeleryClears, Handles
  <2> QED  BY <2>1
<1>12. CASE Teardown \/ TeardownFails
  BY <1>12 DEF Teardown, TeardownFails
<1>13. ASSUME NEW n \in Numbers, LateFunction(n)
       PROVE  Begun' /\ DjangoEnds' /\ FlaskEnds' /\ ErrorIsAnswered'
  BY <1>13 DEF LateFunction
<1>14. CASE PostcommitClears \/ PostcommitRuns
  BY <1>7, <1>14 DEF PostcommitClears, PostcommitRuns
<1>15. CASE UNCHANGED vars
  BY <1>15 DEF vars
<1> QED
  BY <1>1, <1>2, <1>3, <1>4, <1>5, <1>8, <1>9, <1>10, <1>11, <1>12, <1>13, <1>14, <1>15
  DEF Next

LEMMA ClearedStep ==
  ASSUME Types, Shape, RefusedIsCleared, [Next]_vars
  PROVE  RefusedIsCleared'
<1> USE DEF RefusedIsCleared, Types
<1>1. CASE phase' # "after" \/ todo' # <<>>
  BY <1>1
<1>2. CASE CeleryClears
  <2>1. Refused' <=> Refused
    BY <1>2 DEF CeleryClears, Refused
  <2> QED  BY <1>2, <2>1 DEF CeleryClears, Kinds
<1>3. CASE UNCHANGED <<stack, phase, todo, status, request, queue>>
  <2>1. Refused' <=> Refused
    BY <1>3 DEF Refused
  <2> QED  BY <1>3, <2>1
<1>4. ASSUME Handles("postcommit") \/ Handles("transaction"), todo' = Tail(todo)
      PROVE  todo' # <<>>
  BY <1>4, HandlerRuns, HandlerLists
<1>5. ASSUME Handles("postcommit") \/ Handles("transaction"), Raise
      PROVE  todo' # <<>>
  <2>1. CASE stack = "flask"
    BY <1>5, <2>1, HandlerLists DEF Raise
  <2>2. CASE stack # "flask"
    BY <1>4, <1>5, <2>2 DEF Raise
  <2> QED  BY <2>1, <2>2
<1>6. CASE FlaskResponds \/ DjangoReturns \/ DjangoRaises
  <2>1. todo' \in {FlaskAfter, DjangoAfter}
    BY <1>6 DEF FlaskResponds, DjangoReturns, DjangoRaises
  <2> QED  BY <1>1, <2>1, HandlerLists
<1>7. CASE PostcommitClears \/ PostcommitRuns \/ TransactionEnds
  BY <1>1, <1>4, <1>7 DEF PostcommitClears, PostcommitRuns, TransactionEnds
<1>8. CASE PostcommitFails \/ CommitFails
  BY <1>1, <1>4, <1>5, <1>8 DEF PostcommitFails, CommitFails
<1>9. CASE Begin \/ Teardown \/ TeardownFails
  BY <1>1, <1>9 DEF Begin, Teardown, TeardownFails
<1>10. ASSUME NEW kind \in Kinds, Enqueue(kind)
       PROVE  RefusedIsCleared'
  BY <1>1, <1>10 DEF Enqueue
<1>11. ASSUME NEW n \in Numbers, LateFunction(n)
       PROVE  RefusedIsCleared'
  BY <1>3, <1>11 DEF LateFunction
<1>12. CASE UNCHANGED vars
  BY <1>3, <1>12 DEF vars
<1> QED
  BY <1>2, <1>6, <1>7, <1>8, <1>9, <1>10, <1>11, <1>12 DEF Next

-----------------------------------------------------------------------------
\* What was sent

\* A transaction that is committed stays so.
LEMMA CommittedStays ==
  ASSUME Types, Shape, Begun, FlaskEnds, [Next]_vars,
         NEW n \in Numbers, n <= request, transaction[n] = "committed"
  PROVE  transaction'[n] = "committed"
<1>0. request \in Nat /\ (\A m \in Numbers : m \in Nat)
      /\ transaction \in [Numbers -> {"none", "open", "committed", "rolled back"}]
  BY DEF Types
<1>1. CASE Begin
  <2>1. transaction' = [transaction EXCEPT ![request + 1] = "open"]
    BY <1>1 DEF Begin
  <2>2. n # request + 1
    <3>1. request \in Nat /\ n \in Nat
      BY <1>0
    <3> QED  BY <3>1
  <2> QED  BY <1>0, <2>1, <2>2
<1>2. CASE DjangoReturns
  BY <1>0, <1>2 DEF DjangoReturns
<1>3. CASE DjangoRaises
  BY <1>0, <1>3 DEF DjangoRaises, Begun
<1>4. CASE TransactionEnds
  BY <1>0, <1>4 DEF TransactionEnds
<1>5. CASE CommitFails
  <2>1. stack = "flask" /\ phase = "after" /\ todo = AfterPostcommit
        /\ transaction' = [transaction EXCEPT ![request] = "rolled back"]
    BY <1>5, HandlerRuns DEF CommitFails, Handles, Types
  <2>2. AfterPostcommit \notin {LastHandler, <<>>}
    BY HandlerLists
  <2>3. transaction[request] # "committed"
    BY <2>1, <2>2 DEF FlaskEnds
  <2> QED  BY <1>0, <2>1, <2>3
<1>6. CASE UNCHANGED transaction
  BY <1>6
<1> QED
  BY <1>1, <1>2, <1>3, <1>4, <1>5, <1>6
  DEF Next, Enqueue, FlaskResponds, PostcommitClears, PostcommitRuns, PostcommitFails,
      CeleryClears, Teardown, TeardownFails, LateFunction, vars

\* The only things that are sent are those of the queues, by the handlers, and
\* functions that were late.
LEMMA SentComesFrom ==
  ASSUME Types, Shape, OwnTasks, [Next]_vars, NEW p \in sent' \ sent
  PROVE  \/ /\ Teardown /\ ~error /\ request \in queue["task"]
            /\ p = <<"task", request>>
         \/ /\ Handles("postcommit") /\ ~Refused /\ UNCHANGED <<transaction, request, stack>>
            /\ \E k \in {"function", "signature"} : p = <<k, request>> /\ request \in queue[k]
         \/ /\ UNCHANGED <<transaction, request, stack>>
            /\ \E n \in late : p = <<"function", n>>
<1>1. CASE Teardown
  BY <1>1 DEF Teardown, Sendable, OwnTasks, Kinds
<1>2. CASE PostcommitRuns
  BY <1>2 DEF PostcommitRuns, OwnTasks, Kinds
<1>3. CASE PostcommitFails
  BY <1>3 DEF PostcommitFails, OwnTasks, Kinds
<1>4. ASSUME NEW n \in Numbers, LateFunction(n)
      PROVE  /\ UNCHANGED <<transaction, request, stack>>
             /\ \E m \in late : p = <<"function", m>>
  BY <1>4 DEF LateFunction
<1>5. sent' # sent
  OBVIOUS
<1> QED
  BY <1>1, <1>2, <1>3, <1>4, <1>5
  DEF Next, Begin, Enqueue, FlaskResponds, DjangoReturns, DjangoRaises, PostcommitClears,
      TransactionEnds, CommitFails, CeleryClears, TeardownFails, vars

LEMMA SentGrows ==
  ASSUME [Next]_vars
  PROVE  sent \subseteq sent' /\ asked \subseteq asked' /\ lost \subseteq lost' /\ stack' = stack
BY DEF Next, Begin, Enqueue, FlaskResponds, DjangoReturns, DjangoRaises, PostcommitClears,
       PostcommitRuns, PostcommitFails, TransactionEnds, CommitFails, CeleryClears, Teardown,
       TeardownFails, LateFunction, vars

LEMMA SentStep ==
  ASSUME Inv, Types, [Next]_vars
  PROVE  SentIsCommitted'
<1> USE DEF Inv
<1> SUFFICES ASSUME NEW p \in sent', p[1] = "task" \/ stack = "django"
             PROVE  transaction'[p[2]] = "committed"
  BY SentGrows DEF SentIsCommitted
<1>1. sent \subseteq Kinds \X Numbers
  BY DEF TypeOK
<1>2. CASE p \in sent
  <2>1. PICK k \in Kinds, n \in Numbers : p = <<k, n>>
    BY <1>1, <1>2
  <2>2. n <= request
    BY <1>2, <2>1 DEF TypeOK, KnownRequests
  <2>3. transaction[n] = "committed"
    BY <1>2, <2>1 DEF SentIsCommitted
  <2> QED
    BY <2>1, <2>2, <2>3, CommittedStays
<1>3. CASE p \notin sent
  <2>1. CASE Teardown /\ ~error /\ request \in queue["task"] /\ p = <<"task", request>>
    <3>1. phase = "after" /\ todo = <<>> /\ transaction' = transaction
      BY <2>1 DEF Teardown
    <3>2. ~Refused
      BY <2>1, <3>1 DEF RefusedIsCleared
    <3>3. transaction[request] = "committed"
      <4>1. CASE stack = "flask"
        BY <3>1, <3>2, <4>1, ServerIsRefused DEF FlaskEnds
      <4>2. CASE stack = "django"
        <5>1. status[request] = "ok"
          BY <3>1, <3>2, <4>2 DEF Refused, Types, Shape, Statuses
        <5> QED  BY <3>1, <4>2, <5>1 DEF DjangoEnds
      <4> QED  BY <4>1, <4>2 DEF Types
    <3> QED  BY <2>1, <3>1, <3>3
  <2>2. CASE /\ Handles("postcommit") /\ ~Refused /\ UNCHANGED <<transaction, request, stack>>
             /\ \E k \in {"function", "signature"} : p = <<k, request>> /\ request \in queue[k]
    <3>1. stack = "django" /\ phase = "after" /\ p[2] = request
      BY <2>2 DEF Handles
    <3>2. status[request] = "ok"
      BY <2>2, <3>1 DEF Refused, Types, Shape, Statuses
    <3> QED  BY <2>2, <3>1, <3>2 DEF DjangoEnds
  <2>3. CASE /\ UNCHANGED <<transaction, request, stack>>
             /\ \E n \in late : p = <<"function", n>>
    BY <2>3 DEF LateIsCommitted
  <2> QED  BY <1>3, <2>1, <2>2, <2>3, SentComesFrom
<1> QED
  BY <1>2, <1>3

-----------------------------------------------------------------------------
\* What the responses tell

\* A request that is finished stays as it is.
LEMMA FinishedStays ==
  ASSUME Types, Shape, [Next]_vars, NEW n \in Finished'
  PROVE  \/ /\ n \in Finished
            /\ status'[n] = status[n] /\ transaction'[n] = transaction[n]
            /\ <<"task", n>> \in asked' => <<"task", n>> \in asked
         \/ n = request /\ request # 0 /\ (Teardown \/ TeardownFails)
<1>0. /\ request \in Nat
      /\ phase # "idle" => request # 0
  BY DEF Types, Shape
<1>typed. /\ status \in [Numbers -> Statuses]
       /\ transaction \in [Numbers -> {"none", "open", "committed", "rolled back"}]
       /\ 1 .. request \subseteq Numbers
  BY DEF Types
<1>1. CASE Begin
  <2>1. phase = "idle" /\ phase' = "view" /\ request' = request + 1 /\ asked' = asked
        /\ status' = status /\ transaction' = [transaction EXCEPT ![request + 1] = "open"]
    BY <1>1 DEF Begin
  <2>2. n \in 1 .. request
    BY <1>0, <2>1 DEF Finished
  <2>3. n \in Finished
    BY <2>1, <2>2 DEF Finished
  <2>4. n # request + 1
    BY <1>0, <2>2
  <2>5. transaction'[n] = transaction[n]
    <3>1. n \in Numbers
      BY <1>typed, <2>2
    <3> QED  BY <1>typed, <2>1, <2>4, <3>1
  <2> QED  BY <2>1, <2>3, <2>5
<1>2. CASE Teardown \/ TeardownFails
  <2>1. /\ phase = "after" /\ phase' = "idle" /\ request' = request /\ asked' = asked
        /\ transaction' = transaction
        /\ status' = status \/ status' = [status EXCEPT ![request] = "server"]
    BY <1>2 DEF Teardown, TeardownFails
  <2>2. n \in 1 .. request
    BY <2>1 DEF Finished
  <2>3. CASE n = request
    BY <1>0, <1>2, <2>1, <2>3
  <2>4. CASE n # request
    <3>1. n \in Finished
      BY <1>0, <2>1, <2>2, <2>4 DEF Finished
    <3>2. status'[n] = status[n]
      <4>1. n \in Numbers
        BY <1>typed, <2>2
      <4> QED  BY <1>typed, <2>1, <2>4, <4>1
    <3> QED  BY <2>1, <3>1, <3>2
  <2> QED  BY <2>3, <2>4
<1>3. ASSUME phase # "idle", phase' # "idle", request' = request,
             \A m \in Numbers : m # request =>
               status'[m] = status[m] /\ transaction'[m] = transaction[m],
             \A m \in Numbers : m # request /\ <<"task", m>> \in asked' => <<"task", m>> \in asked
      PROVE  n \in Finished /\ status'[n] = status[n] /\ transaction'[n] = transaction[n]
             /\ (<<"task", n>> \in asked' => <<"task", n>> \in asked)
  <2>1. n \in Finished /\ n \in 1 .. request - 1
    BY <1>3 DEF Finished
  <2>2. n # request
    BY <1>0, <2>1
  <2>3. n \in Numbers
    <3>1. n \in 1 .. request
      BY <1>0, <2>1
    <3> QED  BY <1>typed, <3>1
  <2> QED  BY <1>3, <2>1, <2>2, <2>3
<1>4. ASSUME NEW kind \in Kinds, Enqueue(kind)
      PROVE  n \in Finished /\ status'[n] = status[n] /\ transaction'[n] = transaction[n]
             /\ (<<"task", n>> \in asked' => <<"task", n>> \in asked)
  <2>1. /\ phase = "view" /\ UNCHANGED <<request, phase, status, transaction>>
        /\ asked' = asked \cup {<<kind, request>>}
    BY <1>4 DEF Enqueue
  <2> QED  BY <1>3, <2>1
<1>5. CASE FlaskResponds \/ DjangoReturns \/ DjangoRaises
  <2>1. /\ phase = "view" /\ phase' = "after" /\ request' = request /\ asked' = asked
        /\ \A m \in Numbers : m # request => status'[m] = status[m]
        /\ \A m \in Numbers : m # request => transaction'[m] = transaction[m]
    BY <1>5, <1>typed DEF FlaskResponds, DjangoReturns, DjangoRaises
  <2> QED  BY <1>3, <2>1
<1>6. CASE PostcommitClears \/ PostcommitRuns \/ CeleryClears
  BY <1>3, <1>6 DEF PostcommitClears, PostcommitRuns, CeleryClears, Handles
<1>7. CASE PostcommitFails
  <2>1. /\ phase = "after" /\ UNCHANGED <<request, phase, transaction, asked>>
        /\ status' = status \/ status' = [status EXCEPT ![request] = "server"]
    BY <1>7 DEF PostcommitFails, Raise, Handles
  <2>2. \A m \in Numbers : m # request => status'[m] = status[m]
    BY <1>typed, <2>1
  <2> QED  BY <1>3, <2>1, <2>2
<1>8. CASE TransactionEnds \/ CommitFails
  <2>1. /\ phase = "after" /\ UNCHANGED <<request, phase, asked>>
        /\ status' = status \/ status' = [status EXCEPT ![request] = "server"]
        /\ \A m \in Numbers : m # request => transaction'[m] = transaction[m]
    BY <1>8, <1>typed DEF TransactionEnds, CommitFails, Raise, Handles
  <2>2. \A m \in Numbers : m # request => status'[m] = status[m]
    BY <1>typed, <2>1
  <2> QED  BY <1>3, <2>1, <2>2
<1>9. ASSUME UNCHANGED <<request, phase, status, transaction, asked>>
      PROVE  n \in Finished /\ status'[n] = status[n] /\ transaction'[n] = transaction[n]
             /\ (<<"task", n>> \in asked' => <<"task", n>> \in asked)
  BY <1>9 DEF Finished
<1>10. ASSUME NEW m \in Numbers, LateFunction(m)
       PROVE  UNCHANGED <<request, phase, status, transaction, asked>>
  BY <1>10 DEF LateFunction
<1>11. CASE UNCHANGED vars
  BY <1>9, <1>11 DEF vars
<1> QED
  BY <1>1, <1>2, <1>4, <1>5, <1>6, <1>7, <1>8, <1>9, <1>10, <1>11 DEF Next

\* What holds of the current request when its handlers are through.
LEMMA ResponseAtEnd ==
  ASSUME Inv, Types, Teardown \/ TeardownFails
  PROVE  /\ transaction'[request] # "open"
         /\ status'[request] = "ok" /\ <<"task", request>> \in asked' =>
              <<"task", request>> \in sent' \/ request \in lost'
         /\ stack' = "flask" /\ status'[request] = "server" => transaction'[request] = "rolled back"
<1> USE DEF Inv
<1>1. /\ phase = "after" /\ todo = <<>> /\ UNCHANGED <<stack, transaction, asked>>
      /\ stack = "flask" => status' = status
      /\ stack \in {"flask", "django"}
      /\ status'[request] = "ok" => status[request] = "ok"
  <2>1. request \in Numbers
    BY DEF Teardown, TeardownFails, Shape, Types
  <2> QED  BY <2>1 DEF Teardown, TeardownFails, Types
<1>2. /\ transaction'[request] # "open"
      /\ stack' = "flask" /\ status'[request] = "server" => transaction'[request] = "rolled back"
  BY <1>1 DEF FlaskEnds, DjangoEnds
<1>3. ASSUME status'[request] = "ok", <<"task", request>> \in asked'
      PROVE  <<"task", request>> \in sent' \/ request \in lost'
  <2>1. request \in queue["task"]
    BY <1>1, <1>3 DEF StillQueued
  <2>2. ~error
    BY <1>1, <1>3 DEF ErrorIsAnswered
  <2> QED  BY <2>1, <2>2 DEF Teardown, TeardownFails, Sendable
<1> QED
  BY <1>2, <1>3

LEMMA ResponsesStep ==
  ASSUME Inv, Types, [Next]_vars
  PROVE  ResponsesAreTrue' /\ \A n \in Finished' : transaction'[n] # "open"
<1> SUFFICES ASSUME NEW n \in Finished'
             PROVE  /\ transaction'[n] # "open"
                    /\ status'[n] = "ok" /\ <<"task", n>> \in asked' =>
                         <<"task", n>> \in sent' \/ n \in lost'
                    /\ stack' = "flask" /\ status'[n] = "server" => transaction'[n] = "rolled back"
  BY DEF ResponsesAreTrue
<1>1. CASE n = request /\ request # 0 /\ (Teardown \/ TeardownFails)
  BY <1>1, ResponseAtEnd
<1>2. CASE /\ n \in Finished
           /\ status'[n] = status[n] /\ transaction'[n] = transaction[n]
           /\ <<"task", n>> \in asked' => <<"task", n>> \in asked
  <2>1. transaction[n] # "open"
    BY <1>2 DEF Inv, TypeOK
  <2> QED
    BY <1>2, <2>1, SentGrows DEF Inv, ResponsesAreTrue
<1> QED
  BY <1>1, <1>2, FinishedStays DEF Inv

-----------------------------------------------------------------------------
LEMMA TypeStep ==
  ASSUME Inv, Types, [Next]_vars
  PROVE  TypeOK'
<1> USE DEF Inv
<1>1. \E handlers \in {FlaskAfter, DjangoAfter}, i \in 1 .. 4 :
          todo' = SubSeq(handlers, i, Len(handlers))
  <2>1. todo' \in {FlaskAfter, AfterPostcommit, DjangoAfter, LastHandler, <<>>}
    BY ShapeStep DEF Shape
  <2> QED  BY <2>1, ListsAreTails
<1>2. /\ stack \in Stacks
      /\ request \in 0 .. MaxRequests
      /\ phase \in {"idle", "view", "after"}
      /\ status \in [Numbers -> Statuses]
      /\ transaction \in [Numbers -> {"none", "open", "committed", "rolled back"}]
      /\ queue \in [Kinds -> SUBSET Numbers]
      /\ asked \subseteq Kinds \X Numbers
      /\ sent \subseteq asked
      /\ late \subseteq Numbers
      /\ lost \subseteq Numbers
      /\ error \in BOOLEAN
  BY DEF TypeOK
<1>3. phase # "idle" => request \in Numbers
  BY DEF Shape, Types
<1>4. stack' \in Stacks
  BY <1>2, SentGrows
<1>5. request' \in 0 .. MaxRequests
  <2>1. CASE Begin
    <3>1. request < MaxRequests /\ request' = request + 1
      BY <2>1 DEF Begin
    <3>2. request \in 0 .. MaxRequests /\ MaxRequests \in Nat
      BY <1>2, MaxRequestsAssumption
    <3> QED  BY <3>1, <3>2
  <2>2. CASE request' = request
    BY <1>2, <2>2
  <2> QED
    BY <2>1, <2>2
    DEF Next, Enqueue, FlaskResponds, DjangoReturns, DjangoRaises, PostcommitClears,
        PostcommitRuns, PostcommitFails, TransactionEnds, CommitFails, CeleryClears, Teardown,
        TeardownFails, LateFunction, vars
<1>6. phase' \in {"idle", "view", "after"}
  BY <1>2
  DEF Next, Begin, Enqueue, FlaskResponds, DjangoReturns, DjangoRaises, PostcommitClears,
      PostcommitRuns, PostcommitFails, TransactionEnds, CommitFails, CeleryClears, Teardown,
      TeardownFails, LateFunction, vars
<1>7. status' \in [Numbers -> Statuses]
  BY <1>2
  DEF Next, Begin, Enqueue, FlaskResponds, DjangoReturns, DjangoRaises, PostcommitClears, Raise,
      PostcommitRuns, PostcommitFails, TransactionEnds, CommitFails, CeleryClears, Teardown,
      TeardownFails, LateFunction, vars, Statuses
<1>8. transaction' \in [Numbers -> {"none", "open", "committed", "rolled back"}]
  <2>1. CASE Begin
    BY <1>2, <2>1 DEF Begin
  <2>2. CASE DjangoReturns \/ DjangoRaises
    BY <1>2, <2>2 DEF DjangoReturns, DjangoRaises
  <2>3. CASE TransactionEnds \/ CommitFails
    BY <1>2, <2>3 DEF TransactionEnds, CommitFails
  <2>4. CASE transaction' = transaction
    BY <1>2, <2>4
  <2> QED
    BY <2>1, <2>2, <2>3, <2>4
    DEF Next, Enqueue, FlaskResponds, PostcommitClears, PostcommitRuns, PostcommitFails,
        CeleryClears, Teardown, TeardownFails, LateFunction, vars
<1>9. queue' \in [Kinds -> SUBSET Numbers] /\ asked' \subseteq Kinds \X Numbers
  <2>1. CASE Begin
    BY <1>2, <2>1 DEF Begin, Fresh, NoTasks
  <2>2. ASSUME NEW kind \in Kinds, Enqueue(kind)
        PROVE  queue' \in [Kinds -> SUBSET Numbers] /\ asked' \subseteq Kinds \X Numbers
    <3>1. /\ request \in Numbers
          /\ queue' = [queue EXCEPT ![kind] = @ \cup {request}]
          /\ asked' = asked \cup {<<kind, request>>}
      BY <1>3, <2>2 DEF Enqueue
    <3>2. queue \in [Kinds -> SUBSET Numbers] /\ asked \subseteq Kinds \X Numbers
      BY <1>2
    <3> QED  BY <3>1, <3>2
  <2>3. CASE PostcommitClears
    BY <1>2, <2>3 DEF PostcommitClears
  <2>4. CASE CeleryClears
    BY <1>2, <2>4 DEF CeleryClears
  <2>5. CASE queue' = queue /\ asked' = asked
    BY <1>2, <2>5
  <2> QED
    BY <2>1, <2>2, <2>3, <2>4, <2>5
    DEF Next, FlaskResponds, DjangoReturns, DjangoRaises, PostcommitRuns, PostcommitFails,
        TransactionEnds, CommitFails, Teardown, TeardownFails, LateFunction, vars
<1>10. sent' \subseteq asked'
  <2>1. ASSUME NEW p \in sent' \ sent
        PROVE  p \in asked
    BY SentComesFrom DEF OwnTasks, Kinds, KnownRequests
  <2> QED  BY <1>2, <2>1, SentGrows
<1>11. late' \subseteq Numbers /\ lost' \subseteq Numbers
  <2>1. CASE PostcommitRuns
    BY <1>2, <2>1 DEF PostcommitRuns, Kinds
  <2>2. ASSUME NEW n \in Numbers, LateFunction(n)
        PROVE  late' \subseteq Numbers /\ lost' \subseteq Numbers
    BY <1>2, <2>2 DEF LateFunction
  <2>3. CASE TeardownFails
    BY <1>2, <1>3, <2>3 DEF TeardownFails
  <2>4. CASE late' = late /\ lost' = lost
    BY <1>2, <2>4
  <2> QED
    BY <2>1, <2>2, <2>3, <2>4
    DEF Next, Begin, Enqueue, FlaskResponds, DjangoReturns, DjangoRaises, PostcommitClears,
        PostcommitFails, TransactionEnds, CommitFails, CeleryClears, Teardown, vars
<1>12. error' \in BOOLEAN
  BY <1>2
  DEF Next, Begin, Enqueue, FlaskResponds, DjangoReturns, DjangoRaises, PostcommitClears, Raise,
      PostcommitRuns, PostcommitFails, TransactionEnds, CommitFails, CeleryClears, Teardown,
      TeardownFails, LateFunction, vars
<1> QED
  BY <1>1, <1>4, <1>5, <1>6, <1>7, <1>8, <1>9, <1>10, <1>11, <1>12, ResponsesStep DEF TypeOK

LEMMA InvStep == Inv /\ [Next]_vars => Inv'
<1> SUFFICES ASSUME Inv, [Next]_vars PROVE Inv'
  OBVIOUS
<1>1. Types
  BY TypesHold DEF Inv
<1>2. TypeOK' /\ Shape'
  BY <1>1, TypeStep, ShapeStep DEF Inv
<1>3. OwnTasks' /\ KnownRequests' /\ LateIsCommitted' /\ StillQueued'
  BY <1>1, OwnStep, KnownStep, LateStep, StillStep DEF Inv
<1>4. Begun' /\ DjangoEnds' /\ FlaskEnds' /\ ErrorIsAnswered' /\ RefusedIsCleared'
  BY <1>1, ProgressStep, ClearedStep DEF Inv
<1>5. SentIsCommitted' /\ ResponsesAreTrue'
  BY <1>1, SentStep, ResponsesStep
<1> QED
  BY <1>2, <1>3, <1>4, <1>5 DEF Inv

LEMMA Invariance == Spec => []Inv
BY InvInit, InvStep, PTL DEF Spec

\* Queues, handlers and transactions of a thread are well formed in every state;
\* what is sent was asked for, and no transaction of a finished request is open
\* (celery_teardown_request, postcommit_after_request, transaction_after_request).
THEOREM TypeCorrect == Spec => []TypeOK
BY Invariance, PTL DEF Inv

\* No celery task is sent before its request's transaction is committed, whichever
\* handlers run, raise or are skipped; behind the API no function is either
\* (_enqueue_task, CeleryTaskMiddleware, transaction_after_request).
THEOREM TasksFollowTheCommit == Spec => []SentIsCommitted
BY Invariance, PTL DEF Inv

\* A client that was told ok gets the tasks of its request, unless the broker is
\* down, and a 500 of Flask means that nothing was changed.
THEOREM ResponsesTellTheTruth == Spec => []ResponsesAreTrue
BY Invariance, PTL DEF Inv

\* What an earlier request left in a queue of the thread is never sent by a later
\* one (celery_before_request, postcommit_before_request).
THEOREM TasksAreSentInTheirRequest == Spec => SentInItsRequest
<1>1. Inv /\ [Next]_vars => [\A p \in sent' \ sent : p[2] = request \/ p[2] \in late]_vars
  <2> SUFFICES ASSUME Inv, [Next]_vars, NEW p \in sent' \ sent
               PROVE  p[2] = request \/ p[2] \in late
    OBVIOUS
  <2> QED
    BY TypesHold, SentComesFrom DEF Inv
<1> QED
  BY <1>1, Invariance, PTL DEF Spec, SentInItsRequest

===============================================================================
