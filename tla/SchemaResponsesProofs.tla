------------------------- MODULE SchemaResponsesProofs -------------------------
(***************************************************************************)
(* Proofs of the safety properties of SchemaResponses, for any admins,     *)
(* schema and answers, and any number of versions.                         *)
(***************************************************************************)
EXTENDS SchemaResponses, WellFoundedInduction, NaturalsInduction, TLAPS

\* A response that others may be based on: the initial one, whatever becomes of
\* it, and the revisions that were approved.
Settled(r) == r = Initial \/ state[r] = "APPROVED"

\* Only the initial response revises nothing; a revision is made after what it
\* revises, which stays there as long as it does.
Lineage ==
  /\ Existing # {} => Initial \in Existing
  /\ \A r \in Responses \ Existing : previous[r] = 0 /\ block[r] = NoBlocks
  /\ \A r \in Existing :
       IF r = Initial THEN previous[r] = 0
       ELSE previous[r] \in Existing /\ previous[r] < r /\ Settled(previous[r])

\* So is what a creation under way has found.
CreationsAreSound ==
  \A u \in Creators : creating[u] # 0 => creating[u] \in Existing /\ Settled(creating[u])

\* A response has an own block for what it changes, and shares the others with
\* what it revises.
BlocksAreShared ==
  \A r \in Existing, k \in Keys :
    /\ block[r][k] # None <=> holds[r][k] = r
    /\ holds[r][k] \in Existing
    /\ holds[r][k] # r =>
         /\ r # Initial
         /\ holds[r][k] = holds[previous[r]][k]
         /\ Settled(holds[r][k])

\* The approvals of a revision that overlap: each by a user who is still asked,
\* and when one of them is the last there is no other.
ApprovalsAreSound ==
  \A r \in Responses \ {Initial} : \A m \in approving[r] :
    /\ state[r] = "UNAPPROVED"
    /\ m.user \in pending[r]
    /\ m.last => pending[r] = {m.user}
    /\ \A n \in approving[r] : m.user = n.user => m = n

\* Without moderators and embargoes added later the initial response is never
\* sent back to its authors.
NeverSentBack ==
  ~moderated /\ ~late =>
    /\ sanction \in {"UNAPPROVED", "APPROVED", "REJECTED", "COMPLETED"}
    /\ state[Initial] \in {"UNAPPROVED", "APPROVED", "REJECTED"}
    /\ pending[Initial] = {} /\ approving[Initial] = {}

\* Then what a revision changes differs from what it revises, unless it answers
\* with nothing, and one that was submitted changes something.
ChangesAreChanges ==
  \A r \in Existing \ {Initial} :
    /\ state[r] # "IN_PROGRESS" => \E k \in Keys : holds[r][k] = r
    /\ ~moderated /\ ~late =>
         \A k \in Keys : holds[r][k] = r =>
           Answer(r, k) # Answer(previous[r], k) \/ Answer(r, k) = Blank

\* The inductive invariant.
Inv ==
  /\ TypeOK
  /\ Lineage
  /\ CreationsAreSound
  /\ BlocksAreShared
  /\ ApprovalsAreSound
  /\ SubmittedIsValid
  /\ NeverSentBack
  /\ ChangesAreChanges

-----------------------------------------------------------------------------
\* The order of creation

LEMMA SmallestOf ==
  ASSUME NEW S, S \subseteq Nat, S # {}
  PROVE  \E m \in S : \A n \in S : m <= n
<1>1. PICK m \in S : \A n \in S : <<n, m>> \notin OpToRel(<, Nat)
  BY NatLessThanWellFounded, WFMin
<1>2. ASSUME NEW n \in S PROVE m <= n
  <2>1. ~(n < m)
    BY <1>1 DEF OpToRel
  <2>2. m \in Nat /\ n \in Nat
    OBVIOUS
  <2> QED  BY <2>1, <2>2
<1> QED
  BY <1>2

LEMMA InitialIsThere == Initial \in Responses
BY MaxResponsesAssumption DEF Initial, Responses

LEMMA NewestIs ==
  ASSUME Existing # {}
  PROVE  Newest \in Existing /\ \A q \in Existing : q <= Newest
<1> DEFINE Left == {MaxResponses - r : r \in Existing}
<1>1. \A r \in Existing : r \in Nat /\ MaxResponses - r \in Nat
  BY MaxResponsesAssumption DEF Existing, Responses
<1>2. Left \subseteq Nat /\ Left # {}
  BY <1>1
<1>3. PICK m \in Left : \A n \in Left : m <= n
  BY <1>2, SmallestOf
<1>4. PICK r \in Existing : m = MaxResponses - r
  OBVIOUS
<1>5. ASSUME NEW q \in Existing PROVE q <= r
  <2>1. MaxResponses - r <= MaxResponses - q
    BY <1>3, <1>4
  <2>2. q \in Nat /\ r \in Nat /\ MaxResponses \in Nat
    BY <1>1, MaxResponsesAssumption
  <2> QED  BY <2>1, <2>2
<1>6. \E p \in Existing : \A q \in Existing : q <= p
  BY <1>5
<1> QED
  BY <1>6 DEF Newest

LEMMA OldestIs ==
  ASSUME Lineage, Existing # {}
  PROVE  Oldest = Initial
<1>1. Initial \in Existing /\ \A q \in Existing : Initial <= q
  BY DEF Lineage, Existing, Responses, Initial
<1>2. Oldest \in Existing /\ \A q \in Existing : Oldest <= q
  BY <1>1 DEF Oldest
<1>3. Oldest \in Nat /\ Oldest <= 1 /\ 1 <= Oldest
  BY <1>1, <1>2 DEF Existing, Responses, Initial
<1> QED
  BY <1>3 DEF Initial

\* What a deletion takes along is closed: it leaves no response without the one
\* that it revises, and the initial response unless that is deleted.
LEMMA LineIsClosed ==
  ASSUME Lineage, NEW r \in Responses
  PROVE  /\ \A q \in Existing \ {Initial} : previous[q] \in Line(r) => q \in Line(r)
         /\ Initial \in Line(r) => r = Initial
<1> DEFINE origins[p \in Responses] ==
             {p} \cup IF previous[p] = 0 THEN {} ELSE origins[previous[p]]
           Good(f, n) == f = [p \in 1 .. n |->
             {p} \cup IF previous[p] = 0 THEN {} ELSE f[previous[p]]]
           Bad == {n \in 1 .. MaxResponses : ~\E f : Good(f, n)}
<1>1. MaxResponses \in Nat \ {0} /\ Responses = 1 .. MaxResponses
  BY MaxResponsesAssumption DEF Responses
<1>2. \A p \in Responses : previous[p] = 0 \/ previous[p] \in 1 .. (p - 1)
  <2> SUFFICES ASSUME NEW p \in Responses
               PROVE  previous[p] = 0 \/ previous[p] \in 1 .. (p - 1)
    OBVIOUS
  <2>1. CASE p \notin Existing
    BY <2>1 DEF Lineage
  <2>2. CASE p = Initial /\ p \in Existing
    BY <2>2 DEF Lineage
  <2>3. CASE p # Initial /\ p \in Existing
    BY <2>3, <1>1 DEF Lineage, Existing
  <2> QED  BY <2>1, <2>2, <2>3
<1>3. Bad = {}
  <2> SUFFICES ASSUME Bad # {} PROVE FALSE
    OBVIOUS
  <2>1. PICK n \in Bad : \A m \in Bad : n <= m
    <3>1. Bad \subseteq Nat
      BY <1>1
    <3> HIDE DEF Bad
    <3> QED  BY <3>1, SmallestOf
  <2>2. n \in 1 .. MaxResponses /\ ~\E f : Good(f, n)
    OBVIOUS
  <2>3. \E f : Good(f, n - 1)
    <3>1. CASE n = 1
      <4>1. Good(<<>>, 0)
        OBVIOUS
      <4> QED  BY <3>1, <4>1
    <3>2. CASE n # 1
      <4>1. n - 1 \in 1 .. MaxResponses /\ ~(n <= n - 1)
        BY <1>1, <2>2, <3>2
      <4> QED  BY <2>1, <4>1
    <3> QED  BY <3>1, <3>2
  <2>4. PICK f : Good(f, n - 1)
    BY <2>3
  <2> DEFINE g == [p \in 1 .. n |->
                     {p} \cup IF previous[p] = 0 THEN {} ELSE f[previous[p]]]
  <2>5. \A p \in 1 .. n : previous[p] # 0 => previous[p] \in 1 .. (n - 1)
    BY <1>1, <1>2, <2>2
  <2>6. \A p \in 1 .. (n - 1) : g[p] = f[p]
    <3> SUFFICES ASSUME NEW p \in 1 .. (n - 1) PROVE g[p] = f[p]
      OBVIOUS
    <3>1. p \in 1 .. n
      BY <2>2
    <3>2. f[p] = {p} \cup IF previous[p] = 0 THEN {} ELSE f[previous[p]]
      BY <2>4
    <3> QED  BY <3>1, <3>2
  <2>7. Good(g, n)
    BY <2>5, <2>6
  <2> QED  BY <2>2, <2>7
<1>4. \E f : f = [p \in Responses |->
                    {p} \cup IF previous[p] = 0 THEN {} ELSE f[previous[p]]]
  <2>1. MaxResponses \in 1 .. MaxResponses
    BY <1>1
  <2>2. PICK f : Good(f, MaxResponses)
    BY <1>3, <2>1
  <2> QED  BY <1>1, <2>2
<1>5. origins = [p \in Responses |->
                   {p} \cup IF previous[p] = 0 THEN {} ELSE origins[previous[p]]]
  BY <1>4
<1>6. \A s : Line(s) = {p \in Existing : s \in origins[p]}
  BY DEF Line
<1> HIDE DEF origins
<1>7. ASSUME NEW q \in Existing \ {Initial}
      PROVE  origins[previous[q]] \subseteq origins[q]
  <2>1. q \in Responses /\ previous[q] # 0
    BY <1>1, <1>2 DEF Lineage, Existing
  <2> QED  BY <1>5, <2>1
<1>8. Initial \in Existing => origins[Initial] = {Initial}
  <2>1. Initial \in Existing => Initial \in Responses /\ previous[Initial] = 0
    BY DEF Lineage, Existing
  <2> QED  BY <1>5, <2>1
<1> QED
  BY <1>6, <1>7, <1>8

-----------------------------------------------------------------------------
LEMMA InvInit == Init => Inv
<1> SUFFICES ASSUME Init PROVE Inv
  OBVIOUS
<1>1. /\ sanction = "UNAPPROVED" /\ late = FALSE
      /\ state = [r \in Responses |-> IF r = Initial THEN "UNAPPROVED" ELSE "NONE"]
      /\ previous = [r \in Responses |-> 0]
      /\ block = [r \in Responses |-> IF r = Initial THEN Registered ELSE NoBlocks]
      /\ holds = [r \in Responses |-> [k \in Keys |-> r]]
      /\ pending = [r \in Responses |-> {}]
      /\ creating = [u \in Creators |-> 0]
      /\ approving = [r \in Responses |-> {}]
  BY DEF Init
<1>2. Initial \in Responses /\ 0 \in 0 .. MaxResponses
  BY MaxResponsesAssumption DEF Initial, Responses
<1>3. Existing = {Initial}
  BY <1>1, <1>2 DEF Existing
<1>4. \A k \in Keys : Registered[k] \in Answers \cup {Blank} /\ Registered[k] # None
  BY AnswersAssumption
<1>5. TypeOK
  <2>1. block \in [Responses -> [Keys -> Answers \cup {Blank, None}]]
    BY <1>1, AnswersAssumption DEF NoBlocks
  <2>2. moderated \in BOOLEAN /\ late \in BOOLEAN /\ deleted \in BOOLEAN
    BY DEF Init
  <2> QED
    BY <1>1, <1>2, <2>1, <2>2 DEF TypeOK, States, SanctionStates
<1>6. Lineage
  BY <1>1, <1>2, <1>3 DEF Lineage
<1>7. CreationsAreSound /\ ApprovalsAreSound /\ NeverSentBack /\ ChangesAreChanges
  BY <1>1, <1>2, <1>3
  DEF CreationsAreSound, ApprovalsAreSound, NeverSentBack, ChangesAreChanges
<1>8. BlocksAreShared
  BY <1>1, <1>2, <1>3, <1>4 DEF BlocksAreShared
<1>9. SubmittedIsValid
  BY <1>1, <1>2, <1>3, <1>4 DEF SubmittedIsValid, Answer
<1> QED
  BY <1>5, <1>6, <1>7, <1>8, <1>9 DEF Inv

-----------------------------------------------------------------------------
\* The steps that decide about responses and leave their contents alone: what
\* was approved stays so, and what is submitted is fit for it.
LEMMA ReviewStep ==
  ASSUME Inv, UNCHANGED <<contents, creating>>,
         \A r \in Responses : state'[r] = "NONE" <=> state[r] = "NONE",
         \A r \in Existing \ {Initial} :
           /\ state[r] = "APPROVED" => state'[r] = "APPROVED"
           /\ state[r] = "IN_PROGRESS" /\ state'[r] # "IN_PROGRESS" => MaySubmit(r),
         ~moderated' /\ ~late' => ~moderated /\ ~late,
         TypeOK', ApprovalsAreSound', NeverSentBack'
  PROVE  Inv'
<1>1. Existing' = Existing
  BY DEF Existing
<1>2. \A r \in Existing : Settled(r) => Settled(r)'
  BY DEF Settled
<1>3. UNCHANGED <<previous, block, holds, creating>>
  BY DEF contents
<1>4. Lineage'
  BY <1>1, <1>2, <1>3 DEF Inv, Lineage
<1>5. CreationsAreSound'
  BY <1>1, <1>2, <1>3 DEF Inv, CreationsAreSound
<1>6. BlocksAreShared'
  BY <1>1, <1>2, <1>3 DEF Inv, BlocksAreShared
<1>7. \A r, k : Answer(r, k)' = Answer(r, k)
  BY <1>3 DEF Answer
<1>8. SubmittedIsValid'
  <2> SUFFICES ASSUME NEW r \in Existing, NEW k \in Keys,
                      previous[r] # 0, state'[r] # "IN_PROGRESS"
               PROVE  Valid(k, Answer(r, k)) \/ holds[r][k] = Initial
    BY <1>1, <1>3, <1>7 DEF Inv, SubmittedIsValid, Valid
  <2>1. r \in Existing \ {Initial} /\ previous[r] \in Existing /\ Settled(previous[r])
    BY DEF Inv, Lineage
  <2>2. CASE state[r] # "IN_PROGRESS"
    BY <2>2 DEF Inv, SubmittedIsValid
  <2>3. CASE MaySubmit(r) /\ holds[r][k] = r
    <3>1. k \in Own(r)
      BY <2>3 DEF Inv, BlocksAreShared, Own
    <3> QED  BY <2>3, <3>1 DEF MaySubmit, Answer
  <2>4. CASE holds[r][k] # r
    <3>1. /\ holds[r][k] = holds[previous[r]][k]
          /\ Answer(r, k) = Answer(previous[r], k)
      BY <2>4 DEF Inv, BlocksAreShared, Answer
    <3>2. CASE previous[r] = Initial
      BY <2>1, <3>1, <3>2 DEF Inv, BlocksAreShared
    <3>3. CASE previous[r] # Initial
      <4>1. previous[previous[r]] # 0 /\ state[previous[r]] # "IN_PROGRESS"
        BY <2>1, <3>3 DEF Inv, Lineage, Settled, Existing, Responses
      <4> QED  BY <2>1, <3>1, <4>1 DEF Inv, SubmittedIsValid
    <3> QED  BY <3>2, <3>3
  <2> QED  BY <2>1, <2>2, <2>3, <2>4
<1>9. ChangesAreChanges'
  <2>1. ASSUME NEW r \in Existing \ {Initial}, state'[r] # "IN_PROGRESS"
        PROVE  \E k \in Keys : holds[r][k] = r
    <3>1. CASE state[r] # "IN_PROGRESS"
      BY <3>1 DEF Inv, ChangesAreChanges
    <3>2. CASE MaySubmit(r)
      BY <3>2 DEF Inv, BlocksAreShared, MaySubmit, Own
    <3> QED  BY <2>1, <3>1, <3>2
  <2> QED
    BY <1>1, <1>3, <1>7, <2>1 DEF Inv, ChangesAreChanges
<1> QED
  BY <1>4, <1>5, <1>6, <1>8, <1>9 DEF Inv

LEMMA SubmitStep ==
  ASSUME Inv, NEW r \in Existing, Submit(r)
  PROVE  Inv'
<1>1. /\ state[r] = "IN_PROGRESS" /\ MaySubmit(r) /\ approving[r] = {}
      /\ state' = [state EXCEPT ![r] = "UNAPPROVED"]
      /\ pending' = [pending EXCEPT ![r] = Admins]
      /\ UNCHANGED <<registration, contents, creating, approving>>
  BY DEF Submit, Open
<1>2. r \in Responses
  BY DEF Existing
<1>3. TypeOK'
  BY <1>1 DEF Inv, TypeOK, registration, contents, States
<1>4. ApprovalsAreSound'
  BY <1>1, <1>2 DEF Inv, TypeOK, ApprovalsAreSound
<1>5. NeverSentBack'
  BY <1>1 DEF Inv, TypeOK, NeverSentBack, registration
<1> QED
  BY <1>1, <1>2, <1>3, <1>4, <1>5, ReviewStep DEF Inv, TypeOK, registration

LEMMA ApprovalChecksStep ==
  ASSUME Inv, NEW r \in Existing, NEW u \in Admins, ApprovalChecks(r, u)
  PROVE  Inv'
<1> DEFINE m == [user |-> u, last |-> pending[r] = {u}]
<1>1. /\ state[r] = "UNAPPROVED" /\ u \in pending[r]
      /\ \A x \in approving[r] : x.user # u
      /\ approving' = [approving EXCEPT ![r] = @ \cup {m}]
      /\ UNCHANGED <<registration, state, contents, pending, creating>>
  BY DEF ApprovalChecks
<1>2. r \in Responses
  BY DEF Existing
<1>3. m \in [user : Admins, last : BOOLEAN] /\ m.user = u /\ (m.last <=> pending[r] = {u})
  OBVIOUS
<1> HIDE DEF m
<1>4. TypeOK'
  <2>1. approving' \in [Responses -> SUBSET [user : Admins, last : BOOLEAN]]
    BY <1>1, <1>3 DEF Inv, TypeOK
  <2> QED  BY <1>1, <2>1 DEF Inv, TypeOK, registration, contents
<1>5. ApprovalsAreSound'
  <2>1. approving'[r] = approving[r] \cup {m}
    BY <1>1, <1>2 DEF Inv, TypeOK
  <2>2. \A q \in Responses \ {r} : approving'[q] = approving[q]
    BY <1>1 DEF Inv, TypeOK
  <2> QED
    BY <1>1, <1>3, <2>1, <2>2 DEF Inv, ApprovalsAreSound
<1>6. NeverSentBack'
  BY <1>1, <1>2 DEF Inv, TypeOK, NeverSentBack, registration
<1> QED
  BY <1>1, <1>4, <1>5, <1>6, ReviewStep DEF registration

LEMMA ApprovalCommitsStep ==
  ASSUME Inv, NEW r \in Existing, NEW x \in approving[r], ApprovalCommits(r, x)
  PROVE  Inv'
<1> DEFINE new == IF ~x.last THEN "UNAPPROVED"
                  ELSE IF moderated THEN "PENDING_MODERATION" ELSE "APPROVED"
           left == IF x.last THEN {} ELSE pending[r] \ {x.user}
<1>1. r \in Responses /\ approving[r] \subseteq [user : Admins, last : BOOLEAN]
  BY DEF Existing, Inv, TypeOK
<1>2. /\ approving' = [approving EXCEPT ![r] = @ \ {x}]
      /\ state' = [state EXCEPT ![r] = new]
      /\ pending' = [pending EXCEPT ![r] = left]
      /\ UNCHANGED <<registration, contents, creating>>
  BY <1>1 DEF ApprovalCommits, Inv, TypeOK
<1>3. new \in States \ {"NONE", "IN_PROGRESS"} /\ left \subseteq Admins
  BY <1>1 DEF States, Inv, TypeOK
<1>4. r # Initial => state[r] = "UNAPPROVED"
  BY <1>1 DEF Inv, ApprovalsAreSound
<1>5. TypeOK'
  <2> HIDE DEF new, left
  <2>1. approving' \in [Responses -> SUBSET [user : Admins, last : BOOLEAN]]
    BY <1>2 DEF Inv, TypeOK
  <2> QED  BY <1>2, <1>3, <2>1 DEF Inv, TypeOK, registration, contents
<1>6. ApprovalsAreSound'
  <2> SUFFICES ASSUME NEW q \in Responses \ {Initial}, NEW m \in approving'[q]
               PROVE  /\ state'[q] = "UNAPPROVED"
                      /\ m.user \in pending'[q]
                      /\ m.last => pending'[q] = {m.user}
                      /\ \A n \in approving'[q] : m.user = n.user => m = n
    BY DEF ApprovalsAreSound
  <2>1. CASE q # r
    BY <1>2, <2>1 DEF Inv, TypeOK, ApprovalsAreSound
  <2>2. CASE q = r
    <3>1. m \in approving[r] /\ m # x /\ approving'[r] = approving[r] \ {x}
      BY <1>1, <1>2, <2>2 DEF Inv, TypeOK
    <3>2. /\ x.user \in pending[r] /\ (x.last => pending[r] = {x.user})
          /\ m.user \in pending[r] /\ (m.last => pending[r] = {m.user})
          /\ m.user # x.user
          /\ \A n \in approving[r] : m.user = n.user => m = n
      BY <1>1, <2>2, <3>1 DEF Inv, ApprovalsAreSound
    <3>3. ~x.last /\ ~m.last
      BY <3>2
    <3>4. state'[r] = "UNAPPROVED" /\ pending'[r] = pending[r] \ {x.user}
      BY <1>1, <1>2, <3>3 DEF Inv, TypeOK
    <3> QED  BY <2>2, <3>1, <3>2, <3>3, <3>4
  <2> QED  BY <2>1, <2>2
<1>7. NeverSentBack'
  BY <1>1, <1>2 DEF Inv, TypeOK, NeverSentBack, registration
<1> HIDE DEF new, left
<1>8. \A q \in Responses : state'[q] = IF q = r THEN new ELSE state[q]
  BY <1>2 DEF Inv, TypeOK
<1> QED
  BY <1>1, <1>2, <1>3, <1>4, <1>5, <1>6, <1>7, <1>8, ReviewStep DEF registration, Existing

\* The reject trigger and the moderators
LEMMA DecisionStep ==
  ASSUME Inv, NEW r \in Existing,
         \/ ModeratorAccept(r) \/ ModeratorReject(r)
         \/ \E u \in Admins : AdminReject(r, u)
  PROVE  Inv'
<1>1. /\ approving[r] = {}
      /\ state[r] \in {"UNAPPROVED", "PENDING_MODERATION"}
      /\ state[r] = "UNAPPROVED" => pending[r] # {}
      /\ \E s \in {"IN_PROGRESS", "APPROVED"} : state' = [state EXCEPT ![r] = s]
      /\ pending' = [pending EXCEPT ![r] = {}]
      /\ UNCHANGED <<registration, contents, creating, approving>>
  BY DEF ModeratorAccept, ModeratorReject, AdminReject, Rejected, Open
<1>2. r \in Responses
  BY DEF Existing
<1>3. \A q \in Responses :
        /\ q # r => state'[q] = state[q]
        /\ q = r => state'[q] \in {"IN_PROGRESS", "APPROVED"}
  BY <1>1 DEF Inv, TypeOK
<1>4. TypeOK'
  BY <1>1 DEF Inv, TypeOK, registration, contents, States
<1>5. ApprovalsAreSound'
  BY <1>1, <1>2, <1>3 DEF Inv, TypeOK, ApprovalsAreSound
<1>6. NeverSentBack'
  BY <1>1, <1>2, <1>3 DEF Inv, TypeOK, NeverSentBack, registration
<1> QED
  BY <1>1, <1>2, <1>3, <1>4, <1>5, <1>6, ReviewStep DEF registration

LEMMA NightlyStep ==
  ASSUME Inv, NightlyScript
  PROVE  Inv'
<1>1. PICK S \in SUBSET Overdue : NightlyAccept(S)
  BY DEF NightlyScript
<1> DEFINE new == IF moderated THEN "PENDING_MODERATION" ELSE "APPROVED"
<1>2. /\ \A r \in S : approving[r] = {}
      /\ state' = [r \in Responses |-> IF r \in S THEN new ELSE state[r]]
      /\ pending' = [r \in Responses |-> IF r \in S /\ ~moderated THEN {} ELSE pending[r]]
      /\ UNCHANGED <<registration, contents, creating, approving>>
  BY <1>1 DEF NightlyAccept, AcceptAll
<1>3. new \in States \ {"NONE", "IN_PROGRESS"}
  BY DEF States
<1>4. \A r \in S : r \in Responses /\ state[r] = "UNAPPROVED" /\ r # Initial
  BY <1>1 DEF Overdue, Inv, Lineage, Existing
<1> HIDE DEF new
<1>5. TypeOK'
  <2>1. state' \in [Responses -> States] /\ pending' \in [Responses -> SUBSET Admins]
    BY <1>2, <1>3 DEF Inv, TypeOK
  <2> QED  BY <1>2, <2>1 DEF Inv, TypeOK, registration, contents
<1>6. ApprovalsAreSound'
  BY <1>2, <1>4 DEF Inv, TypeOK, ApprovalsAreSound
<1>7. NeverSentBack'
  BY <1>2, <1>4, InitialIsThere DEF Inv, TypeOK, NeverSentBack, registration
<1> QED
  BY <1>2, <1>3, <1>4, <1>5, <1>6, <1>7, ReviewStep DEF registration, Existing

LEMMA WriteIs ==
  ASSUME Inv, NEW s, Write(s)
  PROVE  \/ state' = state
         \/ s # "COMPLETED" /\ Initial \in Existing /\ state' = [state EXCEPT ![Initial] = s]
BY OldestIs DEF Write, Inv, Lineage

\* The registration's sanctions reach no response but the initial one.
LEMMA ParentStep ==
  ASSUME Inv, Parent
  PROVE  Inv'
<1>1. /\ UNCHANGED <<moderated, contents, pending, creating, approving>>
      /\ late' \in BOOLEAN /\ deleted' \in BOOLEAN /\ sanction' \in SanctionStates
      /\ ~late' => ~late
      /\ \E s \in SanctionStates :
           /\ Write(s)
           /\ ~moderated /\ ~late /\ ~late' =>
                /\ s \in {"UNAPPROVED", "APPROVED", "REJECTED", "COMPLETED"}
                /\ sanction' \in {"UNAPPROVED", "APPROVED", "REJECTED", "COMPLETED"}
  <2>1. CASE SanctionMoves
    BY <2>1 DEF SanctionMoves, Inv, TypeOK, NeverSentBack
  <2>2. CASE AddEmbargo
    BY <2>2 DEF AddEmbargo, Inv, TypeOK, SanctionStates
  <2>3. CASE UpdateModerationState
    BY <2>3 DEF UpdateModerationState, Inv, TypeOK, registration, NeverSentBack
  <2> QED  BY <2>1, <2>2, <2>3 DEF Parent
<1>2. PICK s \in SanctionStates :
        /\ \/ state' = state
           \/ s # "COMPLETED" /\ Initial \in Existing /\ state' = [state EXCEPT ![Initial] = s]
        /\ ~moderated /\ ~late /\ ~late' => s \in {"UNAPPROVED", "APPROVED", "REJECTED", "COMPLETED"}
  BY <1>1, WriteIs
<1>3. s # "COMPLETED" => s \in States \ {"NONE"}
  BY DEF SanctionStates, States
<1>4. TypeOK'
  <2>1. state' \in [Responses -> States]
    BY <1>2, <1>3 DEF Inv, TypeOK
  <2> QED  BY <1>1, <2>1 DEF Inv, TypeOK, contents
<1>5. ApprovalsAreSound'
  BY <1>1, <1>2 DEF Inv, TypeOK, ApprovalsAreSound
<1>6. NeverSentBack'
  BY <1>1, <1>2, InitialIsThere DEF Inv, TypeOK, NeverSentBack
<1>7. \A r \in Responses : state'[r] = "NONE" <=> state[r] = "NONE"
  BY <1>2, <1>3 DEF Inv, TypeOK, Existing
<1>8. \A r \in Existing \ {Initial} : state'[r] = state[r]
  BY <1>2 DEF Inv, TypeOK, Existing
<1> QED
  BY <1>1, <1>4, <1>5, <1>6, <1>7, <1>8, ReviewStep

-----------------------------------------------------------------------------
\* Creation

LEMMA CreateInitialStep ==
  ASSUME Inv, CreateInitial
  PROVE  Inv'
<1>1. /\ Existing = {}
      /\ state' = [state EXCEPT ![Initial] = "IN_PROGRESS"]
      /\ previous' = [previous EXCEPT ![Initial] = 0]
      /\ block' = [block EXCEPT ![Initial] = [k \in Keys |-> Blank]]
      /\ holds' = [holds EXCEPT ![Initial] = [k \in Keys |-> Initial]]
      /\ UNCHANGED <<registration, pending, creating, approving>>
  BY DEF CreateInitial
<1>2. Initial \in Responses /\ 0 \in 0 .. MaxResponses
  BY InitialIsThere, MaxResponsesAssumption
<1>3. Existing' = {Initial} /\ state[Initial] = "NONE"
  BY <1>1, <1>2 DEF Inv, TypeOK, Existing
<1>4. TypeOK'
  BY <1>1, <1>2 DEF Inv, TypeOK, registration, States
<1>5. Lineage'
  <2>1. \A r \in Responses \ {Initial} : previous'[r] = previous[r] /\ block'[r] = block[r]
    BY <1>1 DEF Inv, TypeOK
  <2>2. previous'[Initial] = 0
    BY <1>1, <1>2 DEF Inv, TypeOK
  <2> QED  BY <1>1, <1>3, <2>1, <2>2 DEF Inv, Lineage
<1>6. CreationsAreSound'
  BY <1>1 DEF Inv, CreationsAreSound
<1>7. /\ \A k \in Keys : block'[Initial][k] = Blank /\ holds'[Initial][k] = Initial
      /\ Blank # None
      /\ previous'[Initial] = 0
  BY <1>1, <1>2, AnswersAssumption DEF Inv, TypeOK
<1>8. BlocksAreShared'
  BY <1>3, <1>7 DEF BlocksAreShared
<1>9. ApprovalsAreSound'
  BY <1>1 DEF Inv, TypeOK, ApprovalsAreSound
<1>10. SubmittedIsValid'
  BY <1>3, <1>7 DEF SubmittedIsValid, Answer
<1>11. NeverSentBack'
  BY <1>1, <1>3 DEF Inv, NeverSentBack, registration
<1>12. ChangesAreChanges'
  BY <1>3 DEF ChangesAreChanges
<1> QED
  BY <1>4, <1>5, <1>6, <1>8, <1>9, <1>10, <1>11, <1>12 DEF Inv

LEMMA CreationChecksStep ==
  ASSUME Inv, NEW u \in Creators, CreationChecks(u)
  PROVE  Inv'
<1>1. /\ Existing # {} /\ MayRevise
      /\ creating' = [creating EXCEPT ![u] = Newest]
      /\ UNCHANGED <<registration, state, contents, pending, approving>>
  BY DEF CreationChecks
<1>2. Newest \in Existing /\ Settled(Newest)
  BY <1>1, NewestIs DEF MayRevise, Settled
<1>3. Newest \in 0 .. MaxResponses
  BY <1>2, MaxResponsesAssumption DEF Existing, Responses
<1>4. TypeOK'
  BY <1>1, <1>3 DEF Inv, TypeOK, registration, contents
<1>5. CreationsAreSound'
  BY <1>1, <1>2 DEF Inv, TypeOK, CreationsAreSound, Existing, Settled
<1> QED
  BY <1>1, <1>4, <1>5
  DEF Inv, registration, contents, Lineage, BlocksAreShared, ApprovalsAreSound, SubmittedIsValid,
      NeverSentBack, ChangesAreChanges, Existing, Settled, Answer, Valid

LEMMA CreationInsertsStep ==
  ASSUME Inv, NEW u \in Creators, CreationInserts(u)
  PROVE  Inv'
<1> DEFINE q == creating[u]
           r == Newest + 1
           SettledThen(p) == p = Initial \/ state'[p] = "APPROVED"
<1>1. /\ q # 0 /\ r \in Responses
      /\ state' = [state EXCEPT ![r] = "IN_PROGRESS"]
      /\ previous' = [previous EXCEPT ![r] = q]
      /\ holds' = [holds EXCEPT ![r] = holds[q]]
      /\ creating' = [creating EXCEPT ![u] = 0]
      /\ UNCHANGED <<registration, block, pending, approving>>
  BY DEF CreationInserts, Shared
<1>2. q \in Existing /\ Settled(q) /\ q \in Responses
  BY <1>1 DEF Inv, CreationsAreSound, Existing
<1>3. Newest \in Existing /\ q <= Newest /\ \A p \in Existing : p <= Newest
  BY <1>2, NewestIs
<1>4. r \notin Existing /\ q < r /\ r # Initial
  <2>1. Newest \in Nat /\ 1 <= Newest /\ q \in Nat
    BY <1>2, <1>3 DEF Existing, Responses
  <2> QED  BY <1>3, <2>1 DEF Initial
<1> HIDE DEF q, r
<1>5. Existing' = Existing \cup {r} /\ state[r] = "NONE"
  BY <1>1, <1>4 DEF Inv, TypeOK, Existing
<1>6. /\ \A p \in Existing : /\ previous'[p] = previous[p] /\ holds'[p] = holds[p]
                             /\ state'[p] = state[p] /\ block'[p] = block[p]
      /\ previous'[r] = q /\ holds'[r] = holds[q] /\ state'[r] = "IN_PROGRESS"
      /\ block'[r] = NoBlocks
  BY <1>1, <1>4 DEF Inv, TypeOK, Existing, Lineage
<1>7. \A p \in Existing : Settled(p) => SettledThen(p)
  BY <1>6 DEF Settled
<1> HIDE DEF SettledThen
<1>8. TypeOK'
  <2>1. creating' \in [Creators -> 0 .. MaxResponses]
    BY <1>1, MaxResponsesAssumption DEF Inv, TypeOK
  <2>2. q \in 0 .. MaxResponses
    BY <1>2, MaxResponsesAssumption DEF Responses
  <2>3. /\ state' \in [Responses -> States]
        /\ previous' \in [Responses -> 0 .. MaxResponses]
        /\ holds' \in [Responses -> [Keys -> Responses]]
    BY <1>1, <1>2, <2>2 DEF Inv, TypeOK, States
  <2> QED
    BY <1>1, <2>1, <2>3 DEF Inv, TypeOK, registration
<1>9. Lineage'
  <2>1. \A p \in Responses \ Existing' : previous'[p] = 0 /\ block'[p] = NoBlocks
    BY <1>1, <1>5 DEF Inv, TypeOK, Lineage
  <2>2. Initial \in Existing'
    BY <1>2, <1>5 DEF Inv, Lineage
  <2>3. ASSUME NEW p \in Existing'
        PROVE  IF p = Initial THEN previous'[p] = 0
               ELSE previous'[p] \in Existing' /\ previous'[p] < p /\ SettledThen(previous'[p])
    <3>1. CASE p = r
      BY <1>2, <1>4, <1>5, <1>6, <1>7, <3>1
    <3>2. CASE p # r
      BY <1>5, <1>6, <1>7, <2>3, <3>2 DEF Inv, Lineage
    <3> QED  BY <3>1, <3>2
  <2> QED  BY <2>1, <2>2, <2>3 DEF Lineage, Settled, SettledThen
<1>10. CreationsAreSound'
  BY <1>1, <1>5, <1>7 DEF Inv, TypeOK, CreationsAreSound, Settled, SettledThen
<1>11. ASSUME NEW p \in Existing, NEW k \in Keys
       PROVE  Answer(p, k)' = Answer(p, k) /\ Answer(p, k) # None /\ holds[p][k] \in Existing
  BY <1>1, <1>6 DEF Answer, Inv, SubmittedIsValid, BlocksAreShared
<1>12. \A k \in Keys : block'[holds'[r][k]][k] = Answer(q, k)
  <2>1. block' = block /\ holds'[r] = holds[q]
    BY <1>1, <1>6
  <2> QED  BY <2>1 DEF Answer
<1>13. BlocksAreShared'
  <2> SUFFICES ASSUME NEW p \in Existing', NEW k \in Keys
               PROVE  /\ block'[p][k] # None <=> holds'[p][k] = p
                      /\ holds'[p][k] \in Existing'
                      /\ holds'[p][k] # p =>
                           /\ p # Initial
                           /\ holds'[p][k] = holds'[previous'[p]][k]
                           /\ SettledThen(holds'[p][k])
    BY DEF BlocksAreShared, Settled, SettledThen
  <2>1. CASE p = r
    <3>1. holds[q][k] \in Existing /\ holds[q][k] # r /\ Settled(holds[q][k])
      BY <1>2, <1>4 DEF Inv, BlocksAreShared
    <3>2. block'[r][k] = None
      BY <1>6 DEF NoBlocks
    <3>3. holds'[q] = holds[q]
      BY <1>2, <1>6
    <3> QED  BY <1>4, <1>5, <1>6, <1>7, <2>1, <3>1, <3>2, <3>3
  <2>2. CASE p # r
    <3>1. p \in Existing
      BY <1>5, <2>2
    <3>2. /\ block[p][k] # None <=> holds[p][k] = p
          /\ holds[p][k] \in Existing
          /\ holds[p][k] # p => /\ p # Initial
                                /\ holds[p][k] = holds[previous[p]][k]
                                /\ Settled(holds[p][k])
      BY <3>1 DEF Inv, BlocksAreShared
    <3>3. p # Initial => previous[p] \in Existing
      BY <3>1 DEF Inv, Lineage
    <3> QED  BY <1>5, <1>6, <1>7, <3>1, <3>2, <3>3
  <2> QED  BY <2>1, <2>2
<1>14. ApprovalsAreSound'
  BY <1>1, <1>5 DEF Inv, TypeOK, ApprovalsAreSound
<1>15. SubmittedIsValid'
  <2> SUFFICES ASSUME NEW p \in Existing', NEW k \in Keys
               PROVE  /\ Answer(p, k)' # None
                      /\ previous'[p] # 0 /\ state'[p] # "IN_PROGRESS"
                           => Valid(k, Answer(p, k)') \/ holds'[p][k] = Initial
    BY DEF SubmittedIsValid, Valid
  <2>1. CASE p = r
    <3>1. Answer(p, k)' = Answer(q, k)
      BY <1>12, <2>1 DEF Answer
    <3> QED  BY <1>2, <1>6, <1>11, <2>1, <3>1
  <2>2. CASE p # r
    BY <1>5, <1>6, <1>11, <2>2 DEF Inv, SubmittedIsValid, Valid
  <2> QED  BY <2>1, <2>2
<1>16. NeverSentBack'
  BY <1>1, <1>4 DEF Inv, TypeOK, NeverSentBack, registration
<1>17. ChangesAreChanges'
  <2>1. \A k \in Keys : holds'[r][k] # r
    BY <1>2, <1>4, <1>6 DEF Inv, BlocksAreShared
  <2>2. \A p \in Existing \ {Initial} : previous[p] \in Existing
    BY DEF Inv, Lineage
  <2> QED
    BY <1>1, <1>5, <1>6, <1>11, <2>1, <2>2 DEF Inv, ChangesAreChanges, registration
<1> QED
  BY <1>8, <1>9, <1>10, <1>13, <1>14, <1>15, <1>16, <1>17 DEF Inv

-----------------------------------------------------------------------------
\* Editing

\* What set_response stores is an answer or the default, and no other than what
\* was compared, unless that counted as none.
LEMMA StoredIs ==
  ASSUME NEW k \in Keys, NEW i \in Inputs[k]
  PROVE  /\ Cleaned(i) # None
         /\ Stored(Cleaned(i)) \in Answers \cup {Blank} /\ Stored(Cleaned(i)) # None
         /\ Stored(Cleaned(i)) = Cleaned(i) \/ Stored(Cleaned(i)) = Blank
<1>1. i \in DOMAIN StripHtml
  BY InputsAssumption
<1>2. Cleaned(i) \in Answers \cup {Blank, Empty}
  BY <1>1, InputsAssumption DEF Cleaned
<1>3. StripHtml[Cleaned(i)] = Cleaned(i)
  BY <1>2, InputsAssumption
<1> QED
  BY <1>2, <1>3, AnswersAssumption, InputsAssumption DEF Stored

LEMMA UpdateStep ==
  ASSUME Inv, NEW r \in Existing, NEW k \in Keys, NEW i \in Inputs[k],
         UpdateResponse(r, k, i)
  PROVE  Inv'
<1>0. PICK a, b :
        /\ a # None /\ b \in Answers \cup {Blank} /\ b # None
        /\ b = a \/ b = Blank
        /\ a = Cleaned(i) /\ b = Stored(a)
  BY StoredIs
<1>1. /\ state[r] = "IN_PROGRESS" /\ a # Answer(r, k)
      /\ IF Reverted(r, k, a) THEN PutBack(r, k) ELSE Changed(r, k, b)
      /\ UNCHANGED <<registration, state, previous, pending, creating, approving>>
  BY <1>0 DEF UpdateResponse
<1>2. r \in Responses /\ a # None /\ b \in Answers \cup {Blank} /\ b # None
  BY <1>0 DEF Existing
<1>3. Existing' = Existing
  BY <1>1 DEF Existing
<1>4. \A q : Settled(q)' <=> Settled(q)
  BY <1>1 DEF Settled
<1>5. Settled(r) => r = Initial
  BY <1>1 DEF Settled
<1>6. ASSUME NEW q \in Existing \ {r}, NEW j \in Keys, holds[q][j] = r
      PROVE  r = Initial
  BY <1>5, <1>6 DEF Inv, BlocksAreShared
<1>7. r # Initial => /\ previous[r] \in Existing \ {r} /\ Settled(previous[r])
                     /\ previous[r] \in Responses
  BY <1>2 DEF Inv, Lineage, Existing, Responses
<1>8. previous[Initial] = 0 /\ Initial \in Existing
  BY DEF Inv, Lineage
<1>9. CASE Reverted(r, k, a)
  <2> DEFINE h == holds[previous[r]][k]
  <2>1. r # Initial /\ Answer(previous[r], k) = a
    BY <1>8, <1>9 DEF Reverted
  <2>2. holds[r][k] = r
    BY <1>1, <2>1 DEF Inv, BlocksAreShared, Answer
  <2>3. h \in Existing \ {r} /\ Settled(h) /\ block[h][k] = a
    BY <1>6, <1>7, <2>1 DEF Inv, BlocksAreShared, Answer
  <2>4. h \in Responses
    BY <2>3 DEF Existing
  <2>5. block' = [block EXCEPT ![r][k] = None] /\ holds' = [holds EXCEPT ![r][k] = h]
    BY <1>1, <1>9, <2>2 DEF PutBack
  <2> HIDE DEF h
  <2>6. \A q \in Responses, j \in Keys :
          /\ block'[q][j] = IF q = r /\ j = k THEN None ELSE block[q][j]
          /\ holds'[q][j] = IF q = r /\ j = k THEN h ELSE holds[q][j]
    BY <1>2, <2>5 DEF Inv, TypeOK
  <2>7. TypeOK'
    BY <1>1, <2>4, <2>5 DEF Inv, TypeOK, registration
  <2>8. Lineage'
    BY <1>1, <1>2, <1>3, <1>4, <2>5 DEF Inv, TypeOK, Lineage
  <2>9. \A q \in Existing, j \in Keys : Answer(q, j)' = IF q = r /\ j = k THEN a ELSE Answer(q, j)
    <3> SUFFICES ASSUME NEW q \in Existing, NEW j \in Keys
                 PROVE  Answer(q, j)' = IF q = r /\ j = k THEN a ELSE Answer(q, j)
      OBVIOUS
    <3>1. holds[q][j] \in Responses /\ q \in Responses
      BY DEF Inv, TypeOK, Existing
    <3>2. CASE q = r /\ j = k
      BY <2>3, <2>4, <2>6, <3>1, <3>2 DEF Answer
    <3>3. CASE j # k
      BY <2>6, <3>1, <3>3 DEF Answer
    <3>4. CASE q # r /\ j = k
      <4>1. holds[q][j] # r
        BY <1>6, <2>1, <3>4
      <4> QED  BY <2>6, <3>1, <3>4, <4>1 DEF Answer
    <3> QED  BY <3>2, <3>3, <3>4
  <2>10. \A q \in Existing \ {Initial} : previous[q] \in Existing \ {r}
    BY <1>5, <2>1 DEF Inv, Lineage
  <2>11. BlocksAreShared'
    <3> SUFFICES ASSUME NEW q \in Existing, NEW j \in Keys
                 PROVE  /\ block'[q][j] # None <=> holds'[q][j] = q
                        /\ holds'[q][j] \in Existing
                        /\ holds'[q][j] # q =>
                             /\ q # Initial
                             /\ holds'[q][j] = holds'[previous[q]][j]
                             /\ Settled(holds'[q][j])
      BY <1>1, <1>3, <1>4 DEF BlocksAreShared, Settled
    <3>1. q \in Responses /\ \A p \in Existing : p \in Responses
      BY DEF Existing
    <3>2. CASE q = r /\ j = k
      BY <1>2, <1>7, <2>1, <2>3, <2>6, <3>1, <3>2 DEF h
    <3>3. CASE ~(q = r /\ j = k)
      BY <2>6, <2>10, <3>1, <3>3 DEF Inv, BlocksAreShared
    <3> QED  BY <3>2, <3>3
  <2>12. SubmittedIsValid'
    BY <1>1, <1>2, <1>3, <2>6, <2>9 DEF Inv, SubmittedIsValid, Valid, Existing
  <2>13. ChangesAreChanges'
    <3>1. \A q \in Existing \ {r}, j \in Keys : holds'[q][j] = holds[q][j]
      BY <2>6 DEF Existing
    <3>2. \A j \in Keys : holds'[r][j] = r => j # k /\ holds[r][j] = r
      BY <1>2, <2>3, <2>6
    <3> QED
      BY <1>1, <1>3, <2>9, <2>10, <3>1, <3>2 DEF Inv, ChangesAreChanges, registration
  <2> QED
    BY <1>1, <1>3, <1>4, <2>7, <2>8, <2>11, <2>12, <2>13
    DEF Inv, CreationsAreSound, ApprovalsAreSound, NeverSentBack, registration
<1>10. CASE ~Reverted(r, k, a)
  <2>1. block' = [block EXCEPT ![r][k] = b] /\ holds' = [holds EXCEPT ![r][k] = r]
    BY <1>1, <1>10 DEF Changed
  <2>2. \A q \in Responses, j \in Keys :
          /\ block'[q][j] = IF q = r /\ j = k THEN b ELSE block[q][j]
          /\ holds'[q][j] = IF q = r /\ j = k THEN r ELSE holds[q][j]
    BY <1>2, <2>1 DEF Inv, TypeOK
  <2>3. TypeOK'
    BY <1>1, <1>2, <2>1 DEF Inv, TypeOK, registration
  <2>4. Lineage'
    BY <1>1, <1>2, <1>3, <1>4, <2>1 DEF Inv, TypeOK, Lineage
  <2>5. holds[Initial][k] = Initial
    BY <1>8 DEF Inv, BlocksAreShared
  <2>6. \A q \in Existing, j \in Keys :
          /\ q = r /\ j = k => Answer(q, j)' = b
          /\ ~(q = r /\ j = k) => \/ Answer(q, j)' = Answer(q, j)
                                  \/ Answer(q, j)' = b /\ holds[q][j] = Initial /\ r = Initial
    <3> SUFFICES ASSUME NEW q \in Existing, NEW j \in Keys
                 PROVE  /\ q = r /\ j = k => Answer(q, j)' = b
                        /\ ~(q = r /\ j = k) =>
                             \/ Answer(q, j)' = Answer(q, j)
                             \/ Answer(q, j)' = b /\ holds[q][j] = Initial /\ r = Initial
      OBVIOUS
    <3>1. holds[q][j] \in Responses /\ q \in Responses
      BY DEF Inv, TypeOK, Existing
    <3>2. CASE q = r /\ j = k
      BY <2>2, <3>1, <3>2 DEF Answer
    <3>3. CASE j # k
      BY <2>2, <3>1, <3>3 DEF Answer
    <3>4. CASE q # r /\ holds[q][j] # r
      BY <2>2, <3>1, <3>4 DEF Answer
    <3>5. CASE q # r /\ holds[q][j] = r /\ j = k
      BY <1>6, <2>2, <3>1, <3>5 DEF Answer
    <3> QED  BY <3>2, <3>3, <3>4, <3>5
  <2>7. \A q \in Existing \ {r}, j \in Keys : holds'[q][j] = holds[q][j]
    BY <2>2 DEF Existing
  <2>8. \A q \in Existing \ {Initial} : previous[q] \in Existing /\ (previous[q] = r => r = Initial)
    BY <1>5 DEF Inv, Lineage
  <2>9. \A q \in Existing \ {Initial}, j \in Keys : holds'[previous[q]][j] = holds[previous[q]][j]
    BY <2>2, <2>5, <2>7, <2>8 DEF Existing
  <2>10. BlocksAreShared'
    <3> SUFFICES ASSUME NEW q \in Existing, NEW j \in Keys
                 PROVE  /\ block'[q][j] # None <=> holds'[q][j] = q
                        /\ holds'[q][j] \in Existing
                        /\ holds'[q][j] # q =>
                             /\ q # Initial
                             /\ holds'[q][j] = holds'[previous[q]][j]
                             /\ Settled(holds'[q][j])
      BY <1>1, <1>3, <1>4 DEF BlocksAreShared, Settled
    <3>1. q \in Responses
      BY DEF Existing
    <3>2. CASE q = r /\ j = k
      BY <1>2, <2>2, <3>1, <3>2
    <3>3. CASE ~(q = r /\ j = k)
      BY <2>2, <2>9, <3>1, <3>3 DEF Inv, BlocksAreShared
    <3> QED  BY <3>2, <3>3
  <2>11. SubmittedIsValid'
    BY <1>1, <1>2, <1>3, <2>6, <2>7 DEF Inv, SubmittedIsValid, Valid
  <2>12. ChangesAreChanges'
    <3>1. ASSUME NEW q \in Existing \ {Initial}, state[q] # "IN_PROGRESS"
          PROVE  \E j \in Keys : holds'[q][j] = q
      BY <1>1, <2>7, <3>1 DEF Inv, ChangesAreChanges
    <3>2. ASSUME ~moderated, ~late, NEW q \in Existing \ {Initial}, NEW j \in Keys,
                 holds'[q][j] = q
          PROVE  Answer(q, j)' # Answer(previous[q], j)' \/ Answer(q, j)' = Blank
      <4>1. r # Initial
        BY <1>1, <3>2 DEF Inv, NeverSentBack
      <4>2. previous[q] # r /\ Answer(previous[q], j)' = Answer(previous[q], j)
        <5>1. previous[q] \in Existing \ {r}
          BY <2>8, <4>1
        <5>2. holds'[previous[q]][j] = holds[previous[q]][j] /\ holds[previous[q]][j] # r
          BY <1>6, <2>7, <4>1, <5>1
        <5> QED  BY <1>1, <2>6, <4>1, <5>1 DEF Answer
      <4>3. CASE q = r /\ j = k
        <5>1. Answer(previous[r], k) # a
          BY <1>7, <1>10, <4>1 DEF Reverted, Responses
        <5> QED  BY <1>0, <2>6, <4>2, <4>3, <5>1
      <4>4. CASE ~(q = r /\ j = k)
        <5>1. holds[q][j] = q /\ Answer(q, j)' = Answer(q, j)
          BY <2>2, <2>6, <3>2, <4>1, <4>4 DEF Existing
        <5> QED  BY <3>2, <4>2, <5>1 DEF Inv, ChangesAreChanges
      <4> QED  BY <4>3, <4>4
    <3> QED
      BY <1>1, <1>3, <3>1, <3>2 DEF ChangesAreChanges, registration
  <2> QED
    BY <1>1, <1>3, <1>4, <2>3, <2>4, <2>10, <2>11, <2>12
    DEF Inv, CreationsAreSound, ApprovalsAreSound, NeverSentBack, registration
<1> QED
  BY <1>9, <1>10

\* No response that a deletion leaves there loses a block.
LEMMA SharedAreKept ==
  ASSUME Inv, NEW r \in Responses
  PROVE  \A q \in Existing \ Line(r), k \in Keys : holds[q][k] \in Existing \ Line(r)
<1> SUFFICES ASSUME NEW k \in Keys
             PROVE  \A q \in Existing \ Line(r) : holds[q][k] \in Existing \ Line(r)
  OBVIOUS
<1> DEFINE Lost == {q \in Existing \ Line(r) : holds[q][k] \in Line(r)}
<1>1. Lost = {}
  <2> SUFFICES ASSUME Lost # {} PROVE FALSE
    OBVIOUS
  <2>1. Lost \subseteq Nat
    BY MaxResponsesAssumption DEF Existing, Responses
  <2>2. PICK q \in Lost : \A p \in Lost : q <= p
    <3> HIDE DEF Lost
    <3> QED  BY <2>1, SmallestOf
  <2>3. q \in Existing \ Line(r) /\ q # Initial /\ holds[q][k] = holds[previous[q]][k]
    BY DEF Inv, BlocksAreShared
  <2>4. previous[q] \in Lost /\ previous[q] < q
    BY <2>3, LineIsClosed DEF Inv, Lineage
  <2>5. q \in Nat /\ previous[q] \in Nat /\ q <= previous[q]
    BY <2>1, <2>2, <2>4
  <2> QED  BY <2>4, <2>5
<1> QED
  BY <1>1 DEF Inv, BlocksAreShared

LEMMA DeleteStep ==
  ASSUME Inv, NEW r \in Existing, Delete(r)
  PROVE  Inv'
<1>1. PICK D : D = Line(r)
  OBVIOUS
<1>2. /\ state[r] = "IN_PROGRESS"
      /\ state' = [q \in Responses |-> IF q \in D THEN "NONE" ELSE state[q]]
      /\ previous' = [q \in Responses |-> IF q \in D THEN 0 ELSE previous[q]]
      /\ block' = [q \in Responses |-> IF q \in D THEN NoBlocks ELSE block[q]]
      /\ holds' = [q \in Responses |-> IF q \in D THEN [k \in Keys |-> q] ELSE holds[q]]
      /\ pending' = [q \in Responses |-> IF q \in D THEN {} ELSE pending[q]]
      /\ approving' = [q \in Responses |-> IF q \in D THEN {} ELSE approving[q]]
      /\ creating' = [u \in Creators |-> IF creating[u] \in D THEN 0 ELSE creating[u]]
      /\ UNCHANGED registration
  BY <1>1 DEF Delete, Cascade
<1>3. r \in Responses /\ Existing \subseteq Responses /\ \A q \in Responses : q \in Nat
  BY MaxResponsesAssumption DEF Existing, Responses
<1>4. /\ \A q \in Existing \ {Initial} : previous[q] \in D => q \in D
      /\ Initial \in D => r = Initial
  BY <1>1, <1>3, LineIsClosed DEF Inv
<1>5. D \subseteq Existing
  BY <1>1 DEF Line
<1>6. Existing' = Existing \ D
  BY <1>2 DEF Existing
<1>7. \A q \in Existing \ D :
        /\ state'[q] = state[q] /\ previous'[q] = previous[q] /\ block'[q] = block[q]
        /\ holds'[q] = holds[q] /\ pending'[q] = pending[q] /\ approving'[q] = approving[q]
  BY <1>2, <1>3
<1>8. \A q \in (Existing \ D) \ {Initial} :
        previous[q] \in Existing \ D /\ previous[q] < q /\ Settled(previous[q])
  BY <1>4 DEF Inv, Lineage
<1>9. Existing \ D # {} => Initial \in Existing \ D
  <2> SUFFICES ASSUME Existing \ D # {} PROVE Initial \in Existing \ D
    OBVIOUS
  <2>1. Existing \ D \subseteq Nat
    BY <1>3
  <2>2. PICK q \in Existing \ D : \A p \in Existing \ D : q <= p
    BY <2>1, SmallestOf
  <2>3. ASSUME q # Initial PROVE FALSE
    <3>1. previous[q] \in Nat /\ q \in Nat /\ previous[q] < q /\ q <= previous[q]
      BY <1>8, <2>1, <2>2, <2>3
    <3> QED  BY <3>1
  <2> QED  BY <2>3
<1>10. \A q \in Existing \ D, k \in Keys : holds[q][k] \in Existing \ D
  BY <1>1, <1>3, SharedAreKept
<1>11. \A q \in Existing \ D, k \in Keys : Answer(q, k)' = Answer(q, k)
  BY <1>7, <1>10 DEF Answer
<1>12. \A q \in Existing \ D : Settled(q) <=> q = Initial \/ state'[q] = "APPROVED"
  BY <1>7 DEF Settled
<1>13. TypeOK'
  <2>1. NoBlocks \in [Keys -> Answers \cup {Blank, None}] /\ 0 \in 0 .. MaxResponses
    BY MaxResponsesAssumption DEF NoBlocks
  <2>2. /\ state' \in [Responses -> States]
        /\ previous' \in [Responses -> 0 .. MaxResponses]
        /\ creating' \in [Creators -> 0 .. MaxResponses]
    BY <1>2, <2>1 DEF Inv, TypeOK, States
  <2>3. /\ block' \in [Responses -> [Keys -> Answers \cup {Blank, None}]]
        /\ holds' \in [Responses -> [Keys -> Responses]]
    BY <1>2, <2>1 DEF Inv, TypeOK
  <2>4. /\ pending' \in [Responses -> SUBSET Admins]
        /\ approving' \in [Responses -> SUBSET [user : Admins, last : BOOLEAN]]
    BY <1>2 DEF Inv, TypeOK
  <2> QED
    BY <1>2, <2>2, <2>3, <2>4 DEF Inv, TypeOK, registration
<1>14. Lineage'
  <2>1. \A q \in Responses \ Existing' : previous'[q] = 0 /\ block'[q] = NoBlocks
    BY <1>2, <1>6 DEF Inv, Lineage
  <2> QED
    BY <1>6, <1>7, <1>8, <1>9, <1>12, <2>1 DEF Inv, Lineage, Settled
<1>15. CreationsAreSound'
  <2>1. \A u \in Creators : creating'[u] # 0 => /\ creating'[u] = creating[u]
                                               /\ creating[u] \in Existing \ D
                                               /\ Settled(creating[u])
    BY <1>2 DEF Inv, CreationsAreSound
  <2> QED
    BY <1>6, <1>12, <2>1 DEF CreationsAreSound, Settled
<1>16. BlocksAreShared'
  <2> SUFFICES ASSUME NEW q \in Existing \ D, NEW k \in Keys
               PROVE  /\ block[q][k] # None <=> holds[q][k] = q
                      /\ holds[q][k] \in Existing \ D
                      /\ holds[q][k] # q =>
                           /\ q # Initial
                           /\ holds[q][k] = holds[previous[q]][k]
                           /\ Settled(holds[q][k])
    BY <1>6, <1>7, <1>8, <1>10, <1>12 DEF BlocksAreShared, Settled
  <2> QED
    BY <1>10 DEF Inv, BlocksAreShared
<1>17. ApprovalsAreSound'
  BY <1>2 DEF Inv, TypeOK, ApprovalsAreSound
<1>18. SubmittedIsValid'
  BY <1>6, <1>7, <1>11 DEF Inv, SubmittedIsValid, Valid
<1>19. NeverSentBack'
  BY <1>2, <1>4, InitialIsThere DEF Inv, NeverSentBack, registration
<1>20. ChangesAreChanges'
  <2>1. \A q \in (Existing \ D) \ {Initial}, k \in Keys :
          block'[holds'[previous'[q]][k]][k] = Answer(previous[q], k)
    BY <1>7, <1>8, <1>10 DEF Answer
  <2> SUFFICES ASSUME NEW q \in (Existing \ D) \ {Initial}
               PROVE  /\ state'[q] # "IN_PROGRESS" => \E k \in Keys : holds'[q][k] = q
                      /\ ~moderated /\ ~late =>
                           \A k \in Keys : holds'[q][k] = q =>
                             \/ Answer(q, k)' # block'[holds'[previous'[q]][k]][k]
                             \/ Answer(q, k)' = Blank
    BY <1>2, <1>6 DEF ChangesAreChanges, Answer, registration
  <2> QED
    BY <1>7, <1>11, <2>1 DEF Inv, ChangesAreChanges
<1> QED
  BY <1>13, <1>14, <1>15, <1>16, <1>17, <1>18, <1>19, <1>20 DEF Inv

-----------------------------------------------------------------------------
LEMMA InvStep == Inv /\ [Next]_vars => Inv'
<1> SUFFICES ASSUME Inv, [Next]_vars PROVE Inv'
  OBVIOUS
<1>1. CASE CreateInitial
  BY <1>1, CreateInitialStep
<1>2. ASSUME NEW u \in Creators, CreationChecks(u) PROVE Inv'
  BY <1>2, CreationChecksStep
<1>3. ASSUME NEW u \in Creators, CreationInserts(u) PROVE Inv'
  BY <1>3, CreationInsertsStep
<1>4. ASSUME NEW r \in Existing, Delete(r) PROVE Inv'
  BY <1>4, DeleteStep
<1>5. ASSUME NEW r \in Existing, NEW k \in Keys, NEW i \in Inputs[k],
             UpdateResponse(r, k, i)
      PROVE  Inv'
  BY <1>5, UpdateStep
<1>6. CASE Review
  <2>1. PICK r \in Existing :
          \/ Submit(r)
          \/ \E u \in Admins : ApprovalChecks(r, u)
          \/ \E x \in approving[r] : ApprovalCommits(r, x)
          \/ ModeratorAccept(r) \/ ModeratorReject(r) \/ \E u \in Admins : AdminReject(r, u)
    BY <1>6 DEF Review
  <2> QED
    BY <2>1, SubmitStep, ApprovalChecksStep, ApprovalCommitsStep, DecisionStep
<1>7. CASE NightlyScript
  BY <1>7, NightlyStep
<1>8. CASE Parent
  BY <1>8, ParentStep
<1>9. CASE UNCHANGED vars
  BY <1>9
  DEF vars, registration, contents, Inv, TypeOK, Lineage, CreationsAreSound, BlocksAreShared,
      ApprovalsAreSound, SubmittedIsValid, NeverSentBack, ChangesAreChanges, Existing, Settled,
      Answer, Valid
<1> QED
  BY <1>1, <1>2, <1>3, <1>4, <1>5, <1>6, <1>7, <1>8, <1>9 DEF Next, Creation, Editing

LEMMA Invariance == Spec => []Inv
BY InvInit, InvStep, PTL DEF Spec

-----------------------------------------------------------------------------
\* Responses, their blocks and the requests under way are well formed in every
\* state, and no response is ever COMPLETED (ApprovalsMachine,
\* update_moderation_state).
THEOREM TypeCorrect == Spec => []TypeOK
<1>1. Inv => TypeOK
  BY DEF Inv
<1> QED
  BY <1>1, Invariance, PTL

\* Every version answers every question, whatever is reverted and deleted, and
\* all answers of a submitted revision have passed validation, also those that
\* submit does not look at.
THEOREM SubmittedIsValidAlways == Spec => []SubmittedIsValid
<1>1. Inv => SubmittedIsValid
  BY DEF Inv
<1> QED
  BY <1>1, Invariance, PTL

\* Where the initial response is not sent back, a submitted revision differs
\* from what it revises, or answers with nothing an optional question that had
\* no answer (update_responses, set_response, and the updated_response_keys that
\* _on_submit asks for).
THEOREM RevisionsDifferAlways == Spec => []RevisionsDiffer
<1>1. Inv => RevisionsDiffer
  <2> SUFFICES ASSUME Inv, ~moderated, ~late, NEW r \in Existing,
                      previous[r] # 0, state[r] # "IN_PROGRESS"
               PROVE  \E k \in Keys :
                        \/ Answer(r, k) # Answer(previous[r], k)
                        \/ k \notin Required /\ holds[r][k] = r /\ Answer(r, k) = Blank
    BY DEF RevisionsDiffer
  <2>1. r # Initial
    BY DEF Inv, Lineage
  <2>2. PICK k \in Keys : holds[r][k] = r
    BY <2>1 DEF Inv, ChangesAreChanges
  <2>3. Answer(r, k) # Answer(previous[r], k) \/ Answer(r, k) = Blank
    BY <2>1, <2>2 DEF Inv, ChangesAreChanges
  <2>4. Valid(k, Answer(r, k))
    BY <2>1, <2>2 DEF Inv, SubmittedIsValid
  <2>5. Answer(r, k) = Blank => k \notin Required
    BY <2>4, AnswersAssumption DEF Valid
  <2> QED
    BY <2>2, <2>3, <2>5
<1> QED
  BY <1>1, Invariance, PTL

-----------------------------------------------------------------------------
\* Steps that change blocks

LEMMA ContentsChange ==
  ASSUME [Next]_vars
  PROVE  \/ UNCHANGED <<block, holds>>
         \/ CreateInitial
         \/ \E u \in Creators : CreationInserts(u)
         \/ \E r \in Existing : Delete(r)
         \/ \E r \in Existing, k \in Keys : \E i \in Inputs[k] : UpdateResponse(r, k, i)
BY DEF Next, vars, contents, Creation, CreationChecks, Editing, Review, Submit, ApprovalChecks,
       ApprovalCommits, AdminReject, ModeratorAccept, ModeratorReject, Rejected, NightlyScript,
       NightlyAccept, Parent, SanctionMoves, AddEmbargo, UpdateModerationState

LEMMA DeletionSpares ==
  ASSUME Inv, NEW r \in Existing, Delete(r), NEW q \in Existing, state'[q] # "NONE",
         NEW k \in Keys
  PROVE  Answer(q, k)' = Answer(q, k)
<1>1. q \in Responses /\ r \in Responses
  BY DEF Existing
<1>2. PICK D : D = Line(r)
  OBVIOUS
<1>3. /\ block' = [p \in Responses |-> IF p \in D THEN NoBlocks ELSE block[p]]
      /\ holds' = [p \in Responses |-> IF p \in D THEN [j \in Keys |-> p] ELSE holds[p]]
      /\ q \notin D
  BY <1>1, <1>2 DEF Delete, Cascade
<1>4. holds[q][k] \in Responses \ D
  BY <1>1, <1>2, <1>3, SharedAreKept DEF Existing
<1> QED
  BY <1>1, <1>3, <1>4 DEF Answer

LEMMA UpdateSpares ==
  ASSUME Inv, NEW q \in Existing, NEW j \in Keys, NEW i \in Inputs[j],
         UpdateResponse(q, j, i),
         NEW r \in Existing, NEW k \in Keys, state[r] = "APPROVED"
  PROVE  \/ Answer(r, k)' = Answer(r, k)
         \/ holds[r][k] = Initial /\ state[Initial] = "IN_PROGRESS"
<1>0. PICK a : a = Cleaned(i)
  OBVIOUS
<1>1. state[q] = "IN_PROGRESS" /\ a # Answer(q, j) /\ r # q
  BY <1>0 DEF UpdateResponse
<1>2. holds[r][k] = q => q = Initial
  BY <1>1 DEF Inv, BlocksAreShared, Settled
<1>3. PICK b, h : block' = [block EXCEPT ![q][j] = b] /\ holds' = [holds EXCEPT ![q][j] = h]
  <2>1. CASE Reverted(q, j, a)
    <3>1. q # Initial /\ Answer(previous[q], j) = a
      BY <2>1 DEF Reverted, Inv, Lineage
    <3>2. holds[q][j] = q
      BY <1>1, <3>1 DEF Inv, BlocksAreShared, Answer
    <3> QED  BY <1>0, <2>1, <3>2 DEF UpdateResponse, PutBack
  <2>2. CASE ~Reverted(q, j, a)
    BY <1>0, <2>2 DEF UpdateResponse, Changed
  <2> QED  BY <2>1, <2>2
<1>4. r \in Responses /\ q \in Responses /\ holds[r][k] \in Responses
  BY DEF Inv, TypeOK, Existing
<1>5. ASSUME holds[r][k] # q PROVE Answer(r, k)' = Answer(r, k)
  <2>1. holds'[r] = holds[r] /\ block'[holds[r][k]] = block[holds[r][k]]
    BY <1>1, <1>3, <1>4, <1>5 DEF Inv, TypeOK
  <2> QED  BY <2>1 DEF Answer
<1> QED
  BY <1>1, <1>2, <1>5

\* What was approved keeps its answers, whatever is made of the blocks that later
\* revisions share with it, except while the initial response is sent back
\* (_update_response, _response_reverted, and the cascades of a deletion).
THEOREM ApprovedStays == Spec => ApprovedIsFrozen
<1> DEFINE Kept ==
      \A r \in Responses, k \in Keys :
        state[r] = "APPROVED" /\ state'[r] = "APPROVED"
          => \/ Answer(r, k)' = Answer(r, k)
             \/ holds[r][k] = Initial /\ state[Initial] = "IN_PROGRESS"
<1>1. ASSUME Inv, [Next]_vars PROVE Kept
  <2> SUFFICES ASSUME NEW r \in Existing, NEW k \in Keys,
                      state[r] = "APPROVED", state'[r] = "APPROVED"
               PROVE  \/ Answer(r, k)' = Answer(r, k)
                      \/ holds[r][k] = Initial /\ state[Initial] = "IN_PROGRESS"
    BY DEF Existing
  <2>1. CASE UNCHANGED <<block, holds>>
    BY <2>1 DEF Answer
  <2>2. CASE CreateInitial
    BY <2>2 DEF CreateInitial
  <2>3. ASSUME NEW u \in Creators, CreationInserts(u)
        PROVE  Answer(r, k)' = Answer(r, k)
    <3>1. Newest + 1 \notin Existing
      <4>1. \A q \in Existing : q <= Newest
        BY NewestIs
      <4>2. Newest \in Nat
        BY NewestIs, MaxResponsesAssumption DEF Existing, Responses
      <4> QED  BY <4>1, <4>2
    <3>2. block' = block /\ holds'[r] = holds[r]
      BY <2>3, <3>1 DEF CreationInserts, Inv, TypeOK, Existing
    <3> QED  BY <3>2 DEF Answer
  <2>4. ASSUME NEW q \in Existing, Delete(q)
        PROVE  Answer(r, k)' = Answer(r, k)
    BY <1>1, <2>4, DeletionSpares
  <2>5. ASSUME NEW q \in Existing, NEW j \in Keys, NEW i \in Inputs[j],
               UpdateResponse(q, j, i)
        PROVE  \/ Answer(r, k)' = Answer(r, k)
               \/ holds[r][k] = Initial /\ state[Initial] = "IN_PROGRESS"
    BY <1>1, <2>5, UpdateSpares
  <2> QED
    BY <1>1, <2>1, <2>2, <2>3, <2>4, <2>5, ContentsChange DEF contents
<1> HIDE DEF Kept
<1>2. Inv /\ [Next]_vars => [Kept]_vars
  BY <1>1
<1>3. Spec => [][Kept]_vars
  BY <1>2, Invariance, PTL DEF Spec
<1> QED
  BY <1>3 DEF ApprovedIsFrozen, Kept

=============================================================================
