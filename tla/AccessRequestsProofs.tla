------------------------ MODULE AccessRequestsProofs ------------------------
(* Proofs about AccessRequests for every number of users, boards, reviewers, *)
(* requests and overlapping calls.                                           *)
EXTENDS AccessRequests, TLAPS

(* The inductive invariant.  The properties speak of the collection only; a  *)
(* write replaces a document by the local copy of a handler, so what has to  *)
(* be added is what holds of the copies.                                     *)

\* An id is in the history only once its document is stored.
HistoryOfStored == \A r \in RequestIds : r \notin Stored => decided[r] = {}

\* A built request is pending, and its id is neither stored nor held by
\* another call.
CreatingOK ==
    \A h \in Handlers :
        handler[h].pc = "create" =>
            /\ requests[handler[h].id] = NoRequest
            /\ handler[h].request.status = "pending"
            /\ ~handler[h].request.form
            /\ ~handler[h].request.risk
            /\ \A g \in Handlers :
                  handler[g].pc = "create" /\ handler[g].id = handler[h].id => g = h

\* A copy with a decision on it is of a stored request, carries one admissible
\* decision, and differs from the stored document in that decision only.
UpdatingOK ==
    \A h \in Handlers :
        handler[h].pc = "update" =>
            LET q == handler[h].request
                old == requests[handler[h].id]
            IN  /\ old # NoRequest
                /\ DecisionOf(q) \in Decision
                /\ Admissible(DecisionOf(q))
                /\ q.user = old.user /\ q.board = old.board
                /\ q.created_at = old.created_at

IInv ==
    /\ TypeOK
    /\ DecisionNotTorn
    /\ ReferencesFollowPolicy
    /\ HistoryOfStored
    /\ CreatingOK
    /\ UpdatingOK

-----------------------------------------------------------------------------
(* Lemmas.                                                                   *)

\* A handler that holds a copy has an id and a document in its locals, one
\* that is building has a user and a board.
LEMMA HandlerLocals ==
    ASSUME TypeOK, NEW h \in Handlers
    PROVE  /\ handler[h].pc \in {"idle", "build", "create", "update"}
           /\ handler[h].pc = "build" =>
                  handler[h].user \in Users /\ handler[h].board \in Boards
           /\ handler[h].pc \in {"create", "update"} =>
                  handler[h].id \in RequestIds /\ handler[h].request \in Request
BY DEF TypeOK, HandlerState, Idle

\* "No document" is not a document (from ConstantsAssumption).
LEMMA NoRequestIsNone == NoRequest \notin Request
BY ConstantsAssumption

\* A stored id has a document.
LEMMA StoredDocument ==
    ASSUME TypeOK, NEW r \in Stored
    PROVE  r \in RequestIds /\ requests[r] \in Request
BY DEF TypeOK, Stored

-----------------------------------------------------------------------------
(* The invariant is inductive.                                               *)

\* The service starts with IInv.
LEMMA InitIInv == Init => IInv
<1> SUFFICES ASSUME Init PROVE IInv
  OBVIOUS
<1>1. TypeOK
  BY ConstantsAssumption DEF Init, TypeOK, HandlerState, Idle
<1>2. Stored = {}
  BY DEF Init, Stored
<1>3. DecisionNotTorn /\ ReferencesFollowPolicy /\ HistoryOfStored
  BY <1>2 DEF Init, DecisionNotTorn, ReferencesFollowPolicy, HistoryOfStored
<1>4. CreatingOK /\ UpdatingOK
  BY DEF Init, CreatingOK, UpdatingOK, Idle
<1> QED
  BY <1>1, <1>3, <1>4 DEF IInv

\* A step that leaves the collection and the history alone preserves what is
\* said of them.
LEMMA CollectionUntouched ==
    ASSUME DecisionNotTorn, ReferencesFollowPolicy, HistoryOfStored,
           UNCHANGED <<requests, decided>>
    PROVE  DecisionNotTorn' /\ ReferencesFollowPolicy' /\ HistoryOfStored'
BY DEF DecisionNotTorn, ReferencesFollowPolicy, HistoryOfStored, Stored, DecisionOf

\* IInv survives request_access's look at the latest request.
LEMMA RequestAccessReadStep ==
    ASSUME IInv, NEW h \in Handlers, NEW u \in Users, NEW b \in Boards,
           RequestAccessRead(h, u, b)
    PROVE  IInv'
<1> USE DEF IInv, RequestAccessRead
<1>1. TypeOK'
  BY DEF TypeOK, HandlerState, Building
<1>2. DecisionNotTorn' /\ ReferencesFollowPolicy' /\ HistoryOfStored'
  BY CollectionUntouched
<1>3. CreatingOK'
  BY DEF TypeOK, CreatingOK, Building
<1>4. UpdatingOK'
  BY DEF TypeOK, UpdatingOK, Building, DecisionOf, Admissible
<1> QED
  BY <1>1, <1>2, <1>3, <1>4

\* IInv survives a call that ends unanswered.
LEMMA AbandonStep ==
    ASSUME IInv, NEW h \in Handlers, Abandon(h)
    PROVE  IInv'
<1> USE DEF IInv, Abandon
<1>1. TypeOK'
  BY DEF TypeOK, HandlerState
<1>2. DecisionNotTorn' /\ ReferencesFollowPolicy' /\ HistoryOfStored'
  BY CollectionUntouched
<1>3. CreatingOK'
  BY DEF TypeOK, CreatingOK, Idle
<1>4. UpdatingOK'
  BY DEF TypeOK, UpdatingOK, Idle, DecisionOf, Admissible
<1> QED
  BY <1>1, <1>2, <1>3, <1>4

\* IInv survives the making of a request.
LEMMA RequestAccessBuildStep ==
    ASSUME IInv, NEW h \in Handlers, NEW r \in RequestIds, RequestAccessBuild(h, r)
    PROVE  IInv'
<1> USE DEF IInv
<1>1. PICK step \in ClockStep..1 :
          /\ clock + step <= MaxClock
          /\ clock' = clock + step
          /\ handler' = [handler EXCEPT
                ![h] = Creating(r, NewRequest(handler[h].user, handler[h].board, clock'))]
  BY DEF RequestAccessBuild
<1>2. UNCHANGED <<requests, decided>> /\ Fresh(r) /\ handler[h].pc = "build"
  BY DEF RequestAccessBuild
<1>3. clock' \in 0..MaxClock
  BY <1>1, ConstantsAssumption DEF TypeOK
<1> DEFINE q == NewRequest(handler[h].user, handler[h].board, clock')
<1>4. handler[h].user \in Users /\ handler[h].board \in Boards
  BY <1>2, HandlerLocals
<1>5. q \in Request /\ q.status = "pending" /\ ~q.form /\ ~q.risk
  BY <1>3, <1>4 DEF NewRequest, Request, Statuses
<1>6. Creating(r, q) \in HandlerState
  BY <1>5 DEF HandlerState, Creating
<1>7. handler' = [handler EXCEPT ![h] = Creating(r, q)]
  BY <1>1
<1> HIDE DEF q
<1>8. TypeOK'
  BY <1>2, <1>3, <1>6, <1>7 DEF TypeOK
<1>9. DecisionNotTorn' /\ ReferencesFollowPolicy' /\ HistoryOfStored'
  BY <1>2, CollectionUntouched
<1>10. CreatingOK'
  <2>1. requests[r] = NoRequest
    BY <1>2 DEF Fresh, Stored
  <2>2. \A g \in Handlers : handler[g].pc = "create" => handler[g].id # r
    BY <1>2 DEF Fresh
  <2> QED
    BY <1>2, <1>5, <1>7, <2>1, <2>2 DEF CreatingOK, Creating, TypeOK
<1>11. UpdatingOK'
  BY <1>2, <1>7 DEF UpdatingOK, Creating, TypeOK, DecisionOf, Admissible
<1> QED
  BY <1>8, <1>9, <1>10, <1>11

\* IInv survives the insertion of a request.
LEMMA RequestAccessCreateStep ==
    ASSUME IInv, NEW h \in Handlers, RequestAccessCreate(h)
    PROVE  IInv'
<1> USE DEF IInv
<1> DEFINE r == handler[h].id
           q == handler[h].request
<1>1. /\ handler[h].pc = "create"
      /\ requests' = [requests EXCEPT ![r] = q]
      /\ handler' = [handler EXCEPT ![h] = Idle]
      /\ UNCHANGED <<clock, decided>>
  BY DEF RequestAccessCreate
<1>2. r \in RequestIds /\ q \in Request
  BY <1>1, HandlerLocals
<1>3. requests[r] = NoRequest /\ q.status = "pending" /\ ~q.form /\ ~q.risk
  BY <1>1 DEF CreatingOK
<1>4. \A g \in Handlers : g # h /\ handler[g].pc = "create" => handler[g].id # r
  BY <1>1 DEF CreatingOK
<1> HIDE DEF r, q
<1>5. TypeOK'
  BY <1>1, <1>2 DEF TypeOK, HandlerState
<1>6. Stored' = Stored \cup {r}
  BY <1>1, <1>2, NoRequestIsNone DEF Stored, TypeOK
<1>7. decided[r] = {}
  BY <1>2, <1>3 DEF HistoryOfStored, Stored
<1>8. DecisionNotTorn'
  BY <1>1, <1>2, <1>3, <1>6, <1>7 DEF DecisionNotTorn, TypeOK, DecisionOf, Stored
<1>9. ReferencesFollowPolicy'
  <2> SUFFICES ASSUME NEW s \in Stored'
               PROVE  LET demanded == DataHandling /\ requests'[s].status = "approved"
                      IN  requests'[s].form = demanded /\ requests'[s].risk = demanded
    BY DEF ReferencesFollowPolicy
  <2>1. CASE s = r
    <3>1. requests'[s] = q
      BY <1>1, <1>2, <2>1 DEF TypeOK
    <3> QED
      BY <1>2, <1>3, <3>1 DEF Request
  <2>2. CASE s # r
    BY <1>1, <1>6, <2>2 DEF ReferencesFollowPolicy, TypeOK, Stored
  <2> QED
    BY <2>1, <2>2
<1>10. HistoryOfStored'
  BY <1>1, <1>6 DEF HistoryOfStored
<1>11. CreatingOK'
  BY <1>1, <1>2, <1>4 DEF CreatingOK, TypeOK, Idle
<1>12. UpdatingOK'
  <2> SUFFICES ASSUME NEW g \in Handlers, handler'[g].pc = "update"
               PROVE  LET p == handler'[g].request
                          old == requests'[handler'[g].id]
                      IN  /\ old # NoRequest
                          /\ DecisionOf(p) \in Decision
                          /\ Admissible(DecisionOf(p))
                          /\ p.user = old.user /\ p.board = old.board
                          /\ p.created_at = old.created_at
    BY DEF UpdatingOK, DecisionOf, Admissible
  <2>1. handler'[g] = handler[g] /\ handler[g].pc = "update"
    BY <1>1 DEF TypeOK, Idle
  <2>2. handler[g].id \in RequestIds /\ handler[g].id # r
    BY <2>1, <1>3, HandlerLocals DEF UpdatingOK
  <2>3. requests'[handler[g].id] = requests[handler[g].id]
    BY <1>1, <2>2 DEF TypeOK
  <2> QED
    BY <2>1, <2>3 DEF UpdatingOK
<1> QED
  BY <1>5, <1>8, <1>9, <1>10, <1>11, <1>12

\* A pending request that follows the reference policy, with an admissible
\* decision on it, carries that decision.
LEMMA DecideWhole ==
    ASSUME NEW q \in Request, NEW d \in Decision, Admissible(d),
           ~q.form, ~q.risk
    PROVE  /\ Decide(q, d) \in Request
           /\ DecisionOf(Decide(q, d)) = d
           /\ Decide(q, d).user = q.user /\ Decide(q, d).board = q.board
           /\ Decide(q, d).created_at = q.created_at
<1>1. d.status = "rejected" => ~d.form /\ ~d.risk
  BY DEF Admissible, Decision
<1>2. Decide(q, d) = [user |-> q.user, board |-> q.board, status |-> d.status,
                      created_at |-> q.created_at, reviewer |-> d.reviewer,
                      form |-> d.form, risk |-> d.risk]
  BY <1>1 DEF Decide, Request, Decision, Verdicts
<1>3. d = [status |-> d.status, reviewer |-> d.reviewer, form |-> d.form, risk |-> d.risk]
  BY DEF Decision
<1> QED
  BY <1>2, <1>3 DEF DecisionOf, Request, Decision, Verdicts, Statuses

\* IInv survives the look at a request that is to be decided.
LEMMA GetPendingStep ==
    ASSUME IInv, NEW h \in Handlers, NEW r \in RequestIds, NEW d \in Decision,
           GetPending(h, r, d)
    PROVE  IInv'
<1> USE DEF IInv
<1> DEFINE old == requests[r]
           q == Decide(old, d)
<1>1. /\ r \in Stored /\ old.status = "pending" /\ Admissible(d)
      /\ handler' = [handler EXCEPT ![h] = Updating(r, q)]
      /\ UNCHANGED <<requests, clock, decided>>
  BY DEF GetPending
<1>2. old \in Request /\ old # NoRequest
  BY <1>1, StoredDocument DEF Stored
<1>3. ~old.form /\ ~old.risk
  BY <1>1, <1>2 DEF ReferencesFollowPolicy, Request
<1>4. /\ q \in Request /\ DecisionOf(q) = d
      /\ q.user = old.user /\ q.board = old.board /\ q.created_at = old.created_at
  BY <1>1, <1>2, <1>3, DecideWhole
<1> HIDE DEF q
<1>5. TypeOK'
  <2>1. Updating(r, q) \in HandlerState
    BY <1>4 DEF HandlerState, Updating
  <2> QED
    BY <1>1, <2>1 DEF TypeOK
<1>6. DecisionNotTorn' /\ ReferencesFollowPolicy' /\ HistoryOfStored'
  BY <1>1, CollectionUntouched
<1>7. CreatingOK'
  BY <1>1 DEF CreatingOK, TypeOK, Updating
<1>8. UpdatingOK'
  <2> SUFFICES ASSUME NEW g \in Handlers, handler'[g].pc = "update"
               PROVE  LET p == handler'[g].request
                          was == requests[handler'[g].id]
                      IN  /\ was # NoRequest
                          /\ DecisionOf(p) \in Decision
                          /\ Admissible(DecisionOf(p))
                          /\ p.user = was.user /\ p.board = was.board
                          /\ p.created_at = was.created_at
    BY <1>1 DEF UpdatingOK, DecisionOf, Admissible
  <2>1. CASE g = h
    BY <1>1, <1>2, <1>4, <2>1 DEF Updating, TypeOK
  <2>2. CASE g # h
    BY <1>1, <2>2 DEF UpdatingOK, TypeOK
  <2> QED
    BY <2>1, <2>2
<1> QED
  BY <1>5, <1>6, <1>7, <1>8

\* IInv survives the write of a decision.
LEMMA UpdateStep ==
    ASSUME IInv, NEW h \in Handlers, Update(h)
    PROVE  IInv'
<1> USE DEF IInv
<1> DEFINE r == handler[h].id
           q == handler[h].request
           d == DecisionOf(q)
<1>1. /\ handler[h].pc = "update"
      /\ requests' = [requests EXCEPT ![r] = q]
      /\ decided' = [decided EXCEPT ![r] = @ \cup {d}]
      /\ handler' = [handler EXCEPT ![h] = Idle]
      /\ UNCHANGED clock
  BY DEF Update
<1>2. r \in RequestIds /\ q \in Request
  BY <1>1, HandlerLocals
<1>3. /\ requests[r] # NoRequest /\ d \in Decision /\ Admissible(d)
      /\ q.user = requests[r].user /\ q.board = requests[r].board
      /\ q.created_at = requests[r].created_at
  BY <1>1 DEF UpdatingOK
<1>4. q.status # "pending" /\ q # NoRequest
  BY <1>2, <1>3, NoRequestIsNone DEF DecisionOf, Decision, Verdicts
<1>5. LET demanded == DataHandling /\ q.status = "approved"
      IN  q.form = demanded /\ q.risk = demanded
  BY <1>3 DEF Admissible, DecisionOf
<1> HIDE DEF q, r
<1>6. TypeOK'
  BY <1>1, <1>2, <1>3 DEF TypeOK, HandlerState
<1>7. Stored' = Stored
  BY <1>1, <1>2, <1>3, <1>4 DEF Stored, TypeOK
<1>8. requests'[r] = q /\ decided'[r] = decided[r] \cup {d}
  BY <1>1, <1>2 DEF TypeOK
<1>9. \A s \in RequestIds \ {r} : requests'[s] = requests[s] /\ decided'[s] = decided[s]
  BY <1>1 DEF TypeOK
<1>10. DecisionNotTorn'
  <2> SUFFICES ASSUME NEW s \in Stored
               PROVE  IF requests'[s].status = "pending" THEN decided'[s] = {}
                      ELSE DecisionOf(requests'[s]) \in decided'[s]
    BY <1>7 DEF DecisionNotTorn, DecisionOf
  <2>1. CASE s = r
    BY <1>4, <1>8, <2>1
  <2>2. CASE s # r
    BY <1>9, <2>2 DEF DecisionNotTorn, Stored
  <2> QED
    BY <2>1, <2>2
<1>11. ReferencesFollowPolicy'
  BY <1>5, <1>7, <1>8, <1>9 DEF ReferencesFollowPolicy, Stored
<1>12. HistoryOfStored'
  BY <1>3, <1>7, <1>9 DEF HistoryOfStored, Stored
<1>13. CreatingOK'
  <2>1. \A g \in Handlers : handler[g].pc = "create" =>
            handler[g].id \in RequestIds /\ handler[g].id # r
    BY <1>3, HandlerLocals DEF CreatingOK
  <2> QED
    BY <1>1, <1>9, <2>1 DEF CreatingOK, TypeOK, Idle
<1>14. UpdatingOK'
  <2> SUFFICES ASSUME NEW g \in Handlers, handler'[g].pc = "update"
               PROVE  LET p == handler'[g].request
                          old == requests'[handler'[g].id]
                      IN  /\ old # NoRequest
                          /\ DecisionOf(p) \in Decision
                          /\ Admissible(DecisionOf(p))
                          /\ p.user = old.user /\ p.board = old.board
                          /\ p.created_at = old.created_at
    BY DEF UpdatingOK, DecisionOf, Admissible
  <2>1. handler'[g] = handler[g] /\ handler[g].pc = "update"
    BY <1>1 DEF TypeOK, Idle
  <2>2. handler[g].id \in RequestIds
    BY <2>1, HandlerLocals
  <2>3. CASE handler[g].id = r
    BY <1>3, <1>4, <1>8, <2>1, <2>3 DEF UpdatingOK
  <2>4. CASE handler[g].id # r
    BY <1>9, <2>1, <2>2, <2>4 DEF UpdatingOK
  <2> QED
    BY <2>3, <2>4
<1> QED
  BY <1>6, <1>10, <1>11, <1>12, <1>13, <1>14

\* Every step keeps IInv.
LEMMA StepIInv == IInv /\ [Next]_vars => IInv'
<1> SUFFICES ASSUME IInv, [Next]_vars PROVE IInv'
  OBVIOUS
<1>1. CASE UNCHANGED vars
  <2>1. TypeOK' /\ CreatingOK' /\ UpdatingOK'
    BY <1>1 DEF vars, IInv, TypeOK, CreatingOK, UpdatingOK, DecisionOf, Admissible
  <2>2. DecisionNotTorn' /\ ReferencesFollowPolicy' /\ HistoryOfStored'
    BY <1>1, CollectionUntouched DEF vars, IInv
  <2> QED
    BY <2>1, <2>2 DEF IInv
<1>2. ASSUME NEW h \in Handlers, NEW u \in Users, NEW b \in Boards,
             RequestAccessRead(h, u, b)
      PROVE  IInv'
  BY <1>2, RequestAccessReadStep
<1>3. ASSUME NEW h \in Handlers, NEW r \in RequestIds, RequestAccessBuild(h, r)
      PROVE  IInv'
  BY <1>3, RequestAccessBuildStep
<1>4. ASSUME NEW h \in Handlers, RequestAccessCreate(h)
      PROVE  IInv'
  BY <1>4, RequestAccessCreateStep
<1>5. ASSUME NEW h \in Handlers, NEW r \in RequestIds, NEW d \in Decision,
             GetPending(h, r, d)
      PROVE  IInv'
  BY <1>5, GetPendingStep
<1>6. ASSUME NEW h \in Handlers, Update(h)
      PROVE  IInv'
  BY <1>6, UpdateStep
<1>7. ASSUME NEW h \in Handlers, Abandon(h)
      PROVE  IInv'
  BY <1>7, AbandonStep
<1> QED
  BY <1>1, <1>2, <1>3, <1>4, <1>5, <1>6, <1>7 DEF Next

\* IInv holds in every reachable state.
THEOREM Invariant == Spec => []IInv
BY InitIInv, StepIInv, PTL DEF Spec

-----------------------------------------------------------------------------
(* What the runs check on small instances, for every instance.               *)

\* The collection and the handlers keep their types.
THEOREM TypeCorrect == Spec => []TypeOK
<1>1. IInv => TypeOK
  BY DEF IInv
<1> QED
  BY <1>1, Invariant, PTL

\* A stored decision is one reviewer's decision as a whole, whatever the
\* overlap of approve and reject calls.
THEOREM DecisionsAreWhole == Spec => []DecisionNotTorn
<1>1. IInv => DecisionNotTorn
  BY DEF IInv
<1> QED
  BY <1>1, Invariant, PTL

\* References are stored exactly on approvals, exactly when the deployment
\* demands them.
THEOREM PolicyIsFollowed == Spec => []ReferencesFollowPolicy
<1>1. IInv => ReferencesFollowPolicy
  BY DEF IInv
<1> QED
  BY <1>1, Invariant, PTL

\* The guard opens a board only by the allow list or a reviewer's approval of
\* a request of that user for that board.
THEOREM GrantsAreApproved == Spec => []GrantNeedsApproval
<1>1. IInv => GrantNeedsApproval
  <2> SUFFICES ASSUME IInv, NEW u \in Users, NEW b \in Boards, SelfService, IsApproved(u, b)
               PROVE  \E r \in RequestIds :
                        /\ \E d \in decided[r] : d.status = "approved"
                        /\ requests[r] # NoRequest
                        /\ requests[r].user = u /\ requests[r].board = b
    BY DEF GrantNeedsApproval, Permits, EnvAllows
  <2>1. PICK r \in Filed(u, b) : requests[r].status = "approved"
    BY DEF IsApproved
  <2>2. DecisionOf(requests[r]) \in decided[r]
    BY <2>1 DEF IInv, DecisionNotTorn, Filed
  <2>3. DecisionOf(requests[r]).status = "approved"
    BY <2>1 DEF DecisionOf
  <2> QED
    BY <2>2, <2>3 DEF Filed, Stored
<1> QED
  BY <1>1, Invariant, PTL

\* No step removes a request, changes whose it is, or makes a decided one
\* pending again.
THEOREM RequestsOnlyMoveForward == Spec => RequestsMoveForward
<1> DEFINE Forward(r) ==
              /\ r \in Stored'
              /\ requests'[r].user = requests[r].user
              /\ requests'[r].board = requests[r].board
              /\ requests'[r].created_at = requests[r].created_at
              /\ requests[r].status # "pending" => requests'[r].status # "pending"
<1>1. ASSUME IInv, [Next]_vars, NEW r \in Stored
      PROVE  Forward(r)
  <2>1. CASE UNCHANGED requests
    BY <2>1 DEF Stored
  <2>2. ASSUME NEW h \in Handlers, RequestAccessCreate(h)
        PROVE  Forward(r)
    <3>1. requests[handler[h].id] = NoRequest
      BY <1>1, <2>2 DEF RequestAccessCreate, IInv, CreatingOK
    <3>2. requests'[r] = requests[r]
      BY <1>1, <2>2, <3>1 DEF RequestAccessCreate, Stored, IInv, TypeOK
    <3> QED
      BY <3>2 DEF Stored
  <2>3. ASSUME NEW h \in Handlers, Update(h)
        PROVE  Forward(r)
    <3> DEFINE q == handler[h].request
    <3>1. CASE handler[h].id = r
      <4>1. requests'[r] = q
        BY <1>1, <2>3, <3>1 DEF Update, Stored, IInv, TypeOK
      <4>2. /\ q.user = requests[r].user /\ q.board = requests[r].board
            /\ q.created_at = requests[r].created_at
            /\ DecisionOf(q) \in Decision
        BY <1>1, <2>3, <3>1 DEF Update, IInv, UpdatingOK
      <4>3. q \in Request
        BY <1>1, <2>3, HandlerLocals DEF Update, IInv
      <4>4. r \in Stored'
        BY <4>1, <4>3, NoRequestIsNone DEF Stored
      <4>5. q.status # "pending"
        BY <4>2 DEF DecisionOf, Decision, Verdicts
      <4> QED
        BY <4>1, <4>2, <4>4, <4>5
    <3>2. CASE handler[h].id # r
      <4>1. requests'[r] = requests[r]
        BY <1>1, <2>3, <3>2 DEF Update, Stored, IInv, TypeOK
      <4> QED
        BY <4>1 DEF Stored
    <3> QED
      BY <3>1, <3>2
  <2>4. \/ UNCHANGED requests
        \/ \E h \in Handlers : RequestAccessCreate(h) \/ Update(h)
    BY <1>1 DEF Next, vars, RequestAccessRead, RequestAccessBuild, GetPending, Abandon
  <2> QED
    BY <2>1, <2>2, <2>3, <2>4
<1>2. IInv /\ [Next]_vars => [\A r \in Stored : Forward(r)]_vars
  BY <1>1
<1> QED
  BY <1>2, Invariant, PTL DEF Spec, RequestsMoveForward

-----------------------------------------------------------------------------
(* What the workflow promises when the calls about one user and one board do *)
(* not overlap: at most one open request, final decisions, a status that     *)
(* agrees with the guard, and the abstract workflow.  Calls about different  *)
(* users or boards may overlap as they like, so this is what a lock per user *)
(* and board, or a unique index, would buy.                                  *)

\* The user and the board that the call of h is about.
PairOf(h) ==
    IF handler[h].pc = "build" THEN <<handler[h].user, handler[h].board>>
    ELSE <<handler[h].request.user, handler[h].request.board>>

\* No two calls in progress are about the same user and board.
NoOverlap ==
    \A g, h \in Handlers :
        handler[g] # Idle /\ handler[h] # Idle /\ PairOf(g) = PairOf(h) => g = h

(* The inductive invariant, next to IInv.                                    *)

\* No date is ahead of the clock.
DatesPast ==
    /\ \A r \in Stored : requests[r].created_at <= clock
    /\ \A h \in Handlers : handler[h].pc = "create" => handler[h].request.created_at <= clock

\* Requests of a user for a board have different dates, so that one is latest.
DatesDiffer ==
    \A u \in Users, b \in Boards :
        /\ \A r, s \in Filed(u, b) : requests[r].created_at = requests[s].created_at => r = s
        /\ Filed(u, b) # {} => Latest(u, b) # {}

\* A request that is not rejected is the latest.
OpenIsLatest ==
    \A u \in Users, b \in Boards :
        \A r \in Filed(u, b) : requests[r].status # "rejected" => r \in Latest(u, b)

\* A call that is about to file a request knows that all are rejected, and what
\* it has built is later than all of them.
FilingOK ==
    \A h \in Handlers :
        handler[h].pc \in {"build", "create"} =>
            \A r \in Filed(PairOf(h)[1], PairOf(h)[2]) :
                /\ requests[r].status = "rejected"
                /\ handler[h].pc = "create" =>
                      requests[r].created_at < handler[h].request.created_at

\* A call that is about to decide a request knows that it is pending.
DecidingOK ==
    \A h \in Handlers :
        handler[h].pc = "update" => requests[handler[h].id].status = "pending"

SInv == DatesPast /\ DatesDiffer /\ OpenIsLatest /\ FilingOK /\ DecidingOK

-----------------------------------------------------------------------------
(* Lemmas.                                                                   *)

\* A filed request is a stored document of that user and board.
LEMMA FiledDocument ==
    ASSUME TypeOK, NEW u \in Users, NEW b \in Boards, NEW r \in Filed(u, b)
    PROVE  /\ r \in RequestIds /\ requests[r] # NoRequest /\ requests[r] \in Request
           /\ requests[r].user = u /\ requests[r].board = b
           /\ requests[r].created_at \in Nat
BY DEF TypeOK, Filed, Stored, Request

\* A stored request is filed by its user for its board.
LEMMA StoredIsFiled ==
    ASSUME TypeOK, NEW r \in Stored
    PROVE  /\ requests[r].user \in Users /\ requests[r].board \in Boards
           /\ r \in Filed(requests[r].user, requests[r].board)
BY DEF TypeOK, Stored, Filed, Request

\* The latest request of a pair is one.
LEMMA LatestIsOne ==
    ASSUME TypeOK, DatesDiffer, NEW u \in Users, NEW b \in Boards,
           NEW r \in Latest(u, b), NEW s \in Latest(u, b)
    PROVE  r = s
<1>1. r \in Filed(u, b) /\ s \in Filed(u, b)
  BY DEF Latest
<1>2. requests[r].created_at <= requests[s].created_at
  BY <1>1 DEF Latest
<1>3. requests[s].created_at <= requests[r].created_at
  BY <1>1 DEF Latest
<1>4. requests[r].created_at = requests[s].created_at
  BY <1>1, <1>2, <1>3, FiledDocument
<1> QED
  BY <1>1, <1>4 DEF DatesDiffer

\* What is filed and which is latest depend on whose the documents are and on
\* their dates only.
LEMMA SameDates ==
    ASSUME Stored' = Stored,
           \A r \in Stored : /\ requests'[r].user = requests[r].user
                             /\ requests'[r].board = requests[r].board
                             /\ requests'[r].created_at = requests[r].created_at
    PROVE  \A u \in Users, b \in Boards :
              Filed(u, b)' = Filed(u, b) /\ Latest(u, b)' = Latest(u, b)
<1> SUFFICES ASSUME NEW u \in Users, NEW b \in Boards
             PROVE  Filed(u, b)' = Filed(u, b) /\ Latest(u, b)' = Latest(u, b)
  OBVIOUS
<1>1. Filed(u, b)' = Filed(u, b)
  BY DEF Filed
<1>2. \A r \in Filed(u, b) : requests'[r].created_at = requests[r].created_at
  BY DEF Filed
<1> QED
  BY <1>1, <1>2 DEF Latest

\* The user and the board of a call in progress; its own step or another's
\* keeps them, until it is over.
LEMMA PairTyped ==
    ASSUME TypeOK, NEW h \in Handlers, handler[h].pc # "idle"
    PROVE  PairOf(h)[1] \in Users /\ PairOf(h)[2] \in Boards
BY HandlerLocals DEF PairOf, Request

\* The service starts with SInv.
LEMMA InitSInv == Init => SInv
<1> SUFFICES ASSUME Init PROVE SInv
  OBVIOUS
<1>1. Stored = {}
  BY DEF Init, Stored
<1>2. \A u, b : Filed(u, b) = {}
  BY <1>1 DEF Filed
<1>3. \A h \in Handlers : handler[h].pc = "idle"
  BY DEF Init, Idle
<1> QED
  BY <1>1, <1>2, <1>3 DEF SInv, DatesPast, DatesDiffer, OpenIsLatest, FilingOK, DecidingOK

\* A step that leaves the collection alone preserves what is said of it.
LEMMA DatesUntouched ==
    ASSUME DatesDiffer, OpenIsLatest, UNCHANGED requests
    PROVE  /\ DatesDiffer' /\ OpenIsLatest' /\ Stored' = Stored
           /\ \A u, b : Filed(u, b)' = Filed(u, b)
<1>1. Stored' = Stored /\ \A u, b : Filed(u, b)' = Filed(u, b)
  BY DEF Stored, Filed
<1>2. \A u, b : Latest(u, b)' = Latest(u, b)
  BY <1>1 DEF Latest
<1> QED
  BY <1>1, <1>2 DEF DatesDiffer, OpenIsLatest

\* SInv survives request_access's look at the latest request.
LEMMA ReadSerial ==
    ASSUME IInv, SInv, NEW h \in Handlers, NEW u \in Users, NEW b \in Boards,
           RequestAccessRead(h, u, b)
    PROVE  SInv'
<1> USE DEF SInv
<1>1. /\ handler' = [handler EXCEPT ![h] = Building(u, b)]
      /\ UNCHANGED <<requests, clock>>
  BY DEF RequestAccessRead
<1>2. /\ DatesDiffer' /\ OpenIsLatest' /\ Stored' = Stored
      /\ \A v, c : Filed(v, c)' = Filed(v, c)
  BY <1>1, DatesUntouched
<1>3. handler'[h] = Building(u, b) /\ \A g \in Handlers \ {h} : handler'[g] = handler[g]
  BY <1>1 DEF IInv, TypeOK
<1>4. DatesPast'
  BY <1>1, <1>2, <1>3 DEF DatesPast, Building
<1>5. DecidingOK'
  BY <1>1, <1>3 DEF DecidingOK, Building
<1>6. ASSUME NEW s \in Filed(u, b)
      PROVE  requests[s].status = "rejected"
  <2>1. PICK r \in Latest(u, b) : requests[r].status = "rejected"
    BY <1>6 DEF RequestAccessRead
  <2>2. requests[s].status # "rejected" => s = r
    BY <1>6, <2>1, LatestIsOne DEF IInv, OpenIsLatest
  <2> QED
    BY <2>1, <2>2
<1>7. FilingOK'
  <2> SUFFICES ASSUME NEW g \in Handlers, handler'[g].pc \in {"build", "create"},
                      NEW s \in Filed(PairOf(g)'[1], PairOf(g)'[2])
               PROVE  /\ requests[s].status = "rejected"
                      /\ handler'[g].pc = "create" =>
                            requests[s].created_at < handler'[g].request.created_at
    BY <1>1, <1>2 DEF FilingOK
  <2>1. CASE g = h
    BY <1>3, <1>6, <2>1 DEF PairOf, Building
  <2>2. CASE g # h
    BY <1>3, <2>2 DEF FilingOK, PairOf
  <2> QED
    BY <2>1, <2>2
<1> QED
  BY <1>2, <1>4, <1>5, <1>7

\* SInv survives the making of a request.
LEMMA BuildSerial ==
    ASSUME ClockStep = 1, IInv, SInv, NEW h \in Handlers, NEW r \in RequestIds,
           RequestAccessBuild(h, r)
    PROVE  SInv'
<1> USE DEF SInv
<1> DEFINE u == handler[h].user
           b == handler[h].board
           q == NewRequest(u, b, clock')
<1>1. /\ handler[h].pc = "build" /\ clock' = clock + 1 /\ UNCHANGED requests
      /\ handler' = [handler EXCEPT ![h] = Creating(r, q)]
  BY DEF RequestAccessBuild
<1>2. /\ DatesDiffer' /\ OpenIsLatest' /\ Stored' = Stored
      /\ \A v, c : Filed(v, c)' = Filed(v, c)
  BY <1>1, DatesUntouched
<1>3. handler'[h] = Creating(r, q) /\ \A g \in Handlers \ {h} : handler'[g] = handler[g]
  BY <1>1 DEF IInv, TypeOK
<1>4. q.user = u /\ q.board = b /\ q.created_at = clock + 1
  BY <1>1 DEF NewRequest
<1>5. clock \in Nat
  BY ConstantsAssumption DEF IInv, TypeOK
<1> HIDE DEF q
<1>6. \A s \in Stored : requests[s].created_at \in Nat /\ requests[s].created_at <= clock
  BY StoredDocument DEF IInv, Request, DatesPast
<1>7. DatesPast'
  <2>1. \A g \in Handlers : handler[g].pc = "create" => handler[g].request.created_at \in Nat
    BY HandlerLocals DEF IInv, Request
  <2> QED
    BY <1>1, <1>2, <1>3, <1>4, <1>5, <1>6, <2>1 DEF DatesPast, Creating
<1>8. DecidingOK'
  BY <1>1, <1>3 DEF DecidingOK, Creating
<1>9. FilingOK'
  <2> SUFFICES ASSUME NEW g \in Handlers, handler'[g].pc \in {"build", "create"},
                      NEW s \in Filed(PairOf(g)'[1], PairOf(g)'[2])
               PROVE  /\ requests[s].status = "rejected"
                      /\ handler'[g].pc = "create" =>
                            requests[s].created_at < handler'[g].request.created_at
    BY <1>1, <1>2 DEF FilingOK
  <2>1. CASE g = h
    <3>1. PairOf(g)' = <<u, b>> /\ PairOf(h) = <<u, b>>
      BY <1>1, <1>3, <1>4, <2>1 DEF PairOf, Creating
    <3>2. requests[s].status = "rejected"
      BY <1>1, <3>1 DEF FilingOK
    <3>3. requests[s].created_at < clock + 1
      BY <1>5, <1>6 DEF Filed
    <3> QED
      BY <1>3, <1>4, <2>1, <3>2, <3>3 DEF Creating
  <2>2. CASE g # h
    BY <1>3, <2>2 DEF FilingOK, PairOf
  <2> QED
    BY <2>1, <2>2
<1> QED
  BY <1>2, <1>7, <1>8, <1>9

\* SInv survives the look at a request that is to be decided.
LEMMA GetPendingSerial ==
    ASSUME IInv, SInv, NEW h \in Handlers, NEW r \in RequestIds, NEW d \in Decision,
           GetPending(h, r, d)
    PROVE  SInv'
<1> USE DEF SInv
<1> DEFINE q == Decide(requests[r], d)
<1>1. /\ requests[r].status = "pending" /\ UNCHANGED <<requests, clock>>
      /\ handler' = [handler EXCEPT ![h] = Updating(r, q)]
  BY DEF GetPending
<1> HIDE DEF q
<1>2. /\ DatesDiffer' /\ OpenIsLatest' /\ Stored' = Stored
      /\ \A u, b : Filed(u, b)' = Filed(u, b)
  BY <1>1, DatesUntouched
<1>3. handler'[h] = Updating(r, q) /\ \A g \in Handlers \ {h} : handler'[g] = handler[g]
  BY <1>1 DEF IInv, TypeOK
<1>4. DatesPast' /\ DecidingOK'
  BY <1>1, <1>2, <1>3 DEF DatesPast, DecidingOK, Updating
<1>5. FilingOK'
  BY <1>1, <1>2, <1>3 DEF FilingOK, PairOf, Updating
<1> QED
  BY <1>2, <1>4, <1>5

\* SInv survives a call that ends unanswered.
LEMMA AbandonSerial ==
    ASSUME IInv, SInv, NEW h \in Handlers, Abandon(h)
    PROVE  SInv'
<1> USE DEF SInv
<1>1. handler' = [handler EXCEPT ![h] = Idle] /\ UNCHANGED <<requests, clock>>
  BY DEF Abandon
<1>2. /\ DatesDiffer' /\ OpenIsLatest' /\ Stored' = Stored
      /\ \A u, b : Filed(u, b)' = Filed(u, b)
  BY <1>1, DatesUntouched
<1>3. handler'[h] = Idle /\ \A g \in Handlers \ {h} : handler'[g] = handler[g]
  BY <1>1 DEF IInv, TypeOK
<1>4. DatesPast' /\ DecidingOK'
  BY <1>1, <1>2, <1>3 DEF DatesPast, DecidingOK, Idle
<1>5. FilingOK'
  BY <1>1, <1>2, <1>3 DEF FilingOK, PairOf, Idle
<1> QED
  BY <1>2, <1>4, <1>5

\* What the store has of each pair after a request is filed.
LEMMA FiledByCreate ==
    ASSUME IInv, SInv, NEW h \in Handlers, RequestAccessCreate(h)
    PROVE  LET r == handler[h].id
               q == handler[h].request
           IN  /\ r \in RequestIds /\ r \notin Stored /\ q \in Request
               /\ q.status = "pending" /\ requests'[r] = q /\ Stored' = Stored \cup {r}
               /\ PairOf(h) = <<q.user, q.board>>
               /\ \A s \in Stored : requests'[s] = requests[s]
               /\ \A u, b : <<u, b>> # PairOf(h) =>
                     Filed(u, b)' = Filed(u, b) /\ Latest(u, b)' = Latest(u, b)
               /\ \A u, b : <<u, b>> = PairOf(h) =>
                     Filed(u, b)' = Filed(u, b) \cup {r} /\ Latest(u, b)' = {r}
<1> DEFINE r == handler[h].id
           q == handler[h].request
<1>1. /\ handler[h].pc = "create" /\ requests' = [requests EXCEPT ![r] = q]
  BY DEF RequestAccessCreate
<1>2. r \in RequestIds /\ q \in Request
  BY <1>1, HandlerLocals DEF IInv
<1>3. requests[r] = NoRequest /\ q.status = "pending"
  BY <1>1 DEF IInv, CreatingOK
<1>4. PairOf(h) = <<q.user, q.board>>
  BY <1>1 DEF PairOf
<1>5. \A s \in Filed(q.user, q.board) : requests[s].created_at < q.created_at
  BY <1>1, <1>4 DEF SInv, FilingOK
<1> HIDE DEF r, q
<1>6. /\ requests'[r] = q /\ r \notin Stored /\ Stored' = Stored \cup {r}
      /\ \A s \in Stored : requests'[s] = requests[s]
  BY <1>1, <1>2, <1>3, NoRequestIsNone DEF IInv, TypeOK, Stored
<1>7. \A u, b : Filed(u, b)' = IF <<u, b>> = <<q.user, q.board>> THEN Filed(u, b) \cup {r}
                               ELSE Filed(u, b)
  BY <1>6 DEF Filed
<1>8. ASSUME NEW u, NEW b, <<u, b>> # <<q.user, q.board>>
      PROVE  Filed(u, b)' = Filed(u, b) /\ Latest(u, b)' = Latest(u, b)
  <2>1. Filed(u, b)' = Filed(u, b)
    BY <1>7, <1>8
  <2>2. \A s \in Filed(u, b) : requests'[s] = requests[s]
    BY <1>6 DEF Filed
  <2> QED
    BY <2>1, <2>2 DEF Latest
<1>9. q.user \in Users /\ q.board \in Boards /\ q.created_at \in Nat
  BY <1>2 DEF Request
<1>10. ASSUME NEW u, NEW b, <<u, b>> = <<q.user, q.board>>
       PROVE  Filed(u, b)' = Filed(u, b) \cup {r} /\ Latest(u, b)' = {r}
  <2> DEFINE F == Filed(u, b)
  <2>1. u = q.user /\ b = q.board
    BY <1>10
  <2>2. Filed(u, b)' = F \cup {r}
    BY <1>7, <1>10
  <2>3. \A s \in F :
          /\ requests'[s] = requests[s] /\ requests[s].created_at \in Nat
          /\ requests[s].created_at < q.created_at
    BY <1>5, <1>6, <1>9, <2>1, FiledDocument DEF IInv, Filed
  <2>4. Latest(u, b)' = {s \in F \cup {r} : \A t \in F \cup {r} :
                            requests'[t].created_at <= requests'[s].created_at}
    BY <2>2 DEF Latest
  <2> HIDE DEF F
  <2>5. \A s \in F \cup {r} : requests'[s].created_at <= q.created_at
    BY <1>6, <1>9, <2>3
  <2>6. \A s \in F : ~ (requests'[r].created_at <= requests'[s].created_at)
    BY <1>6, <1>9, <2>3
  <2>7. Latest(u, b)' = {r}
    BY <1>6, <2>4, <2>5, <2>6
  <2> QED
    BY <2>2, <2>7 DEF F
<1> QED
  BY <1>2, <1>3, <1>4, <1>6, <1>8, <1>10 DEF r, q

\* SInv survives the insertion of a request.
LEMMA CreateSerial ==
    ASSUME IInv, SInv, NoOverlap, NEW h \in Handlers, RequestAccessCreate(h)
    PROVE  SInv'
<1> DEFINE r == handler[h].id
           q == handler[h].request
<1>1. /\ r \in RequestIds /\ r \notin Stored /\ q \in Request
      /\ q.status = "pending" /\ requests'[r] = q /\ Stored' = Stored \cup {r}
      /\ PairOf(h) = <<q.user, q.board>>
      /\ \A s \in Stored : requests'[s] = requests[s]
      /\ \A u, b : <<u, b>> # PairOf(h) =>
            Filed(u, b)' = Filed(u, b) /\ Latest(u, b)' = Latest(u, b)
      /\ \A u, b : <<u, b>> = PairOf(h) =>
            Filed(u, b)' = Filed(u, b) \cup {r} /\ Latest(u, b)' = {r}
  BY FiledByCreate
<1>2. handler[h].pc = "create" /\ UNCHANGED clock
  BY DEF RequestAccessCreate
<1>3. handler'[h] = Idle /\ \A g \in Handlers \ {h} : handler'[g] = handler[g]
  BY DEF RequestAccessCreate, IInv, TypeOK
<1>4. q.created_at <= clock
  BY <1>2 DEF SInv, DatesPast
<1>5. \A s \in Filed(q.user, q.board) :
          requests[s].status = "rejected" /\ requests[s].created_at < q.created_at
  BY <1>1, <1>2 DEF SInv, FilingOK
<1> HIDE DEF r, q
<1>6. DatesPast'
  BY <1>1, <1>2, <1>3, <1>4 DEF SInv, DatesPast, Idle
<1>7. \A u, b : \A s \in Filed(u, b) : requests'[s] = requests[s]
  BY <1>1 DEF Filed
<1>8. q.created_at \in Nat
  BY <1>1 DEF Request
<1>9. DatesDiffer'
  <2> SUFFICES ASSUME NEW u \in Users, NEW b \in Boards
               PROVE  /\ \A s, t \in Filed(u, b)' :
                            requests'[s].created_at = requests'[t].created_at => s = t
                      /\ Filed(u, b)' # {} => Latest(u, b)' # {}
    BY DEF DatesDiffer
  <2>1. CASE <<u, b>> = PairOf(h)
    <3>1. u = q.user /\ b = q.board
      BY <1>1, <2>1
    <3>2. \A s \in Filed(u, b) : /\ requests[s].created_at \in Nat
                                 /\ requests[s].created_at < q.created_at
                                 /\ requests'[s] = requests[s]
      BY <1>5, <1>7, <3>1, FiledDocument DEF IInv
    <3>3. \A s, t \in Filed(u, b) : requests[s].created_at = requests[t].created_at => s = t
      BY DEF SInv, DatesDiffer
    <3> QED
      BY <1>1, <1>8, <2>1, <3>2, <3>3
  <2>2. CASE <<u, b>> # PairOf(h)
    BY <1>1, <1>7, <2>2 DEF SInv, DatesDiffer
  <2> QED
    BY <2>1, <2>2
<1>10. OpenIsLatest'
  <2> SUFFICES ASSUME NEW u \in Users, NEW b \in Boards, NEW s \in Filed(u, b)',
                      requests'[s].status # "rejected"
               PROVE  s \in Latest(u, b)'
    BY DEF OpenIsLatest
  <2>1. CASE <<u, b>> = PairOf(h)
    <3>1. u = q.user /\ b = q.board
      BY <1>1, <2>1
    <3>2. s \notin Filed(u, b)
      BY <1>5, <1>7, <3>1
    <3> QED
      BY <1>1, <2>1, <3>2
  <2>2. CASE <<u, b>> # PairOf(h)
    BY <1>1, <1>7, <2>2 DEF SInv, OpenIsLatest
  <2> QED
    BY <2>1, <2>2
<1>11. FilingOK'
  <2> SUFFICES ASSUME NEW g \in Handlers, handler'[g].pc \in {"build", "create"}
               PROVE  \A s \in Filed(PairOf(g)[1], PairOf(g)[2])' :
                         /\ requests'[s].status = "rejected"
                         /\ handler'[g].pc = "create" =>
                               requests'[s].created_at < handler'[g].request.created_at
    BY DEF FilingOK
  <2>1. g # h /\ handler'[g] = handler[g]
    BY <1>3 DEF Idle
  <2>2. PairOf(g)' = PairOf(g)
    BY <2>1 DEF PairOf
  <2>3. PairOf(g) # PairOf(h)
    BY <1>2, <2>1 DEF NoOverlap, Idle
  <2> PICK u, b : u = PairOf(g)[1] /\ b = PairOf(g)[2]
    OBVIOUS
  <2>4. Filed(u, b)' = Filed(u, b)
    <3>1. PairOf(g) = <<u, b>>
      BY DEF PairOf
    <3> QED
      BY <1>1, <2>3, <3>1
  <2>5. Filed(PairOf(g)[1], PairOf(g)[2])' = Filed(u, b)'
    BY <2>2 DEF Filed
  <2>6. \A s \in Filed(u, b) :
           /\ requests[s].status = "rejected"
           /\ handler[g].pc = "create" => requests[s].created_at < handler[g].request.created_at
    BY <2>1 DEF SInv, FilingOK
  <2> QED
    BY <1>7, <2>1, <2>4, <2>5, <2>6
<1>12. DecidingOK'
  <2> SUFFICES ASSUME NEW g \in Handlers, handler'[g].pc = "update"
               PROVE  requests'[handler'[g].id].status = "pending"
    BY DEF DecidingOK
  <2>1. handler'[g] = handler[g]
    BY <1>3 DEF Idle
  <2>2. handler[g].id \in Stored
    BY <2>1, HandlerLocals DEF IInv, UpdatingOK, Stored
  <2> QED
    BY <1>1, <2>1, <2>2 DEF SInv, DecidingOK
<1> QED
  BY <1>6, <1>9, <1>10, <1>11, <1>12 DEF SInv

\* What the store has after a decision is written: the same requests of the
\* same users, boards and dates, one of them with the decision.
LEMMA FiledByUpdate ==
    ASSUME IInv, SInv, NEW h \in Handlers, Update(h)
    PROVE  LET r == handler[h].id
               q == handler[h].request
           IN  /\ r \in Stored /\ q \in Request /\ requests'[r] = q
               /\ requests[r].status = "pending" /\ q.status \in Verdicts
               /\ PairOf(h) = <<q.user, q.board>>
               /\ q.user = requests[r].user /\ q.board = requests[r].board
               /\ q.created_at = requests[r].created_at
               /\ \A s \in Stored \ {r} : requests'[s] = requests[s]
               /\ Stored' = Stored
               /\ \A u \in Users, b \in Boards :
                     Filed(u, b)' = Filed(u, b) /\ Latest(u, b)' = Latest(u, b)
<1> DEFINE r == handler[h].id
           q == handler[h].request
<1>1. handler[h].pc = "update" /\ requests' = [requests EXCEPT ![r] = q]
  BY DEF Update
<1>2. r \in RequestIds /\ q \in Request
  BY <1>1, HandlerLocals DEF IInv
<1>3. /\ requests[r] # NoRequest /\ DecisionOf(q) \in Decision
      /\ q.user = requests[r].user /\ q.board = requests[r].board
      /\ q.created_at = requests[r].created_at
  BY <1>1 DEF IInv, UpdatingOK
<1>4. requests[r].status = "pending"
  BY <1>1 DEF SInv, DecidingOK
<1>5. PairOf(h) = <<q.user, q.board>>
  BY <1>1 DEF PairOf
<1> HIDE DEF r, q
<1>6. q.status \in Verdicts
  BY <1>3 DEF DecisionOf, Decision
<1>7. r \in Stored /\ requests'[r] = q /\ Stored' = Stored
      /\ \A s \in Stored \ {r} : requests'[s] = requests[s]
  BY <1>1, <1>2, <1>3, NoRequestIsNone DEF Stored, IInv, TypeOK
<1>8. \A s \in Stored : /\ requests'[s].user = requests[s].user
                        /\ requests'[s].board = requests[s].board
                        /\ requests'[s].created_at = requests[s].created_at
  BY <1>3, <1>7
<1>9. \A u \in Users, b \in Boards :
         Filed(u, b)' = Filed(u, b) /\ Latest(u, b)' = Latest(u, b)
  BY <1>7, <1>8, SameDates
<1> QED
  BY <1>2, <1>3, <1>4, <1>5, <1>6, <1>7, <1>9 DEF r, q

\* SInv survives the write of a decision.
LEMMA UpdateSerial ==
    ASSUME IInv, SInv, NoOverlap, NEW h \in Handlers, Update(h)
    PROVE  SInv'
<1> DEFINE r == handler[h].id
           q == handler[h].request
<1>1. /\ r \in Stored /\ q \in Request /\ requests'[r] = q
      /\ requests[r].status = "pending" /\ q.status \in Verdicts
      /\ PairOf(h) = <<q.user, q.board>>
      /\ q.user = requests[r].user /\ q.board = requests[r].board
      /\ q.created_at = requests[r].created_at
      /\ \A s \in Stored \ {r} : requests'[s] = requests[s]
      /\ Stored' = Stored
      /\ \A u \in Users, b \in Boards :
            Filed(u, b)' = Filed(u, b) /\ Latest(u, b)' = Latest(u, b)
  BY FiledByUpdate
<1>2. handler[h].pc = "update" /\ UNCHANGED clock
  BY DEF Update
<1>3. handler'[h] = Idle /\ \A g \in Handlers \ {h} : handler'[g] = handler[g]
  BY DEF Update, IInv, TypeOK
<1> HIDE DEF r, q
<1>4. \A s \in Stored : requests'[s].created_at = requests[s].created_at
  BY <1>1
<1>5. DatesPast'
  BY <1>1, <1>2, <1>3, <1>4 DEF SInv, DatesPast, Idle
<1>6. DatesDiffer'
  BY <1>1, <1>4 DEF SInv, DatesDiffer, Filed
<1>7. OpenIsLatest'
  <2> SUFFICES ASSUME NEW u \in Users, NEW b \in Boards, NEW s \in Filed(u, b),
                      requests'[s].status # "rejected"
               PROVE  s \in Latest(u, b)
    BY <1>1 DEF OpenIsLatest
  <2>1. s \in Stored
    BY DEF Filed
  <2>2. requests[s].status # "rejected"
    BY <1>1, <2>1
  <2> QED
    BY <2>2 DEF SInv, OpenIsLatest
<1>8. ASSUME NEW g \in Handlers, g # h, handler[g] # Idle
      PROVE  PairOf(g) # PairOf(h)
  BY <1>2, <1>8 DEF NoOverlap, Idle
<1>9. FilingOK'
  <2> SUFFICES ASSUME NEW g \in Handlers, handler'[g].pc \in {"build", "create"}
               PROVE  \A s \in Filed(PairOf(g)[1], PairOf(g)[2])' :
                         /\ requests'[s].status = "rejected"
                         /\ handler'[g].pc = "create" =>
                               requests'[s].created_at < handler'[g].request.created_at
    BY DEF FilingOK
  <2>1. g # h /\ handler'[g] = handler[g]
    BY <1>3 DEF Idle
  <2>2. PairOf(g)' = PairOf(g)
    BY <2>1 DEF PairOf
  <2>3. PairOf(g) # PairOf(h) /\ PairOf(g) = <<PairOf(g)[1], PairOf(g)[2]>>
    BY <1>8, <2>1 DEF Idle, PairOf
  <2>4. PairOf(g)[1] \in Users /\ PairOf(g)[2] \in Boards
    BY <2>1, PairTyped DEF IInv
  <2> PICK u \in Users, b \in Boards : u = PairOf(g)[1] /\ b = PairOf(g)[2]
    BY <2>4
  <2>5. Filed(PairOf(g)[1], PairOf(g)[2])' = Filed(u, b)
    <3>1. Filed(PairOf(g)[1], PairOf(g)[2])' = Filed(u, b)'
      BY <2>2 DEF Filed
    <3> QED
      BY <1>1, <3>1
  <2>6. \A s \in Filed(u, b) : requests'[s] = requests[s]
    BY <1>1, <2>3 DEF Filed
  <2>7. \A s \in Filed(u, b) :
           /\ requests[s].status = "rejected"
           /\ handler[g].pc = "create" => requests[s].created_at < handler[g].request.created_at
    BY <2>1 DEF SInv, FilingOK
  <2> QED
    BY <2>1, <2>5, <2>6, <2>7
<1>10. DecidingOK'
  <2> SUFFICES ASSUME NEW g \in Handlers, handler'[g].pc = "update"
               PROVE  requests'[handler'[g].id].status = "pending"
    BY DEF DecidingOK
  <2>1. g # h /\ handler'[g] = handler[g]
    BY <1>3 DEF Idle
  <2>2. /\ handler[g].id \in Stored
        /\ PairOf(g) = <<requests[handler[g].id].user, requests[handler[g].id].board>>
    BY <2>1, HandlerLocals DEF IInv, UpdatingOK, Stored, PairOf
  <2>3. handler[g].id # r
    BY <1>1, <1>8, <2>1, <2>2 DEF Idle
  <2> QED
    BY <1>1, <2>1, <2>2, <2>3 DEF SInv, DecidingOK
<1> QED
  BY <1>5, <1>6, <1>7, <1>9, <1>10 DEF SInv

\* Every step keeps SInv, as long as no two calls for one user and board overlap.
LEMMA StepSInv ==
    ClockStep = 1 /\ IInv /\ SInv /\ NoOverlap /\ [Next]_vars => SInv'
<1> SUFFICES ASSUME ClockStep = 1, IInv, SInv, NoOverlap, [Next]_vars PROVE SInv'
  OBVIOUS
<1>1. CASE UNCHANGED vars
  <2>1. /\ DatesDiffer' /\ OpenIsLatest' /\ Stored' = Stored
        /\ \A u, b : Filed(u, b)' = Filed(u, b)
    BY <1>1, DatesUntouched DEF SInv, vars
  <2>2. DatesPast' /\ DecidingOK' /\ FilingOK'
    BY <1>1, <2>1 DEF SInv, vars, DatesPast, DecidingOK, FilingOK, PairOf
  <2> QED
    BY <2>1, <2>2 DEF SInv
<1>2. ASSUME NEW h \in Handlers, NEW u \in Users, NEW b \in Boards,
             RequestAccessRead(h, u, b)
      PROVE  SInv'
  BY <1>2, ReadSerial
<1>3. ASSUME NEW h \in Handlers, NEW r \in RequestIds, RequestAccessBuild(h, r)
      PROVE  SInv'
  BY <1>3, BuildSerial
<1>4. ASSUME NEW h \in Handlers, RequestAccessCreate(h)
      PROVE  SInv'
  BY <1>4, CreateSerial
<1>5. ASSUME NEW h \in Handlers, NEW r \in RequestIds, NEW d \in Decision,
             GetPending(h, r, d)
      PROVE  SInv'
  BY <1>5, GetPendingSerial
<1>6. ASSUME NEW h \in Handlers, Update(h)
      PROVE  SInv'
  BY <1>6, UpdateSerial
<1>7. ASSUME NEW h \in Handlers, Abandon(h)
      PROVE  SInv'
  BY <1>7, AbandonSerial
<1> QED
  BY <1>1, <1>2, <1>3, <1>4, <1>5, <1>6, <1>7 DEF Next

\* With calls about a pair one after the other, SInv holds all along.
THEOREM SerialInvariant ==
    ASSUME ClockStep = 1
    PROVE  Spec /\ []NoOverlap => []SInv
<1>1. IInv /\ SInv /\ NoOverlap /\ [Next]_vars => SInv'
  BY StepSInv
<1> QED
  BY <1>1, InitSInv, Invariant, PTL DEF Spec

-----------------------------------------------------------------------------
(* What the run of calls that do not overlap checks, for every instance and  *)
(* for overlaps of calls about different pairs.                              *)

\* A user has at most one request for a board that is not rejected.
THEOREM OneRequestIsOpen ==
    ASSUME ClockStep = 1
    PROVE  Spec /\ []NoOverlap => []OneOpenRequest
<1>1. IInv /\ SInv => OneOpenRequest
  BY LatestIsOne DEF IInv, SInv, OpenIsLatest, OneOpenRequest
<1> QED
  BY <1>1, Invariant, SerialInvariant, PTL

\* The status route and the guard agree: the latest request is approved exactly
\* when any is.
THEOREM StatusAgrees ==
    ASSUME ClockStep = 1
    PROVE  Spec /\ []NoOverlap => []StatusAgreesWithGuard
<1>1. IInv /\ SInv => StatusAgreesWithGuard
  <2> SUFFICES ASSUME IInv, SInv, NEW u \in Users, NEW b \in Boards, NEW r \in Latest(u, b)
               PROVE  (requests[r].status = "approved") <=> IsApproved(u, b)
    BY DEF StatusAgreesWithGuard
  <2>1. r \in Filed(u, b)
    BY DEF Latest
  <2>2. ASSUME NEW s \in Filed(u, b), requests[s].status = "approved"
        PROVE  s = r
    BY <2>2, LatestIsOne DEF IInv, SInv, OpenIsLatest
  <2> QED
    BY <2>1, <2>2 DEF IsApproved
<1> QED
  BY <1>1, Invariant, SerialInvariant, PTL

\* A decision, once stored, is never replaced.
THEOREM DecisionsAreFinal ==
    ASSUME ClockStep = 1
    PROVE  Spec /\ []NoOverlap => DecisionIsFinal
<1>1. ASSUME IInv, SInv, [Next]_vars, NEW r \in Stored, requests[r].status # "pending"
      PROVE  requests'[r] = requests[r]
  <2>1. ASSUME NEW h \in Handlers, RequestAccessCreate(h)
        PROVE  requests'[r] = requests[r]
    BY <1>1, <2>1, FiledByCreate
  <2>2. ASSUME NEW h \in Handlers, Update(h)
        PROVE  requests'[r] = requests[r]
    BY <1>1, <2>2, FiledByUpdate
  <2>3. \/ UNCHANGED requests
        \/ \E h \in Handlers : RequestAccessCreate(h) \/ Update(h)
    BY <1>1 DEF Next, vars, RequestAccessRead, RequestAccessBuild, GetPending, Abandon
  <2> QED
    BY <2>1, <2>2, <2>3
<1>2. IInv /\ SInv /\ [Next]_vars =>
          [\A r \in Stored : requests[r].status # "pending" => requests'[r] = requests[r]]_vars
  BY <1>1
<1> QED
  BY <1>2, Invariant, SerialInvariant, PTL DEF Spec, DecisionIsFinal

-----------------------------------------------------------------------------
(* The refinement of AccessWorkflow.                                         *)

\* The status of a pair is the status of its latest request, if it has one.
LEMMA StatusIsOfLatest ==
    ASSUME TypeOK, DatesDiffer, NEW u \in Users, NEW b \in Boards
    PROVE  /\ Filed(u, b) = {} => StatusOf(<<u, b>>) = "none"
           /\ \A r \in Latest(u, b) : StatusOf(<<u, b>>) = requests[r].status
           /\ Filed(u, b) # {} => \E r \in Latest(u, b) : r \in Filed(u, b)
<1>1. \A r \in Latest(u, b) : Filed(u, b) # {}
  BY DEF Latest
<1>2. ASSUME NEW r \in Latest(u, b)
      PROVE  (CHOOSE s \in Latest(u, b) : TRUE) = r
  BY <1>2, LatestIsOne
<1>3. \A r \in Latest(u, b) : r \in Filed(u, b)
  BY DEF Latest
<1> QED
  BY <1>1, <1>2, <1>3 DEF StatusOf, DatesDiffer

\* A pair about which nothing is written keeps its status.
LEMMA StatusKept ==
    ASSUME NEW u \in Users, NEW b \in Boards,
           Filed(u, b)' = Filed(u, b), Latest(u, b)' = Latest(u, b),
           \A r \in Latest(u, b) : requests'[r] = requests[r],
           Filed(u, b) # {} => Latest(u, b) # {}
    PROVE  StatusOf(<<u, b>>)' = StatusOf(<<u, b>>)
<1> DEFINE c == CHOOSE r \in Latest(u, b) : TRUE
<1>1. StatusOf(<<u, b>>) = IF Filed(u, b) = {} THEN "none" ELSE requests[c].status
  BY DEF StatusOf
<1>2. StatusOf(<<u, b>>)' = IF Filed(u, b)' = {} THEN "none" ELSE requests'[c'].status
  BY DEF StatusOf
<1>3. c' = c
  OBVIOUS
<1>4. Filed(u, b) # {} => c \in Latest(u, b)
  OBVIOUS
<1> HIDE DEF c
<1> QED
  BY <1>1, <1>2, <1>3, <1>4

\* The status of a pair moves when a request is filed or a decision is written,
\* as the workflow says; the status of every other pair stays.
LEMMA StatusStep ==
    ASSUME IInv, SInv, [Next]_vars
    PROVE  \/ \A p \in Users \X Boards : StatusOf(p)' = StatusOf(p)
           \/ \E p \in Users \X Boards :
                 /\ \/ StatusOf(p) \in {"none", "rejected"} /\ StatusOf(p)' = "pending"
                    \/ StatusOf(p) = "pending" /\ StatusOf(p)' \in Verdicts
                 /\ \A o \in Users \X Boards : o # p => StatusOf(o)' = StatusOf(o)
<1> USE DEF SInv
<1>1. ASSUME UNCHANGED requests, NEW p \in Users \X Boards
      PROVE  StatusOf(p)' = StatusOf(p)
  <2> PICK u \in Users, b \in Boards : p = <<u, b>>
    OBVIOUS
  <2>1. Filed(u, b)' = Filed(u, b) /\ Latest(u, b)' = Latest(u, b)
    BY <1>1, SameDates DEF Stored
  <2>2. StatusOf(<<u, b>>)' = StatusOf(<<u, b>>)
    BY <1>1, <2>1, StatusKept DEF DatesDiffer
  <2> QED
    BY <2>2
<1>2. ASSUME NEW h \in Handlers, RequestAccessCreate(h)
      PROVE  \E p \in Users \X Boards :
                /\ StatusOf(p) \in {"none", "rejected"} /\ StatusOf(p)' = "pending"
                /\ \A o \in Users \X Boards : o # p => StatusOf(o)' = StatusOf(o)
  <2> DEFINE r == handler[h].id
             q == handler[h].request
  <2>1. /\ r \notin Stored /\ q \in Request
        /\ q.status = "pending" /\ requests'[r] = q
        /\ PairOf(h) = <<q.user, q.board>>
        /\ \A s \in Stored : requests'[s] = requests[s]
        /\ \A u, b : <<u, b>> # PairOf(h) =>
              Filed(u, b)' = Filed(u, b) /\ Latest(u, b)' = Latest(u, b)
        /\ \A u, b : <<u, b>> = PairOf(h) =>
              Filed(u, b)' = Filed(u, b) \cup {r} /\ Latest(u, b)' = {r}
    BY <1>2, FiledByCreate
  <2>2. handler[h].pc = "create"
    BY <1>2 DEF RequestAccessCreate
  <2>3. PICK v \in Users, c \in Boards : q.user = v /\ q.board = c
    BY <2>1 DEF Request
  <2>4. \A s \in Filed(v, c) : requests[s].status = "rejected"
    BY <2>1, <2>2, <2>3 DEF FilingOK
  <2> HIDE DEF r, q
  <2>5. StatusOf(<<v, c>>) \in {"none", "rejected"}
    BY <2>4, StatusIsOfLatest DEF IInv
  <2>6. StatusOf(<<v, c>>)' = "pending"
    <3>1. Filed(v, c)' # {} /\ Latest(v, c)' = {r}
      BY <2>1, <2>3
    <3>2. (CHOOSE s \in Latest(v, c) : TRUE)' = r
      BY <3>1
    <3> QED
      BY <2>1, <3>1, <3>2 DEF StatusOf
  <2>7. ASSUME NEW o \in Users \X Boards, o # <<v, c>>
        PROVE  StatusOf(o)' = StatusOf(o)
    <3> PICK u \in Users, b \in Boards : o = <<u, b>>
      OBVIOUS
    <3>1. Filed(u, b)' = Filed(u, b) /\ Latest(u, b)' = Latest(u, b)
      BY <2>1, <2>3, <2>7
    <3>2. \A s \in Latest(u, b) : requests'[s] = requests[s]
      BY <2>1 DEF Latest, Filed
    <3>3. StatusOf(<<u, b>>)' = StatusOf(<<u, b>>)
      BY <3>1, <3>2, StatusKept DEF DatesDiffer
    <3> QED
      BY <3>3
  <2> QED
    BY <2>5, <2>6, <2>7
<1>3. ASSUME NEW h \in Handlers, Update(h)
      PROVE  \E p \in Users \X Boards :
                /\ StatusOf(p) = "pending" /\ StatusOf(p)' \in Verdicts
                /\ \A o \in Users \X Boards : o # p => StatusOf(o)' = StatusOf(o)
  <2> DEFINE r == handler[h].id
             q == handler[h].request
  <2>1. /\ r \in Stored /\ q \in Request /\ requests'[r] = q
        /\ requests[r].status = "pending" /\ q.status \in Verdicts
        /\ q.user = requests[r].user /\ q.board = requests[r].board
        /\ \A s \in Stored \ {r} : requests'[s] = requests[s]
        /\ \A u \in Users, b \in Boards :
              Filed(u, b)' = Filed(u, b) /\ Latest(u, b)' = Latest(u, b)
    BY <1>3, FiledByUpdate
  <2> HIDE DEF r, q
  <2>2. PICK v \in Users, c \in Boards : r \in Filed(v, c)
    BY <2>1, StoredIsFiled DEF IInv
  <2>3. r \in Latest(v, c)
    BY <2>1, <2>2 DEF OpenIsLatest
  <2>4. StatusOf(<<v, c>>) = "pending"
    BY <2>1, <2>3, StatusIsOfLatest DEF IInv
  <2>5. StatusOf(<<v, c>>)' \in Verdicts
    <3>1. Filed(v, c)' # {} /\ Latest(v, c)' = Latest(v, c)
      BY <2>1, <2>2
    <3>2. (CHOOSE s \in Latest(v, c) : TRUE) = r
      BY <2>3, LatestIsOne DEF IInv
    <3>3. (CHOOSE s \in Latest(v, c) : TRUE)' = r
      BY <3>1, <3>2
    <3>4. StatusOf(<<v, c>>)' = requests'[(CHOOSE s \in Latest(v, c) : TRUE)'].status
      BY <3>1 DEF StatusOf
    <3> QED
      BY <2>1, <3>3, <3>4
  <2>6. ASSUME NEW o \in Users \X Boards, o # <<v, c>>
        PROVE  StatusOf(o)' = StatusOf(o)
    <3> PICK u \in Users, b \in Boards : o = <<u, b>>
      OBVIOUS
    <3>1. Filed(u, b)' = Filed(u, b) /\ Latest(u, b)' = Latest(u, b)
      BY <2>1
    <3>2. \A s \in Latest(u, b) : requests'[s] = requests[s]
      BY <2>1, <2>2, <2>6 DEF Latest, Filed
    <3>3. StatusOf(<<u, b>>)' = StatusOf(<<u, b>>)
      BY <3>1, <3>2, StatusKept DEF DatesDiffer
    <3> QED
      BY <3>3
  <2> QED
    BY <2>4, <2>5, <2>6
<1>4. \/ UNCHANGED requests
      \/ \E h \in Handlers : RequestAccessCreate(h) \/ Update(h)
  BY DEF Next, vars, RequestAccessRead, RequestAccessBuild, GetPending, Abandon
<1> QED
  BY <1>1, <1>2, <1>3, <1>4

\* The collection implements the abstract workflow.
THEOREM WorkflowIsImplemented ==
    ASSUME ClockStep = 1
    PROVE  Spec /\ []NoOverlap => ImplementsWorkflow
<1> DEFINE status == [p \in Users \X Boards |-> StatusOf(p)]
<1>1. Init => Workflow!Init
  <2> SUFFICES ASSUME Init PROVE status = [p \in Users \X Boards |-> "none"]
    BY DEF Workflow!Init
  <2>1. \A u, b : Filed(u, b) = {}
    BY DEF Init, Filed, Stored
  <2> QED
    BY <2>1 DEF StatusOf
<1>2. IInv /\ SInv /\ [Next]_vars => [Workflow!Next]_status
  <2> SUFFICES ASSUME IInv, SInv, [Next]_vars
               PROVE  Workflow!Next \/ UNCHANGED status
    OBVIOUS
  <2>1. CASE \A p \in Users \X Boards : StatusOf(p)' = StatusOf(p)
    BY <2>1
  <2>2. ASSUME NEW p \in Users \X Boards,
               \A o \in Users \X Boards : o # p => StatusOf(o)' = StatusOf(o)
        PROVE  status' = [status EXCEPT ![p] = StatusOf(p)']
    BY <2>2
  <2>3. ASSUME NEW p \in Users \X Boards,
               StatusOf(p) \in {"none", "rejected"}, StatusOf(p)' = "pending",
               \A o \in Users \X Boards : o # p => StatusOf(o)' = StatusOf(o)
        PROVE  Workflow!Ask(p)
    BY <2>2, <2>3 DEF Workflow!Ask
  <2>4. ASSUME NEW p \in Users \X Boards,
               StatusOf(p) = "pending", StatusOf(p)' \in Verdicts,
               \A o \in Users \X Boards : o # p => StatusOf(o)' = StatusOf(o)
        PROVE  Workflow!Decide(p, StatusOf(p)')
    BY <2>2, <2>4 DEF Workflow!Decide
  <2> QED
    BY <2>1, <2>3, <2>4, StatusStep DEF Workflow!Next, Verdicts
<1> QED
  BY <1>1, <1>2, Invariant, SerialInvariant, PTL DEF Spec, ImplementsWorkflow, Workflow!Spec

\* In particular with one call in progress at a time, as in the run.
THEOREM OneCallAtATime ==
    ASSUME ClockStep = 1, \A g, h \in Handlers : g = h
    PROVE  Spec => /\ []OneOpenRequest /\ []StatusAgreesWithGuard
                   /\ DecisionIsFinal /\ ImplementsWorkflow
<1>1. NoOverlap
  BY DEF NoOverlap
<1> QED
  BY <1>1, OneRequestIsOpen, StatusAgrees, DecisionsAreFinal, WorkflowIsImplemented, PTL

=============================================================================
