--------------------------- MODULE AccessRequests ---------------------------
(* The governed-access workflow: a user requests access to a Mural board, a  *)
(* reviewer approves or rejects the request, and the board guard consults    *)
(* the decided requests.  Models BoardAccessRequestService over its Mongo    *)
(* collection, the admin and approval routers that call it, and the guards.  *)
(*                                                                           *)
(* Every HTTP call is served by a handler.  A handler's coroutine runs       *)
(* without interruption between two awaits, so one action below is the code  *)
(* from one await to the next, and a store operation is one atomic step on   *)
(* the collection.  Between two steps of a handler any other handler, of     *)
(* this process or of another replica, may run.                              *)
EXTENDS Naturals, FiniteSets

CONSTANTS
    Users,            \* principals that request access
    Boards,           \* Mural board ids
    Reviewers,        \* principals that decide requests
    RequestIds,       \* the supply of uuid4 request ids
    Handlers,         \* HTTP calls that may be in progress at a time
    AllowedBoardIds,  \* ALLOWED_BOARD_IDS, may contain AllowAll
    AllowAll,         \* the "*" of ALLOWED_BOARD_IDS
    SelfService,      \* SELF_SERVICE_ACCESS_ENABLED
    DataHandling,     \* DATA_HANDLING_UPLOAD_ENABLED
    ClockStep,        \* least advance of the clock between two of its readings:
                      \* 0 when two may fall in the same millisecond (the
                      \* precision of a stored date), 1 when they may not
    MaxClock,         \* bound: readings of the clock
    NoRequest,        \* "no document": absent in the collection, or find_one None
    None              \* a field that is null

Statuses == {"pending", "approved", "rejected"}
Verdicts == {"approved", "rejected"}

\* One document of the collection.  reason, iao and decision_reason are free
\* text nothing depends on; form and risk say whether a reference is recorded.
Request == [user: Users, board: Boards, status: Statuses, created_at: 0..MaxClock,
            reviewer: Reviewers \cup {None}, form: BOOLEAN, risk: BOOLEAN]

\* What a reviewer decided: the fields approve() and reject() assign.
Decision == [status: Verdicts, reviewer: Reviewers, form: BOOLEAN, risk: BOOLEAN]

ASSUME ConstantsAssumption ==
    /\ SelfService \in BOOLEAN
    /\ DataHandling \in BOOLEAN
    /\ ClockStep \in {0, 1}
    /\ MaxClock \in Nat
    /\ NoRequest \notin Request
    /\ None \notin Reviewers
    /\ AllowedBoardIds \subseteq Boards \cup {AllowAll}

VARIABLES
    requests,  \* the access_requests collection: id -> document
    handler,   \* handler -> where its call stands, and the locals it holds
    clock,     \* the last reading of the wall clock
    decided    \* history: id -> decisions written to the collection

vars == <<requests, handler, clock, decided>>

-----------------------------------------------------------------------------
(* Handlers.  pc: idle; build (request_access has read, has not built);      *)
(* create (built, not stored); update (a decision is on the local copy, not  *)
(* stored).                                                                  *)

Idle == [pc |-> "idle"]
Building(u, b) == [pc |-> "build", user |-> u, board |-> b]
Creating(r, q) == [pc |-> "create", id |-> r, request |-> q]
Updating(r, q) == [pc |-> "update", id |-> r, request |-> q]

HandlerState ==
    {Idle}
    \cup [pc: {"build"}, user: Users, board: Boards]
    \cup [pc: {"create", "update"}, id: RequestIds, request: Request]

Stored == {r \in RequestIds : requests[r] # NoRequest}

\* The requests of user u for board b.
Filed(u, b) == {r \in Stored : requests[r].user = u /\ requests[r].board = b}

\* Mutation: sorted by created_at ascending.
LatestAscending(u, b) ==
    {r \in Filed(u, b) :
        \A s \in Filed(u, b) : requests[r].created_at <= requests[s].created_at}

\* What get_latest_for_user_and_board may return: with equal dates Mongo's
\* order is not determined.
Latest(u, b) ==
    {r \in Filed(u, b) :
        \A s \in Filed(u, b) : requests[s].created_at <= requests[r].created_at}

\* Mutation: an id that may already be in the collection.
FreshAmongCalls(r) ==
    \A h \in Handlers : handler[h].pc = "create" => handler[h].id # r

\* uuid4 returns an id that neither the collection nor another call holds.
Fresh(r) ==
    /\ r \notin Stored
    /\ \A h \in Handlers : handler[h].pc = "create" => handler[h].id # r

-----------------------------------------------------------------------------
(* The guards.                                                               *)

\* EnvAllowListBoardGuard.check
EnvAllows(b) == AllowAll \in AllowedBoardIds \/ b \in AllowedBoardIds

\* Mutation: the query leaves the board out.
IsApprovedAnyBoard(u, b) ==
    \E r \in Stored : requests[r].user = u /\ requests[r].status = "approved"

\* MongoBoardAccessRequestStore.is_approved: any approved document will do.
IsApproved(u, b) == \E r \in Filed(u, b) : requests[r].status = "approved"

\* The guard provide_board_guard assembles.
Permits(u, b) == EnvAllows(b) \/ (SelfService /\ IsApproved(u, b))

-----------------------------------------------------------------------------
(* Operations.                                                               *)

\* Mutation: only an approved request is refused.
RequestAccessWhilePending(h, u, b) ==
    /\ SelfService
    /\ handler[h] = Idle
    /\ \/ Filed(u, b) = {}
       \/ \E r \in Latest(u, b) : requests[r].status # "approved"
    /\ handler' = [handler EXCEPT ![h] = Building(u, b)]
    /\ UNCHANGED <<requests, clock, decided>>

\* Mutation: only a pending request is refused.
RequestAccessWhenDecided(h, u, b) ==
    /\ SelfService
    /\ handler[h] = Idle
    /\ \/ Filed(u, b) = {}
       \/ \E r \in Latest(u, b) : requests[r].status # "pending"
    /\ handler' = [handler EXCEPT ![h] = Building(u, b)]
    /\ UNCHANGED <<requests, clock, decided>>

\* POST /approvals/boards, up to the answer of get_latest_for_user_and_board.
\* A latest request that is not rejected is refused (409) and changes nothing.
RequestAccessRead(h, u, b) ==
    /\ SelfService
    /\ handler[h] = Idle
    /\ \/ Filed(u, b) = {}
       \/ \E r \in Latest(u, b) : requests[r].status = "rejected"
    /\ handler' = [handler EXCEPT ![h] = Building(u, b)]
    /\ UNCHANGED <<requests, clock, decided>>

\* The new BoardAccessRequest: a fresh id, the current time, the model's
\* defaults for the rest.
NewRequest(u, b, t) ==
    [user |-> u, board |-> b, status |-> "pending", created_at |-> t,
     reviewer |-> None, form |-> FALSE, risk |-> FALSE]

RequestAccessBuild(h, r) ==
    /\ handler[h].pc = "build"
    /\ Fresh(r)
    /\ \E step \in ClockStep..1 :
          /\ clock + step <= MaxClock
          /\ clock' = clock + step
          /\ handler' = [handler EXCEPT
                ![h] = Creating(r, NewRequest(handler[h].user, handler[h].board, clock'))]
    /\ UNCHANGED <<requests, decided>>

\* store.create: replace_one upsert of the whole document, 201 to the caller.
RequestAccessCreate(h) ==
    /\ handler[h].pc = "create"
    /\ requests' = [requests EXCEPT ![handler[h].id] = handler[h].request]
    /\ handler' = [handler EXCEPT ![h] = Idle]
    /\ UNCHANGED <<clock, decided>>

\* Mutation: one reference is enough.
AdmissibleWithOneReference(d) ==
    (d.form \/ d.risk) = (DataHandling /\ d.status = "approved")

\* Decisions the admin router passes on: an approval carries both references
\* when data handling is on (one missing is a 422) and none when it is off; a
\* rejection carries none.
Admissible(d) ==
    /\ d.form = d.risk
    /\ d.form = (DataHandling /\ d.status = "approved")

\* Mutation: the reviewer is not recorded.
DecideAnonymously(q, d) ==
    [q EXCEPT !.status = d.status, !.form = d.form, !.risk = d.risk]

\* approve() and reject() on the local copy.  reject() leaves the references
\* as they were read.
Decide(q, d) ==
    LET ref(read, given) == IF d.status = "approved" THEN given ELSE read
    IN [user |-> q.user, board |-> q.board, created_at |-> q.created_at,
        status |-> d.status, reviewer |-> d.reviewer,
        form |-> ref(q.form, d.form), risk |-> ref(q.risk, d.risk)]

\* Mutation: a decided request may be decided again.
GetStored(h, r, d) ==
    /\ SelfService
    /\ handler[h] = Idle
    /\ Admissible(d)
    /\ r \in Stored
    /\ handler' = [handler EXCEPT ![h] = Updating(r, Decide(requests[r], d))]
    /\ UNCHANGED <<requests, clock, decided>>

\* POST /admin/access-requests/{id}/approve or /reject, up to the answer of
\* store.get and the assignments that follow it.  An unknown id (404) or a
\* request that is not pending (409) changes nothing.
GetPending(h, r, d) ==
    /\ SelfService
    /\ handler[h] = Idle
    /\ Admissible(d)
    /\ r \in Stored
    /\ requests[r].status = "pending"
    /\ handler' = [handler EXCEPT ![h] = Updating(r, Decide(requests[r], d))]
    /\ UNCHANGED <<requests, clock, decided>>

\* The decision a document carries.
DecisionOf(q) ==
    [status |-> q.status, reviewer |-> q.reviewer, form |-> q.form, risk |-> q.risk]

\* Mutation: $set of the fields the decision assigns, in place of the document.
UpdateFields(h) ==
    /\ handler[h].pc = "update"
    /\ LET q == handler[h].request
           set(stored, given) == IF q.status = "approved" THEN given ELSE stored
       IN requests' = [requests EXCEPT ![handler[h].id] =
              [@ EXCEPT !.status = q.status, !.reviewer = q.reviewer,
                        !.form = set(@, q.form), !.risk = set(@, q.risk)]]
    /\ decided' = [decided EXCEPT ![handler[h].id] = @ \cup {DecisionOf(handler[h].request)}]
    /\ handler' = [handler EXCEPT ![h] = Idle]
    /\ UNCHANGED clock

\* store.update: replace_one of the whole document by the local copy, whatever
\* the collection holds by now.
Update(h) ==
    /\ handler[h].pc = "update"
    /\ requests' = [requests EXCEPT ![handler[h].id] = handler[h].request]
    /\ decided' = [decided EXCEPT ![handler[h].id] = @ \cup {DecisionOf(handler[h].request)}]
    /\ handler' = [handler EXCEPT ![h] = Idle]
    /\ UNCHANGED clock

\* The call ends at an await before its write: the client went away, Mongo did
\* not answer, or the process stopped.
Abandon(h) ==
    /\ handler[h] # Idle
    /\ handler' = [handler EXCEPT ![h] = Idle]
    /\ UNCHANGED <<requests, clock, decided>>

-----------------------------------------------------------------------------
Init ==
    /\ requests = [r \in RequestIds |-> NoRequest]
    /\ handler = [h \in Handlers |-> Idle]
    /\ clock = 0
    /\ decided = [r \in RequestIds |-> {}]

Next ==
    \E h \in Handlers :
        \/ \E u \in Users, b \in Boards : RequestAccessRead(h, u, b)
        \/ \E r \in RequestIds : RequestAccessBuild(h, r)
        \/ RequestAccessCreate(h)
        \/ \E r \in RequestIds, d \in Decision : GetPending(h, r, d)
        \/ Update(h)
        \/ Abandon(h)

Spec == Init /\ [][Next]_vars

-----------------------------------------------------------------------------
(* Properties.                                                               *)

\* The collection holds documents of the model's shape and handlers hold the
\* locals of the call they serve.
TypeOK ==
    /\ requests \in [RequestIds -> Request \cup {NoRequest}]
    /\ handler \in [Handlers -> HandlerState]
    /\ clock \in 0..MaxClock
    /\ decided \in [RequestIds -> SUBSET Decision]

\* However many reviewers decide a request at the same time, the stored
\* document is one of their decisions as a whole, never the verdict of one with
\* the reviewer or the references of another (update replaces the document);
\* and a document is pending exactly while no decision was written.
DecisionNotTorn ==
    \A r \in Stored :
        IF requests[r].status = "pending"
        THEN decided[r] = {}
        ELSE DecisionOf(requests[r]) \in decided[r]

\* A document that opens a board carries the references of the data-handling
\* policy exactly when the deployment demands them, and a rejected or pending
\* one carries none, also after an approval was overwritten by a rejection.
ReferencesFollowPolicy ==
    \A r \in Stored :
        LET demanded == DataHandling /\ requests[r].status = "approved"
        IN requests[r].form = demanded /\ requests[r].risk = demanded

\* The guard opens a board that is not on the allow list to a user only if a
\* reviewer approved a request filed by that user for that board.
GrantNeedsApproval ==
    \A u \in Users, b \in Boards :
        Permits(u, b) =>
            \/ b \in AllowedBoardIds \/ AllowAll \in AllowedBoardIds
            \/ /\ SelfService
               /\ \E r \in RequestIds :
                    /\ \E d \in decided[r] : d.status = "approved"
                    /\ requests[r] # NoRequest
                    /\ requests[r].user = u /\ requests[r].board = b

\* A stored request never disappears, never changes owner, board or date, and
\* once decided never becomes pending again.
RequestsMoveForward ==
    [][\A r \in Stored :
          /\ r \in Stored'
          /\ requests'[r].user = requests[r].user
          /\ requests'[r].board = requests[r].board
          /\ requests'[r].created_at = requests[r].created_at
          /\ requests[r].status # "pending" => requests'[r].status # "pending"]_vars

-----------------------------------------------------------------------------
(* What the workflow promises when calls do not overlap (Handlers a single   *)
(* handler, ClockStep = 1).  With overlapping calls each of them fails.      *)

\* A user has at most one request for a board that is not rejected: the 409 of
\* AccessRequestAlreadyOpenError ("already has a non-rejected request").
OneOpenRequest ==
    \A u \in Users, b \in Boards :
        \A r, s \in Filed(u, b) :
            requests[r].status # "rejected" /\ requests[s].status # "rejected" => r = s

\* A decision is final: approving or rejecting a request that is no longer
\* pending is refused (AccessRequestAlreadyDecidedError), never stored.
DecisionIsFinal ==
    [][\A r \in Stored : requests[r].status # "pending" => requests'[r] = requests[r]]_vars

\* GET /approvals/boards/{id} reports the latest request and the guard accepts
\* any approved one: the answers agree.
StatusAgreesWithGuard ==
    \A u \in Users, b \in Boards :
        \A r \in Latest(u, b) : (requests[r].status = "approved") <=> IsApproved(u, b)

\* The status of user p[1] for board p[2] is the status of the latest request.
StatusOf(p) ==
    IF Filed(p[1], p[2]) = {} THEN "none"
    ELSE requests[CHOOSE r \in Latest(p[1], p[2]) : TRUE].status

Workflow == INSTANCE AccessWorkflow
    WITH status <- [p \in Users \X Boards |-> StatusOf(p)]

\* Every behaviour of the collection with calls that do not overlap is one of
\* the abstract workflow (request_access, approve and reject each take effect
\* at the single write they end with).
ImplementsWorkflow == Workflow!Spec

=============================================================================
