------------------------------ MODULE MuralMcp ------------------------------
(* The service as a whole: tool calls on /mcp and the portal's REST calls,   *)
(* over the three collections they share.  A tool call goes through all the  *)
(* components: its personal token makes the principal (PersonalTokens), the  *)
(* guard looks at that principal's requests (AccessRequests), and Mural is   *)
(* asked with that principal's link (Linking); meanwhile the portal revokes, *)
(* decides and links.  Models the tools, the routers and the providers that  *)
(* wire them; the steps are those of the components.                         *)
(*                                                                           *)
(* REST runs in its default mode, where the portal asserts the user of each  *)
(* call; the other mode only asks for a token first.  A board has one page.  *)
EXTENDS Integers, FiniteSets

CONSTANTS
    Users,           \* principals
    Boards,          \* Mural board ids
    Reviewers,       \* principals that decide requests
    RequestIds,      \* supply of board access requests
    TokenIds,        \* supply of personal tokens
    StateIds,        \* supply of OAuth states
    Grants,          \* supply of consents at Mural
    ToolHandlers,    \* tool calls in progress at a time
    RestHandlers,    \* REST calls in progress at a time
    AllowedBoardIds, \* ALLOWED_BOARD_IDS
    AllowAll,        \* the "*" of ALLOWED_BOARD_IDS
    MaxClock,        \* bound: the clock, in lifetimes of an access token
    MaxGen,          \* bound: refreshes of one grant
    NoRequest,       \* no document
    None             \* null

Handlers == ToolHandlers \cup RestHandlers

VARIABLES
    requests, access, decided,                        \* of AccessRequests
    pats, verifying, first_revoked, last_accepted,    \* of PersonalTokens
    clock, states, links, linking, mural, issued_to, exchanged,
    consent, bought, lost, overlapped,                \* of Linking
    session,   \* tool handler -> where its tool call stands, and its locals
    seen       \* history: which of a call's authorities were in force in its time

accessVars == <<requests, access, decided>>
patVars == <<pats, verifying, first_revoked, last_accepted>>
linkVars == <<clock, states, links, linking, mural, issued_to, exchanged, consent, bought,
              lost, overlapped>>
vars == <<accessVars, patVars, linkVars, session, seen>>

\* Access requests are all of one date, and personal tokens do not expire, in
\* the minutes that are looked at.
Access == INSTANCE AccessRequests
    WITH Handlers <- RestHandlers, handler <- access, SelfService <- TRUE,
         DataHandling <- FALSE, clock <- 0, MaxClock <- 0, ClockStep <- 0

Pat == INSTANCE PersonalTokens
    WITH tokens <- pats, handler <- verifying, TtlRequests <- {None}, DefaultTtl <- 1,
         MaxTtl <- 1, Throttle <- 0, WriteDelay <- 0, clock <- 0, MaxClock <- 0

\* Answers are quick, against the lifetime of an access token.
Link == INSTANCE Linking
    WITH tokens <- links, handler <- linking, StateTtl <- MaxClock, Leeway <- 0,
         Lifetime <- 1, SendsExpiry <- TRUE, RefreshPolicy <- "keep", Delay <- 0

ASSUME MuralMcpAssumption ==
    /\ ToolHandlers \cap RestHandlers = {}
    /\ Access!ConstantsAssumption
    /\ Pat!TokensAssumption
    /\ Link!LinkingAssumption /\ Link!TimingAssumption

-----------------------------------------------------------------------------
(* Tool calls.  pc: verify (the personal token is looked up), guard, token   *)
(* (Mural's token is to be looked up), load (Linking has the call), done.    *)

Idle(answer) == [pc |-> "idle", answer |-> answer]

Step(h, next) == session' = [session EXCEPT ![h] = next]

\* A request for a board arrives with a personal token, and its document is read.
PresentToken(h, t, b) ==
    /\ session[h].pc = "idle"
    /\ Pat!VerifyRead(h, t)
    /\ Step(h, [pc |-> "verify", answer |-> session[h].answer, token |-> t, board |-> b])
    /\ UNCHANGED <<accessVars, linkVars>>

\* Mutation: the principal is that of some user, not of the token.
ProvideAnyPrincipal(h) ==
    /\ session[h].pc = "verify"
    /\ Pat!VerifyCheck(h) \/ Pat!TouchLastUsed(h)
    /\ LET s == session[h]
           accepted == verifying[h].pc = "read" => Pat!IsActive(verifying[h].record)
       IN \/ verifying'[h].pc = "touch" /\ UNCHANGED session
          \/ /\ verifying'[h].pc = "idle" /\ accepted
             /\ \E u \in Users :
                   Step(h, [pc |-> "guard", token |-> s.token, board |-> s.board,
                            user |-> u, contacted |-> FALSE])
          \/ verifying'[h].pc = "idle" /\ ~accepted /\ Step(h, Idle(s.answer))
    /\ UNCHANGED <<accessVars, linkVars>>

\* The transport accepts the token, or answers 401; the tool's principal is made
\* from the claims of the token.
ProvidePrincipal(h) ==
    /\ session[h].pc = "verify"
    /\ Pat!VerifyCheck(h) \/ Pat!TouchLastUsed(h)
    /\ LET s == session[h]
           accepted == verifying[h].pc = "read" => Pat!IsActive(verifying[h].record)
       IN \/ verifying'[h].pc = "touch" /\ UNCHANGED session
          \/ /\ verifying'[h].pc = "idle" /\ accepted
             /\ Step(h, [pc |-> "guard", token |-> s.token, board |-> s.board,
                         user |-> pats[s.token].user_id, contacted |-> FALSE])
          \/ verifying'[h].pc = "idle" /\ ~accepted /\ Step(h, Idle(s.answer))
    /\ UNCHANGED <<accessVars, linkVars>>

\* guard.check
CheckGuard(h) ==
    /\ session[h].pc = "guard"
    /\ Step(h, IF Access!Permits(session[h].user, session[h].board)
               THEN [session[h] EXCEPT !.pc = "token"] ELSE Idle("ForbiddenBoardError"))
    /\ UNCHANGED <<accessVars, patVars, linkVars>>

\* Mutation: a failure of Mural's is taken for an empty board.
FollowSwallowing(h) ==
    LET step == linking'[h] IN
    Step(h, IF step.pc # "idle"
            THEN [session[h] EXCEPT !.pc = "load", !.contacted = @ \/ step.pc = "store"]
            ELSE IF step.answer # "MuralTokenError"
            THEN [session[h] EXCEPT !.pc = "done", !.contacted = TRUE]
            ELSE Idle(step.answer))

\* What _load makes of a step of the OAuth client or of Mural on its behalf.
Follow(h) ==
    LET step == linking'[h] IN
    Step(h, IF step.pc # "idle"
            THEN [session[h] EXCEPT !.pc = "load", !.contacted = @ \/ step.pc = "store"]
            ELSE IF step.answer = "ok"
            THEN [session[h] EXCEPT !.pc = "done", !.contacted = TRUE]
            ELSE Idle(step.answer))

GetValidToken(h) ==
    /\ session[h].pc = "token"
    /\ Link!GetValidToken(h, session[h].user)
    /\ Follow(h)
    /\ UNCHANGED <<accessVars, patVars>>

\* Mural's token endpoint or its API, and the client's half of it.
AskMural(h) ==
    \/ Link!MuralExchange(h) \/ Link!MuralRefresh(h) \/ Link!MuralRefuses(h)
    \/ Link!ReceiveToken(h) \/ Link!StoreTokens(h) \/ Link!CallMural(h)
    \/ Link!Unreachable(h)

\* The refresh, if one is needed, and the request for the widgets.
Load(h) ==
    /\ session[h].pc = "load"
    /\ AskMural(h)
    /\ Follow(h)
    /\ UNCHANGED <<accessVars, patVars>>

Return(h) ==
    /\ session[h].pc = "done"
    /\ Step(h, Idle("ok"))
    /\ UNCHANGED <<accessVars, patVars, linkVars>>

\* The call ends unanswered at an await, wherever it stands.
AbandonTool(h) ==
    /\ session[h].pc # "idle"
    /\ \/ session[h].pc = "verify" /\ Pat!Abandon(h) /\ UNCHANGED linkVars
       \/ session[h].pc = "load" /\ Link!Abandon(h) /\ UNCHANGED patVars
       \/ session[h].pc \in {"guard", "token", "done"} /\ UNCHANGED <<patVars, linkVars>>
    /\ Step(h, Idle(IF session[h].pc = "verify" THEN session[h].answer ELSE "none"))
    /\ UNCHANGED accessVars

ToolStep(h) ==
    \/ \E t \in TokenIds, b \in Boards : PresentToken(h, t, b)
    \/ ProvidePrincipal(h) \/ CheckGuard(h) \/ GetValidToken(h) \/ Load(h)
    \/ Return(h) \/ AbandonTool(h)

-----------------------------------------------------------------------------
(* REST calls, for whichever user the portal asserts.                        *)

Free(p) ==
    access[p].pc = "idle" /\ verifying[p].pc = "idle" /\ linking[p].pc = "idle"

\* /tokens
TokenRoute(p) ==
    /\ \/ Free(p) /\ \E t \in TokenIds, u \in Users : Pat!Mint(u, t, None) \/ Pat!RevokeRead(p, u, t)
       \/ Pat!RevokeWrite(p) \/ Pat!Abandon(p)
    /\ UNCHANGED <<accessVars, linkVars, session>>

\* /approvals and /admin
ApprovalRoute(p) ==
    /\ \/ /\ Free(p)
          /\ \/ \E u \in Users, b \in Boards : Access!RequestAccessRead(p, u, b)
             \/ \E r \in RequestIds, d \in Access!Decision : Access!GetPending(p, r, d)
       \/ \E r \in RequestIds : Access!RequestAccessBuild(p, r)
       \/ Access!RequestAccessCreate(p) \/ Access!Update(p) \/ Access!Abandon(p)
    /\ UNCHANGED <<patVars, linkVars, session>>

\* /linking: authorization-url, callback and test-connection.
LinkingRoute(p) ==
    /\ \/ /\ Free(p)
          /\ \E u \in Users :
                \/ Link!GetValidToken(p, u)
                \/ \E s \in StateIds : Link!GetAuthorizationUrl(u, s) \/ Link!CompleteConnection(p, u, s)
       \/ AskMural(p) \/ Link!Abandon(p)
    /\ UNCHANGED <<accessVars, patVars, session>>

\* Mural's side, the TTL index, and time.
Environment ==
    /\ \/ \E g \in Grants : Link!Withdraw(g) \/ \E u \in Users : Link!Consent(u, g)
       \/ \E s \in StateIds : Link!SweepState(s)
       \/ Link!Tick
    /\ UNCHANGED <<accessVars, patVars, session>>

-----------------------------------------------------------------------------
Init ==
    /\ Access!Init
    /\ Pat!Init
    /\ Link!Init
    /\ session = [h \in ToolHandlers |-> Idle("none")]
    /\ seen = [h \in ToolHandlers |-> {}]

\* A reviewer's approval of u for board b is on record, or the allow list has b.
Granted(u, b) ==
    \/ Access!EnvAllows(b)
    \/ \E r \in Access!Stored :
          LET q == requests[r] IN q.user = u /\ q.board = b /\ q.status = "approved"

\* The authorities of the call of handler h that are in force now: its token has
\* not been revoked, and the token's owner is granted the board and is linked.
InForce(h) ==
    IF session[h].pc = "idle" THEN {}
    ELSE LET owner == pats[session[h].token].user_id
         IN {a \in {"token", "grant", "link"} :
               \/ a = "token" /\ pats[session[h].token].revoked_at = None
               \/ a = "grant" /\ Granted(owner, session[h].board)
               \/ a = "link" /\ links[owner] # Link!NoToken}

Observe ==
    seen' = [h \in ToolHandlers |->
        IF session'[h].pc = "idle" THEN {}
        ELSE (IF session[h].pc = "idle" THEN {} ELSE seen[h]) \cup InForce(h)']

Next ==
    /\ \/ \E h \in ToolHandlers : ToolStep(h)
       \/ \E p \in RestHandlers : TokenRoute(p) \/ ApprovalRoute(p) \/ LinkingRoute(p)
       \/ Environment
    /\ Observe

Spec == Init /\ [][Next]_vars

-----------------------------------------------------------------------------
(* Properties.                                                               *)

\* Mural is asked on behalf of a tool call only if, at some time of the call, its
\* personal token was not revoked; at some time its owner was granted the board;
\* and at some time its owner was linked: whatever the portal changes meanwhile,
\* no authority that ended before the call began serves it.
ContactIsAuthorised ==
    \A h \in ToolHandlers :
        session[h].pc \in {"load", "done"} => seen[h] = {"token", "grant", "link"}

\* One user is behind all of a tool call: the owner of the personal token is the
\* user the guard is asked about, the user Mural's token is looked up and stored
\* for, and the user whose callback bought the grant that token is of with a state
\* issued to this user; and the one who gave it, if the code came back as given.
SamePrincipal ==
    \A h \in ToolHandlers :
        LET GrantOf(l) == IF l.pc = "answered" THEN l.grant ELSE l.token.grant IN
        /\ session[h].pc \in {"guard", "token", "load", "done"} =>
              session[h].user = pats[session[h].token].user_id
        /\ session[h].pc = "load" =>
              /\ linking[h].user = pats[session[h].token].user_id
              /\ Link!Own(linking[h].user, GrantOf(linking[h]))

-----------------------------------------------------------------------------
(* The tool calls of BoardLoad, as MuralMcp makes them.                      *)

\* The guard and the token store as a tool call sees them.
Permitted == {p \in Users \X Boards : Access!Permits(p[1], p[2])}

LinkStatus(u) ==
    IF links[u] = Link!NoToken THEN "none"
    ELSE IF Link!IsExpired(links[u]) THEN "stale" ELSE "fresh"

\* Where a tool call stands in BoardLoad.  A refresh counts as sent once it is
\* answered.
LoadPc(h) ==
    IF session[h].pc # "load" THEN session[h].pc
    ELSE CASE linking[h].pc \in {"refresh", "answered"} -> "refresh"
           [] linking[h].pc = "store" -> "store"
           [] linking[h].pc = "call" -> "page"

LoadCall(h) ==
    LET s == session[h] IN
    IF s.pc \in {"idle", "verify"} THEN [pc |-> "idle", answer |-> s.answer]
    ELSE [pc |-> LoadPc(h), user |-> s.user, board |-> s.board,
          request |-> [url |-> [url |-> "base", at |-> 0], next |-> 0], widgets |-> <<>>,
          cleared |-> s.pc # "guard", contacted |-> s.contacted, always |-> {}, ever |-> {}]

Calls == INSTANCE BoardLoad
    WITH Handlers <- ToolHandlers, MaxWidget <- 0, PageSize <- 1, Unreadable <- {},
         board <- [b \in Boards |-> {}], granted <- Permitted,
         link <- [u \in Users |-> LinkStatus(u)],
         call <- [h \in ToolHandlers |-> LoadCall(h)]

\* The parts put together make the tool calls of BoardLoad, whose guard and
\* token store are sets that change freely: what the routers, the services and
\* Mural do to them, and each step of a call on them, is a step of BoardLoad.
\* (TLC tries the commonest disjunct, a stutter, first.)
ImplementsBoardLoad ==
    Calls!Init /\ [][UNCHANGED Calls!vars \/ Calls!Next]_(Calls!vars)

=============================================================================
