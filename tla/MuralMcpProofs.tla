--------------------------- MODULE MuralMcpProofs ---------------------------
(* Proofs about MuralMcp for every number of users, boards, tool calls and   *)
(* REST calls.  The service is first shown to run each component as it is    *)
(* specified alone, so that what is proved of the components holds in it;    *)
(* what relates the components is proved on top of that.                     *)
EXTENDS MuralMcp, Sequences, TLAPS

\* The proofs about the components, for the components of the service.
AP == INSTANCE AccessRequestsProofs
    WITH Handlers <- RestHandlers, handler <- access, SelfService <- TRUE,
         DataHandling <- FALSE, clock <- 0, MaxClock <- 0, ClockStep <- 0

PP == INSTANCE PersonalTokensProofs
    WITH tokens <- pats, handler <- verifying, TtlRequests <- {None}, DefaultTtl <- 1,
         MaxTtl <- 1, Throttle <- 0, WriteDelay <- 0, clock <- 0, MaxClock <- 0

LP == INSTANCE LinkingProofs
    WITH tokens <- links, handler <- linking, StateTtl <- MaxClock, Leeway <- 0,
         Lifetime <- 1, SendsExpiry <- TRUE, RefreshPolicy <- "keep", Delay <- 0

BP == INSTANCE BoardLoadProofs
    WITH Handlers <- ToolHandlers, MaxWidget <- 0, PageSize <- 1, Unreadable <- {},
         board <- [b \in Boards |-> {}], granted <- Permitted,
         link <- [u \in Users |-> LinkStatus(u)],
         call <- [h \in ToolHandlers |-> LoadCall(h)]

-----------------------------------------------------------------------------
(* Tool calls.  A call is served for the owner of the token it was presented *)
(* with, from its verification to its answer.                                *)

\* The call of h is being verified, or belongs to the owner of its token.
CallOfOwner(h) ==
    LET s == session[h] IN
    \/ s.pc = "idle"
    \/ /\ s.pc = "verify"
       /\ s.token \in TokenIds /\ s.board \in Boards /\ pats[s.token] # Pat!NoRecord
       /\ verifying[h].pc \in {"read", "touch"} /\ verifying[h].id = s.token
    \/ /\ s \in [pc: {"guard", "token", "load", "done"}, token: TokenIds, board: Boards,
                 user: Users, contacted: BOOLEAN]
       /\ pats[s.token] # Pat!NoRecord /\ s.user = pats[s.token].user_id

Sessions ==
    /\ session = [h \in ToolHandlers |-> session[h]]
    /\ \A h \in ToolHandlers : CallOfOwner(h)

\* Linking has a call l for the request of a tool on behalf of user u.
ToolCall(l, u) ==
    /\ l.pc \in {"refresh", "answered", "store", "call"}
    /\ l.user = u
    /\ l.pc \in {"answered", "store"} => l.for_call
    /\ l.pc = "store" => l.token.expires_at = l.due + 1

\* While Mural is asked for a tool call, Linking serves that call's user.
LoadsOwn ==
    \A h \in ToolHandlers :
        session[h].pc = "load" => ToolCall(linking[h], session[h].user)

\* Which authorities of the call of h were seen in force, by where it stands.
SeenSoFar(h) ==
    LET s == session[h] IN
    /\ \/ s.pc = "verify" /\ verifying[h].pc = "touch"
       \/ s.pc = "verify" /\ verifying[h].pc = "read" /\ verifying[h].record.revoked_at = None
       \/ s.pc \in {"guard", "token", "load", "done"}
       => "token" \in seen[h]
    /\ s.pc \in {"token", "load", "done"} => "grant" \in seen[h]
    /\ s.pc \in {"load", "done"} => "link" \in seen[h]

Authorities ==
    /\ seen \in [ToolHandlers -> SUBSET {"token", "grant", "link"}]
    /\ \A h \in ToolHandlers : SeenSoFar(h)

-----------------------------------------------------------------------------
(* The components in the service.                                            *)

\* The instance that the proofs are about is the one the service is made of.
LEMMA AccessSame ==
    /\ AP!Init <=> Access!Init
    /\ [AP!Next]_(AP!vars) <=> [Access!Next]_(Access!vars)
<1> USE DEF AP!Idle, Access!Idle
<1>1. AP!Init <=> Access!Init
  BY DEF AP!Init, Access!Init
<1>2. UNCHANGED AP!vars <=> UNCHANGED Access!vars
  BY DEF AP!vars, Access!vars
<1>3. AP!Next <=> Access!Next
  BY DEF AP!Next, Access!Next, AP!RequestAccessRead, Access!RequestAccessRead,
         AP!RequestAccessBuild, Access!RequestAccessBuild,
         AP!RequestAccessCreate, Access!RequestAccessCreate,
         AP!GetPending, Access!GetPending, AP!Update, Access!Update,
         AP!Abandon, Access!Abandon, AP!Latest, Access!Latest, AP!Filed, Access!Filed,
         AP!Stored, Access!Stored, AP!Fresh, Access!Fresh, AP!NewRequest, Access!NewRequest,
         AP!Building, Access!Building, AP!Creating, Access!Creating,
         AP!Updating, Access!Updating, AP!Admissible, Access!Admissible,
         AP!Decide, Access!Decide, AP!DecisionOf, Access!DecisionOf,
         AP!Decision, Access!Decision, AP!Verdicts, Access!Verdicts
<1> QED
  BY <1>1, <1>2, <1>3

\* Likewise for the personal tokens.
LEMMA PatSame ==
    /\ PP!Init <=> Pat!Init
    /\ [PP!Next]_(PP!vars) <=> [Pat!Next]_(Pat!vars)
<1> USE DEF PP!NoRecord, Pat!NoRecord, PP!Idle, Pat!Idle, PP!Never, Pat!Never
<1>1. PP!Init <=> Pat!Init
  BY DEF PP!Init, Pat!Init
<1>2. UNCHANGED PP!vars <=> UNCHANGED Pat!vars
  BY DEF PP!vars, Pat!vars
<1>3. PP!Next <=> Pat!Next
  BY DEF PP!Next, Pat!Next, PP!Mint, Pat!Mint, PP!RevokeRead, Pat!RevokeRead,
         PP!VerifyRead, Pat!VerifyRead, PP!VerifyCheck, Pat!VerifyCheck,
         PP!TouchLastUsed, Pat!TouchLastUsed, PP!RevokeWrite, Pat!RevokeWrite,
         PP!Abandon, Pat!Abandon, PP!Tick, Pat!Tick, PP!Step, Pat!Step,
         PP!Days, Pat!Days, PP!Read, Pat!Read, PP!Touching, Pat!Touching,
         PP!Revoking, Pat!Revoking, PP!IsActive, Pat!IsActive, PP!Stale, Pat!Stale,
         PP!Accept, Pat!Accept, PP!Later, Pat!Later
<1> QED
  BY <1>1, <1>2, <1>3

\* Likewise for the links.
LEMMA LinkSame ==
    /\ LP!Init <=> Link!Init
    /\ [LP!Next]_(LP!vars) <=> [Link!Next]_(Link!vars)
<1> USE DEF LP!NoState, Link!NoState, LP!NoToken, Link!NoToken, LP!NoRecord, Link!NoRecord,
            LP!Idle, Link!Idle
<1>1. LP!Init <=> Link!Init
  BY DEF LP!Init, Link!Init
<1>2. UNCHANGED LP!vars <=> UNCHANGED Link!vars
  BY DEF LP!vars, Link!vars
<1>3. LP!Next <=> Link!Next
  BY DEF LP!Next, Link!Next, LP!SweepState, Link!SweepState, LP!Consent, Link!Consent,
         LP!Withdraw, Link!Withdraw, LP!GetAuthorizationUrl, Link!GetAuthorizationUrl,
         LP!GetValidToken, Link!GetValidToken, LP!Disconnect, Link!Disconnect,
         LP!CompleteConnection, Link!CompleteConnection, LP!Codes, Link!Codes,
         LP!MuralExchange, Link!MuralExchange,
         LP!MuralRefresh, Link!MuralRefresh, LP!MuralRefuses, Link!MuralRefuses,
         LP!ReceiveToken, Link!ReceiveToken, LP!StoreTokens, Link!StoreTokens,
         LP!CallMural, Link!CallMural, LP!Unreachable, Link!Unreachable,
         LP!Abandon, Link!Abandon, LP!Tick, Link!Tick, LP!Step, Link!Step,
         LP!InProgress, Link!InProgress, LP!Lose, Link!Lose, LP!Accepted, Link!Accepted,
         LP!IsExpired, Link!IsExpired, LP!ToToken, Link!ToToken, LP!Exchanging, Link!Exchanging,
         LP!Refreshing, Link!Refreshing, LP!Answered, Link!Answered,
         LP!Storing, Link!Storing, LP!Calling, Link!Calling, LP!Gens, Link!Gens
<1> QED
  BY <1>1, <1>2, <1>3

-----------------------------------------------------------------------------
(* Every step of the service is a step of each component, or leaves that     *)
(* component alone.                                                          *)

\* A step of a tool call, of the portal, or of the environment.
LEMMA Steps ==
    ASSUME Next
    PROVE  \/ \E h \in ToolHandlers : ToolStep(h)
           \/ \E p \in RestHandlers : TokenRoute(p) \/ ApprovalRoute(p) \/ LinkingRoute(p)
           \/ Environment
BY DEF Next

\* Approvals are the only steps of AccessRequests.
LEMMA AccessStep == [Next]_vars => [Access!Next]_(Access!vars)
<1> SUFFICES ASSUME [Next]_vars PROVE Access!Next \/ UNCHANGED Access!vars
  OBVIOUS
<1>1. UNCHANGED accessVars => UNCHANGED Access!vars
  BY DEF accessVars, Access!vars
<1>2. CASE UNCHANGED vars
  BY <1>1, <1>2 DEF vars
<1>3. ASSUME NEW h \in ToolHandlers, ToolStep(h) PROVE UNCHANGED accessVars
  BY <1>3 DEF ToolStep, PresentToken, ProvidePrincipal, CheckGuard, GetValidToken, Load,
              Return, AbandonTool
<1>4. ASSUME NEW p \in RestHandlers, TokenRoute(p) \/ LinkingRoute(p)
      PROVE  UNCHANGED accessVars
  BY <1>4 DEF TokenRoute, LinkingRoute
<1>5. ASSUME NEW p \in RestHandlers, ApprovalRoute(p) PROVE Access!Next
  BY <1>5 DEF ApprovalRoute, Access!Next
<1>6. Environment => UNCHANGED accessVars
  BY DEF Environment
<1> QED
  BY <1>1, <1>2, <1>3, <1>4, <1>5, <1>6, Steps

\* Token routes and the verification of tool calls are the steps of PersonalTokens.
LEMMA PatStep == [Next]_vars => [Pat!Next]_(Pat!vars)
<1> SUFFICES ASSUME [Next]_vars PROVE Pat!Next \/ UNCHANGED Pat!vars
  OBVIOUS
<1>1. UNCHANGED patVars => UNCHANGED Pat!vars
  BY DEF patVars, Pat!vars
<1>2. CASE UNCHANGED vars
  BY <1>1, <1>2 DEF vars
<1>3. ASSUME NEW h \in ToolHandlers, ToolStep(h) PROVE Pat!Next \/ UNCHANGED patVars
  <2>1. h \in Handlers
    BY DEF Handlers
  <2> QED
    BY <1>3, <2>1 DEF ToolStep, PresentToken, ProvidePrincipal, CheckGuard, GetValidToken,
              Load, Return, AbandonTool, Pat!Next
<1>4. ASSUME NEW p \in RestHandlers, TokenRoute(p) PROVE Pat!Next
  <2>1. p \in Handlers
    BY DEF Handlers
  <2> QED
    BY <1>4, <2>1 DEF TokenRoute, Pat!Next
<1>5. ASSUME NEW p \in RestHandlers, ApprovalRoute(p) \/ LinkingRoute(p)
      PROVE  UNCHANGED patVars
  BY <1>5 DEF ApprovalRoute, LinkingRoute
<1>6. Environment => UNCHANGED patVars
  BY DEF Environment
<1> QED
  BY <1>1, <1>2, <1>3, <1>4, <1>5, <1>6, Steps

\* Personal tokens are minted, verified and revoked as in PersonalTokens.
LEMMA PatRuns == Spec => Pat!Spec
<1>1. Spec => Pat!Init /\ [][Pat!Next]_(Pat!vars)
  BY PatStep, PTL DEF Spec, Init
<1> QED
  BY <1>1 DEF Pat!Spec

\* The assumptions of the proofs about PersonalTokens hold of the service.
LEMMA PatAssumptions == PP!TokensAssumption
BY MuralMcpAssumption DEF PP!TokensAssumption, Pat!TokensAssumption

\* What PersonalTokens proves of the types is so in the service.
LEMMA PatTyped == Spec => []Pat!TypeOK
<1>1. Spec => PP!Spec
  <2>1. Init => PP!Init
    BY PatSame DEF Init
  <2>2. [Next]_vars => [PP!Next]_(PP!vars)
    BY PatStep, PatSame
  <2> QED
    BY <2>1, <2>2, PTL DEF Spec, PP!Spec
<1>2. PP!Spec => []PP!TypeOK
  BY PatAssumptions, PP!TypeCorrect
<1>3. PP!TypeOK => Pat!TypeOK
  BY DEF PP!TypeOK, Pat!TypeOK, PP!Times, Pat!Times, PP!Record, Pat!Record,
         PP!NoRecord, Pat!NoRecord, PP!HandlerState, Pat!HandlerState, PP!Idle, Pat!Idle
<1> QED
  BY <1>1, <1>2, <1>3, PTL

-----------------------------------------------------------------------------
(* Tool calls are inductive.                                                 *)

\* A handler is of tool calls or of REST calls.
LEMMA HandlersApart ==
    /\ ToolHandlers \subseteq Handlers /\ RestHandlers \subseteq Handlers
    /\ \A h \in ToolHandlers, p \in RestHandlers : h # p
BY MuralMcpAssumption DEF Handlers

\* The document of a token is never removed, and its owner never changes.
LEMMA OwnersStay ==
    ASSUME Pat!TypeOK, [Next]_vars, NEW t \in TokenIds, pats[t] # Pat!NoRecord
    PROVE  /\ pats'[t] # Pat!NoRecord
           /\ pats'[t].user_id = pats[t].user_id
           /\ pats[t].user_id \in Users
<1>1. /\ pats = [x \in TokenIds |-> pats[x]]
      /\ pats[t] \in Pat!Record /\ pats[t].user_id \in Users
  BY DEF Pat!TypeOK, Pat!Record
<1>2. SUFFICES pats'[t].user_id = pats[t].user_id
  BY <1>1, MuralMcpAssumption DEF Link!LinkingAssumption, Pat!NoRecord
<1>3. CASE pats' = pats
  BY <1>3
<1>4. ASSUME NEW x \in TokenIds, NEW u \in Users, Pat!Mint(u, x, None)
      PROVE  pats'[t] = pats[t]
  BY <1>1, <1>4 DEF Pat!Mint
<1>5. ASSUME NEW h \in Handlers, Pat!TouchLastUsed(h)
      PROVE  pats'[t].user_id = pats[t].user_id
  <2>1. pats' = [pats EXCEPT ![verifying[h].id].last_used_at = verifying[h].now]
    BY <1>5 DEF Pat!TouchLastUsed
  <2> QED
    BY <1>1, <2>1 DEF Pat!Record
<1>6. ASSUME NEW h \in Handlers, Pat!RevokeWrite(h)
      PROVE  pats'[t].user_id = pats[t].user_id
  <2>1. pats' = [pats EXCEPT ![verifying[h].id].revoked_at = 0]
    BY <1>6 DEF Pat!RevokeWrite
  <2> QED
    BY <1>1, <2>1 DEF Pat!Record
<1>7. ASSUME \/ \E x \in TokenIds, u \in Users, h \in Handlers : Pat!RevokeRead(h, u, x)
             \/ \E h \in Handlers, x \in TokenIds : Pat!VerifyRead(h, x)
             \/ \E h \in Handlers : Pat!VerifyCheck(h) \/ Pat!Abandon(h)
             \/ Pat!Tick
             \/ UNCHANGED Pat!vars
      PROVE  pats' = pats
  BY <1>7 DEF Pat!RevokeRead, Pat!VerifyRead, Pat!VerifyCheck, Pat!Abandon, Pat!Tick, Pat!vars
<1> QED
  BY <1>3, <1>4, <1>5, <1>6, <1>7, PatStep DEF Pat!Next

\* A step is one of the call of h, or leaves that call and its verification.
LEMMA CallAlone ==
    ASSUME Pat!TypeOK, Sessions, [Next]_vars, NEW h \in ToolHandlers
    PROVE  ToolStep(h) \/ UNCHANGED <<session[h], verifying[h]>>
<1>1. verifying = [x \in Handlers |-> verifying[x]] /\ session = [x \in ToolHandlers |-> session[x]]
  BY DEF Pat!TypeOK, Sessions
<1>2. CASE UNCHANGED <<session, verifying>>
  BY <1>2
<1>3. ASSUME NEW g \in ToolHandlers, ToolStep(g), g # h
      PROVE  UNCHANGED <<session[h], verifying[h]>>
  <2>1. UNCHANGED session \/ \E next : Step(g, next)
    BY <1>3 DEF ToolStep, PresentToken, ProvidePrincipal, CheckGuard, GetValidToken, Load,
                Return, AbandonTool, Follow
  <2>2. session'[h] = session[h]
    BY <1>1, <1>3, <2>1 DEF Step
  <2>3. UNCHANGED verifying \/ \E next : Pat!Step(g, next)
    BY <1>3 DEF ToolStep, PresentToken, ProvidePrincipal, CheckGuard, GetValidToken, Load,
                Return, AbandonTool, patVars, Pat!VerifyRead, Pat!VerifyCheck,
                Pat!TouchLastUsed, Pat!Abandon
  <2>4. verifying'[h] = verifying[h]
    BY <1>1, <1>3, <2>3, HandlersApart DEF Pat!Step
  <2> QED
    BY <2>2, <2>4
<1>4. ASSUME NEW p \in RestHandlers, TokenRoute(p)
      PROVE  UNCHANGED <<session[h], verifying[h]>>
  <2>1. UNCHANGED verifying \/ \E next : Pat!Step(p, next)
    BY <1>4 DEF TokenRoute, Pat!Mint, Pat!RevokeRead, Pat!RevokeWrite, Pat!Abandon
  <2>2. verifying'[h] = verifying[h]
    BY <1>1, <2>1, HandlersApart DEF Pat!Step
  <2> QED
    BY <1>4, <2>2 DEF TokenRoute
<1>5. ASSUME NEW p \in RestHandlers, ApprovalRoute(p) \/ LinkingRoute(p)
      PROVE  UNCHANGED <<session, verifying>>
  BY <1>5 DEF ApprovalRoute, LinkingRoute, patVars
<1>6. Environment => UNCHANGED <<session, verifying>>
  BY DEF Environment, patVars
<1> QED
  BY <1>2, <1>3, <1>4, <1>5, <1>6, Steps DEF vars, patVars

\* Every step keeps the sessions of tool calls.
LEMMA StepSessions ==
    ASSUME Pat!TypeOK, Sessions, [Next]_vars
    PROVE  Sessions'
<1>1. session' = [h \in ToolHandlers |-> session'[h]]
  <2>1. session = [h \in ToolHandlers |-> session[h]]
    BY DEF Sessions
  <2>2. ASSUME NEW h \in ToolHandlers, ToolStep(h)
        PROVE  UNCHANGED session \/ \E next : Step(h, next)
    BY <2>2 DEF ToolStep, PresentToken, ProvidePrincipal, CheckGuard, GetValidToken, Load,
                Return, AbandonTool, Follow
  <2>3. UNCHANGED session \/ \E h \in ToolHandlers : \E next : Step(h, next)
    BY <2>2, Steps DEF vars, TokenRoute, ApprovalRoute, LinkingRoute, Environment
  <2> QED
    BY <2>1, <2>3 DEF Step
<1>2. ASSUME NEW h \in ToolHandlers PROVE CallOfOwner(h)'
  <2> DEFINE s == session[h]
             Active == [pc: {"guard", "token", "load", "done"}, token: TokenIds, board: Boards,
                        user: Users, contacted: BOOLEAN]
  <2>1. CallOfOwner(h) /\ session = [x \in ToolHandlers |-> session[x]]
    BY DEF Sessions
  <2>2. s.pc # "idle" => s.token \in TokenIds /\ pats[s.token] # Pat!NoRecord
    BY <2>1 DEF CallOfOwner
  <2>3. \A next : Step(h, next) => session'[h] = next
    BY <2>1 DEF Step
  <2>4. \A next : Pat!Step(h, next) => verifying'[h] = next
    BY HandlersApart DEF Pat!Step, Pat!TypeOK
  <2>5. ASSUME session'[h].pc = "idle" PROVE CallOfOwner(h)'
    BY <2>5 DEF CallOfOwner
  <2>6. ASSUME UNCHANGED <<session[h], verifying[h]>> PROVE CallOfOwner(h)'
    BY <2>1, <2>2, <2>6, OwnersStay DEF CallOfOwner
  <2>7. ASSUME NEW t \in TokenIds, NEW b \in Boards, PresentToken(h, t, b)
        PROVE  CallOfOwner(h)'
    <3>1. pats[t] # Pat!NoRecord /\ pats' = pats
      BY <2>7 DEF PresentToken, Pat!VerifyRead
    <3>2. session'[h] = [pc |-> "verify", answer |-> s.answer, token |-> t, board |-> b]
      BY <2>3, <2>7 DEF PresentToken
    <3>3. verifying'[h] = Pat!Read(t)
      BY <2>4, <2>7 DEF PresentToken, Pat!VerifyRead
    <3> QED
      BY <3>1, <3>2, <3>3 DEF CallOfOwner, Pat!Read
  <2>8. ASSUME ProvidePrincipal(h) PROVE CallOfOwner(h)'
    <3>1. s.pc = "verify" /\ verifying[h].id = s.token
      BY <2>1, <2>8 DEF ProvidePrincipal, CallOfOwner
    <3>2. CASE verifying'[h].pc = "touch" /\ UNCHANGED session
      <4>1. verifying'[h].id = s.token
        BY <2>4, <2>8, <3>1, <3>2
           DEF ProvidePrincipal, Pat!VerifyCheck, Pat!TouchLastUsed, Pat!Touching, Pat!Idle
      <4> QED
        BY <2>1, <2>2, <3>1, <3>2, <4>1, OwnersStay DEF CallOfOwner
    <3>3. CASE Step(h, [pc |-> "guard", token |-> s.token, board |-> s.board,
                        user |-> pats[s.token].user_id, contacted |-> FALSE])
      <4> DEFINE owner == pats[s.token].user_id
      <4>1. s.token \in TokenIds /\ s.board \in Boards
        BY <2>1, <3>1 DEF CallOfOwner
      <4>2. pats'[s.token] # Pat!NoRecord /\ pats'[s.token].user_id = owner /\ owner \in Users
        BY <2>2, <3>1, <4>1, OwnersStay
      <4>3. session'[h] = [pc |-> "guard", token |-> s.token, board |-> s.board,
                           user |-> owner, contacted |-> FALSE]
        BY <2>3, <3>3
      <4>4. session'[h] \in Active
        BY <4>1, <4>2, <4>3
      <4> QED
        BY <4>2, <4>3, <4>4 DEF CallOfOwner
    <3>4. CASE Step(h, Idle(s.answer))
      BY <2>3, <2>5, <3>4 DEF Idle
    <3> QED
      BY <2>8, <3>2, <3>3, <3>4 DEF ProvidePrincipal
  <2>9. ASSUME s \in Active, session'[h] \in Active,
               session'[h].token = s.token, session'[h].user = s.user
        PROVE  CallOfOwner(h)'
    BY <2>1, <2>2, <2>9, OwnersStay DEF CallOfOwner
  <2>10. ASSUME CheckGuard(h) PROVE CallOfOwner(h)'
    <3>1. s \in Active /\ s.pc = "guard"
      BY <2>1, <2>10 DEF CheckGuard, CallOfOwner
    <3>2. CASE session'[h] = [s EXCEPT !.pc = "token"]
      BY <2>9, <3>1, <3>2
    <3>3. CASE session'[h] = Idle("ForbiddenBoardError")
      BY <2>5, <3>3 DEF Idle
    <3> QED
      BY <2>3, <2>10, <3>2, <3>3 DEF CheckGuard
  <2>11. ASSUME s.pc \in {"token", "load"}, Follow(h) PROVE CallOfOwner(h)'
    <3>1. s \in Active
      BY <2>1, <2>11 DEF CallOfOwner
    <3>2. CASE session'[h] = [s EXCEPT !.pc = "load",
                                       !.contacted = @ \/ linking'[h].pc = "store"]
      BY <2>9, <3>1, <3>2
    <3>3. CASE session'[h] = [s EXCEPT !.pc = "done", !.contacted = TRUE]
      BY <2>9, <3>1, <3>3
    <3>4. CASE session'[h] = Idle(linking'[h].answer)
      BY <2>5, <3>4 DEF Idle
    <3> QED
      BY <2>3, <2>11, <3>2, <3>3, <3>4 DEF Follow
  <2>12. ASSUME Return(h) \/ AbandonTool(h) PROVE CallOfOwner(h)'
    BY <2>3, <2>5, <2>12 DEF Return, AbandonTool, Idle
  <2> QED
    BY <2>6, <2>7, <2>8, <2>10, <2>11, <2>12, CallAlone
       DEF ToolStep, GetValidToken, Load
<1> QED
  BY <1>1, <1>2 DEF Sessions

\* Every tool call belongs to the owner of its token.
LEMMA SessionsKept == Spec => []Sessions
<1>1. Init => Sessions
  BY DEF Init, Sessions, CallOfOwner, Idle
<1>2. Pat!TypeOK /\ Sessions /\ [Next]_vars => Sessions'
  BY StepSessions
<1> QED
  BY <1>1, <1>2, PatTyped, PTL DEF Spec

-----------------------------------------------------------------------------
(* Linking in the service.                                                   *)

\* What is asked of Mural for a call is a step of Linking.
LEMMA AskMuralStep ==
    ASSUME NEW h \in Handlers, AskMural(h)
    PROVE  Link!Next
BY DEF AskMural, Link!Next

\* Linking routes, the loads of tool calls and the environment are the steps of Linking.
LEMMA LinkStep == Sessions /\ [Next]_vars => [Link!Next]_(Link!vars)
<1> SUFFICES ASSUME Sessions, [Next]_vars PROVE Link!Next \/ UNCHANGED Link!vars
  OBVIOUS
<1>1. UNCHANGED linkVars => UNCHANGED Link!vars
  BY DEF linkVars, Link!vars
<1>2. CASE UNCHANGED vars
  BY <1>1, <1>2 DEF vars
<1>3. ASSUME NEW h \in ToolHandlers, ToolStep(h) PROVE Link!Next \/ UNCHANGED linkVars
  <2>1. h \in Handlers
    BY DEF Handlers
  <2>2. ASSUME GetValidToken(h) PROVE Link!Next
    <3>1. session[h].user \in Users
      BY <2>2 DEF GetValidToken, Sessions, CallOfOwner
    <3> QED
      BY <2>1, <2>2, <3>1 DEF GetValidToken, Link!Next
  <2>3. ASSUME Load(h) \/ AbandonTool(h) PROVE Link!Next \/ UNCHANGED linkVars
    BY <2>1, <2>3, AskMuralStep DEF Load, AbandonTool, Link!Next
  <2> QED
    BY <1>3, <2>2, <2>3 DEF ToolStep, PresentToken, ProvidePrincipal, CheckGuard, Return
<1>4. ASSUME NEW p \in RestHandlers, LinkingRoute(p) PROVE Link!Next
  <2>1. p \in Handlers
    BY DEF Handlers
  <2> QED
    BY <1>4, <2>1, AskMuralStep DEF LinkingRoute, Link!Next
<1>5. ASSUME NEW p \in RestHandlers, ApprovalRoute(p) \/ TokenRoute(p)
      PROVE  UNCHANGED linkVars
  BY <1>5 DEF ApprovalRoute, TokenRoute
<1>6. Environment => Link!Next
  BY DEF Environment, Link!Next
<1> QED
  BY <1>1, <1>2, <1>3, <1>4, <1>5, <1>6, Steps

\* The assumptions of the proofs about Linking hold of the service.
LEMMA LinkAssumptions == LP!LinkingAssumption /\ LP!TimingAssumption
BY MuralMcpAssumption
   DEF LP!LinkingAssumption, Link!LinkingAssumption, LP!TimingAssumption, Link!TimingAssumption

\* Every step of the service is a step of Linking: its proofs apply.
LEMMA LinkRuns == Spec => Link!Spec /\ LP!Spec
<1>1. Init => Link!Init /\ LP!Init
  BY LinkSame DEF Init
<1>2. Sessions /\ [Next]_vars => [Link!Next]_(Link!vars) /\ [LP!Next]_(LP!vars)
  BY LinkStep, LinkSame
<1> QED
  BY <1>1, <1>2, SessionsKept, PTL DEF Spec, Link!Spec, LP!Spec

\* Tool calls, the portal's calls and the environment run each of the three
\* components as it is specified alone: whatever holds of a component by itself
\* holds of it in the service.
THEOREM ComponentsRun == Spec => Access!Spec /\ Pat!Spec /\ Link!Spec
<1>1. Spec => Access!Spec
  BY AccessStep, PTL DEF Spec, Init, Access!Spec
<1> QED
  BY <1>1, PatRuns, LinkRuns

\* What Linking proves of the links is so in the service.
LEMMA LinkKept == Spec => [](LP!TypeOK /\ LP!Ownership /\ LP!Ages)
<1>1. LP!Spec => []LP!TypeOK
  BY LinkAssumptions, LP!TypeCorrect
<1>2. LP!Spec => []LP!Ownership
  BY LinkAssumptions, LP!GrantsAreOwned
<1>3. LP!Spec => []LP!Ages
  BY LinkAssumptions, LP!TokensAreTimely
<1> QED
  BY <1>1, <1>2, <1>3, LinkRuns, PTL

-----------------------------------------------------------------------------
(* One person stands behind a tool call.                                     *)

\* The actions of Linking that the service takes for a handler are steps of it.
LEMMA LinkingSteps ==
    ASSUME NEW g \in Handlers
    PROVE  /\ AskMural(g) \/ Link!Abandon(g) => \E next : Link!Step(g, next)
           /\ \A u : Link!GetValidToken(g, u) => \E next : Link!Step(g, next)
           /\ \A u \in Users, s \in StateIds :
                 Link!CompleteConnection(g, u, s) => \E next : Link!Step(g, next)
<1>1. AskMural(g) \/ Link!Abandon(g) => \E next : Link!Step(g, next)
  BY DEF AskMural, Link!MuralExchange, Link!MuralRefresh, Link!MuralRefuses,
         Link!ReceiveToken, Link!StoreTokens, Link!CallMural, Link!Unreachable, Link!Abandon
<1>2. \A u \in Users, s \in StateIds :
         Link!CompleteConnection(g, u, s) => \E next : Link!Step(g, next)
  BY DEF Link!CompleteConnection
<1>3. \A u : Link!GetValidToken(g, u) => \E next : Link!Step(g, next)
  BY DEF Link!GetValidToken
<1> QED
  BY <1>1, <1>2, <1>3

\* A step of one tool call leaves the others and their calls of Mural.
LEMMA ToolsApart ==
    ASSUME LP!TypeOK, Sessions, NEW g \in ToolHandlers, ToolStep(g),
           NEW h \in ToolHandlers \ {g}
    PROVE  UNCHANGED <<session[h], linking[h]>>
<1>1. linking = [x \in Handlers |-> linking[x]] /\ session = [x \in ToolHandlers |-> session[x]]
  BY DEF LP!TypeOK, Sessions
<1>2. UNCHANGED linking \/ \E next : Link!Step(g, next)
  BY LinkingSteps, HandlersApart
     DEF ToolStep, PresentToken, ProvidePrincipal, CheckGuard, GetValidToken, Load,
         Return, AbandonTool, linkVars
<1>3. UNCHANGED session \/ \E next : Step(g, next)
  BY DEF ToolStep, PresentToken, ProvidePrincipal, CheckGuard, GetValidToken, Load,
         Return, AbandonTool, Follow
<1> QED
  BY <1>1, <1>2, <1>3, HandlersApart DEF Link!Step, Step

\* The portal and the environment leave the tool calls and their calls of Mural.
LEMMA RestApart ==
    ASSUME LP!TypeOK, NEW h \in ToolHandlers,
           \/ \E p \in RestHandlers : TokenRoute(p) \/ ApprovalRoute(p) \/ LinkingRoute(p)
           \/ Environment
    PROVE  UNCHANGED <<session, linking[h]>>
<1>1. linking = [x \in Handlers |-> linking[x]]
  BY DEF LP!TypeOK
<1>2. ASSUME NEW p \in RestHandlers, LinkingRoute(p) PROVE UNCHANGED <<session, linking[h]>>
  <2>1. UNCHANGED linking \/ \E next : Link!Step(p, next)
    BY <1>2, LinkingSteps, HandlersApart DEF LinkingRoute, Link!GetAuthorizationUrl
  <2>2. linking'[h] = linking[h]
    BY <1>1, <2>1, HandlersApart DEF Link!Step
  <2> QED
    BY <1>2, <2>2 DEF LinkingRoute
<1>3. ASSUME NEW p \in RestHandlers, TokenRoute(p) \/ ApprovalRoute(p)
      PROVE  UNCHANGED <<session, linking>>
  BY <1>3 DEF TokenRoute, ApprovalRoute, linkVars
<1>4. Environment => UNCHANGED <<session, linking>>
  BY DEF Environment, Link!Consent, Link!Withdraw, Link!SweepState, Link!Tick
<1> QED
  BY <1>2, <1>3, <1>4

\* A step is one of the call of h, or leaves that call and its call of Mural.
LEMMA LinkingAlone ==
    ASSUME LP!TypeOK, Sessions, [Next]_vars, NEW h \in ToolHandlers
    PROVE  ToolStep(h) \/ UNCHANGED <<session[h], linking[h]>>
BY ToolsApart, RestApart, Steps DEF vars, linkVars

\* What a step of Linking for a call of user u may leave it with.
LEMMA LinkingCall ==
    ASSUME LP!TypeOK, NEW h \in ToolHandlers, NEW u \in Users,
           Link!GetValidToken(h, u) \/ (AskMural(h) /\ ToolCall(linking[h], u))
    PROVE  linking'[h].pc = "idle" \/ ToolCall(linking'[h], u)
<1>1. \A next : Link!Step(h, next) => linking'[h] = next
  BY HandlersApart DEF Link!Step, LP!TypeOK
<1> USE DEF Link!Idle, Link!Refreshing, Link!Calling, Link!Answered, Link!Storing, ToolCall
<1>2. CASE Link!GetValidToken(h, u)
  BY <1>1, <1>2 DEF Link!GetValidToken
<1>3. CASE AskMural(h) /\ ToolCall(linking[h], u)
  <2>1. CASE Link!MuralRefresh(h)
    <3>1. \E g, n, sent, given :
             Link!Step(h, Link!Answered(linking[h].user, g, n, sent, given, TRUE))
      BY <2>1 DEF Link!MuralRefresh
    <3> QED
      BY <1>1, <1>3, <3>1
  <2>2. CASE Link!MuralRefuses(h) \/ Link!Unreachable(h) \/ Link!CallMural(h)
    BY <1>1, <2>2 DEF Link!MuralRefuses, Link!Unreachable, Link!CallMural
  <2>3. CASE Link!ReceiveToken(h)
    <3>1. clock \in Int
      BY LinkAssumptions DEF LP!TypeOK, LP!Times, LP!LinkingAssumption
    <3>2. linking'[h] = [pc |-> "store", user |-> u, token |-> Link!ToToken(linking[h]),
                         for_call |-> TRUE, due |-> clock + 0]
      <4>1. linking[h].pc = "answered" /\ linking[h].for_call \in BOOLEAN
        BY <2>3, LinkAssumptions, LP!HandlerLocals, HandlersApart DEF Link!ReceiveToken, Handlers
      <4> QED
        BY <1>1, <1>3, <2>3, <4>1 DEF Link!ReceiveToken
    <3>3. Link!ToToken(linking[h]).expires_at = clock + 1
      BY DEF Link!ToToken
    <3> QED
      BY <3>1, <3>2, <3>3
  <2>4. CASE Link!StoreTokens(h)
    BY <1>1, <1>3, <2>4 DEF Link!StoreTokens
  <2> QED
    BY <1>3, <2>1, <2>2, <2>3, <2>4 DEF AskMural, Link!MuralExchange
<1> QED
  BY <1>2, <1>3

\* Every step keeps LoadsOwn.
LEMMA StepLoadsOwn ==
    ASSUME Pat!TypeOK, LP!TypeOK, Sessions, LoadsOwn, [Next]_vars
    PROVE  LoadsOwn'
<1> SUFFICES ASSUME NEW h \in ToolHandlers, session'[h].pc = "load"
             PROVE  ToolCall(linking'[h], session'[h].user)
  BY DEF LoadsOwn, ToolCall
<1>1. CASE UNCHANGED <<session[h], linking[h]>>
  BY <1>1 DEF LoadsOwn
<1>2. CASE ToolStep(h)
  <2>1. \A next : Step(h, next) => session'[h] = next
    BY DEF Step, Sessions
  <2>2. GetValidToken(h) \/ Load(h)
    <3>1. ASSUME NEW t \in TokenIds, NEW b \in Boards, PresentToken(h, t, b)
          PROVE  session'[h].pc # "load"
      BY <2>1, <3>1 DEF PresentToken
    <3>2. ASSUME ProvidePrincipal(h) PROVE session'[h].pc # "load"
      BY <2>1, <3>2 DEF ProvidePrincipal, Idle
    <3>3. ASSUME CheckGuard(h) PROVE session'[h].pc # "load"
      <4>1. DOMAIN session[h] = {"pc", "token", "board", "user", "contacted"}
        BY <3>3 DEF CheckGuard, Sessions, CallOfOwner
      <4> QED
        BY <2>1, <3>3, <4>1 DEF CheckGuard, Idle
    <3>4. ASSUME Return(h) \/ AbandonTool(h) PROVE session'[h].pc # "load"
      BY <2>1, <3>4 DEF Return, AbandonTool, Idle
    <3> QED
      BY <1>2, <3>1, <3>2, <3>3, <3>4 DEF ToolStep
  <2>3. session[h].pc \in {"token", "load"} /\ Follow(h)
    BY <2>2 DEF GetValidToken, Load
  <2>4. /\ session[h].user \in Users
        /\ session[h] \in [pc: {"guard", "token", "load", "done"}, token: TokenIds,
                           board: Boards, user: Users, contacted: BOOLEAN]
    BY <2>3 DEF Sessions, CallOfOwner
  <2>5. linking'[h].pc # "idle" /\ session'[h].user = session[h].user
    <3>1. linking'[h].pc # "idle"
      <4> SUFFICES ASSUME linking'[h].pc = "idle" PROVE FALSE
        OBVIOUS
      <4>1. CASE session'[h] = [session[h] EXCEPT !.pc = "done", !.contacted = TRUE]
        BY <2>4, <4>1
      <4>2. CASE session'[h] = Idle(linking'[h].answer)
        BY <4>2 DEF Idle
      <4> QED
        BY <2>1, <2>3, <4>1, <4>2 DEF Follow
    <3>2. session'[h] = [session[h] EXCEPT !.pc = "load",
                                           !.contacted = @ \/ linking'[h].pc = "store"]
      BY <2>1, <2>3, <3>1 DEF Follow
    <3> QED
      BY <2>4, <3>1, <3>2
  <2> QED
    BY <2>2, <2>4, <2>5, LinkingCall DEF GetValidToken, Load, LoadsOwn
<1> QED
  BY <1>1, <1>2, LinkingAlone

\* Linking serves the user of the tool call that it has.
LEMMA LoadsOwnKept == Spec => []LoadsOwn
<1>1. Init => LoadsOwn
  BY DEF Init, LoadsOwn, Idle
<1>2. Pat!TypeOK /\ LP!TypeOK /\ Sessions /\ LoadsOwn /\ [Next]_vars => LoadsOwn'
  BY StepLoadsOwn
<1> QED
  BY <1>1, <1>2, PatTyped, LinkKept, SessionsKept, PTL DEF Spec

\* The owner of the presented token is the user the guard is asked about, the
\* one whose Mural token is looked up and stored, and the one whose callback
\* bought the grant it is of, with a state issued to this user, whatever the
\* portal and other calls do meanwhile.  That this user also gave the grant is
\* said only where the code came back beside a state of its giver.
THEOREM OnePrincipal == Spec => []SamePrincipal
<1>1. \A u, g : LP!Own(u, g) <=> Link!Own(u, g)
  BY DEF LP!Own, LP!Completed, LP!AsGiven, Link!Own, Link!Completed, Link!AsGiven
<1>2. Sessions /\ LoadsOwn /\ LP!Ownership => SamePrincipal
  BY <1>1 DEF Sessions, CallOfOwner, LoadsOwn, ToolCall, LP!Ownership, LP!CallsOwn, SamePrincipal,
              Handlers
<1> QED
  BY <1>2, SessionsKept, LoadsOwnKept, LinkKept, PTL

-----------------------------------------------------------------------------
(* Mural is asked with authorities that were in force.                       *)

\* What is seen of a call in a step: what was seen before, and what is in force
\* after it.
LEMMA Observed ==
    ASSUME Next, NEW h \in ToolHandlers, session'[h].pc # "idle",
           NEW u, u = pats'[session'[h].token].user_id
    PROVE  /\ session[h].pc # "idle" => seen[h] \subseteq seen'[h]
           /\ pats'[session'[h].token].revoked_at = None => "token" \in seen'[h]
           /\ links'[u] # Link!NoToken => "link" \in seen'[h]
           /\ \/ Access!EnvAllows(session'[h].board)
              \/ \E r \in RequestIds :
                    /\ requests'[r] # NoRequest
                    /\ requests'[r].user = u /\ requests'[r].board = session'[h].board
                    /\ requests'[r].status = "approved"
              => "grant" \in seen'[h]
<1>1. seen'[h] = (IF session[h].pc = "idle" THEN {} ELSE seen[h]) \cup InForce(h)'
  BY DEF Next, Observe
<1>2. pats'[session'[h].token].revoked_at = None => "token" \in InForce(h)'
  BY DEF InForce
<1>3. links'[u] # Link!NoToken => "link" \in InForce(h)'
  BY DEF InForce, Link!NoToken
<1>4. Granted(pats[session[h].token].user_id, session[h].board)' => "grant" \in InForce(h)'
  BY DEF InForce
<1>5. \/ Access!EnvAllows(session'[h].board)
      \/ \E r \in RequestIds :
            /\ requests'[r] # NoRequest
            /\ requests'[r].user = u /\ requests'[r].board = session'[h].board
            /\ requests'[r].status = "approved"
      => Granted(pats[session[h].token].user_id, session[h].board)'
  BY DEF Granted, Access!EnvAllows, Access!Stored
<1> QED
  BY <1>1, <1>2, <1>3, <1>4, <1>5

\* Every step keeps Authorities.
LEMMA StepAuthorities ==
    ASSUME Pat!TypeOK, LP!TypeOK, Sessions, LoadsOwn, Sessions', Authorities, [Next]_vars
    PROVE  Authorities'
<1>1. CASE UNCHANGED vars
  BY <1>1 DEF vars, patVars, Authorities, SeenSoFar
<1>2. CASE Next
  <2>1. seen' \in [ToolHandlers -> SUBSET {"token", "grant", "link"}]
    <3>1. \A h \in ToolHandlers : InForce(h)' \subseteq {"token", "grant", "link"}
      BY DEF InForce
    <3> QED
      BY <1>2, <3>1 DEF Next, Observe, Authorities
  <2>2. ASSUME NEW h \in ToolHandlers, session'[h].pc # "idle" PROVE SeenSoFar(h)'
    <3> DEFINE s == session[h]
               Serving == [pc: {"guard", "token", "load", "done"}, token: TokenIds,
                           board: Boards, user: Users, contacted: BOOLEAN]
               owner == pats'[session'[h].token].user_id
    <3> HIDE DEF owner
    <3>1. SeenSoFar(h) /\ CallOfOwner(h) /\ CallOfOwner(h)'
      BY DEF Authorities, Sessions
    <3>2. s.pc # "idle" => seen[h] \subseteq seen'[h]
      BY <1>2, <2>2, Observed
    <3>3. \A next : Step(h, next) => session'[h] = next
      BY DEF Step, Sessions
    <3>4. \A next : Pat!Step(h, next) => verifying'[h] = next
      BY HandlersApart DEF Pat!Step, Pat!TypeOK
    <3>5. CASE UNCHANGED <<session[h], verifying[h]>>
      BY <2>2, <3>1, <3>2, <3>5 DEF SeenSoFar
    <3>6. ASSUME NEW t \in TokenIds, NEW b \in Boards, PresentToken(h, t, b)
          PROVE  SeenSoFar(h)'
      <4>1. session'[h] = [pc |-> "verify", answer |-> s.answer, token |-> t, board |-> b]
        BY <3>3, <3>6 DEF PresentToken
      <4>2. verifying'[h] = Pat!Read(t) /\ pats' = pats
        BY <3>4, <3>6 DEF PresentToken, Pat!VerifyRead
      <4>3. pats[t].revoked_at = None => "token" \in seen'[h]
        BY <1>2, <2>2, <4>1, <4>2, Observed
      <4> QED
        BY <4>1, <4>2, <4>3 DEF SeenSoFar, Pat!Read
    <3>7. ASSUME ProvidePrincipal(h) PROVE SeenSoFar(h)'
      <4>1. s.pc = "verify" /\ verifying[h].pc \in {"read", "touch"}
        BY <3>1, <3>7 DEF ProvidePrincipal, CallOfOwner
      <4>2. (verifying[h].pc = "read" => Pat!IsActive(verifying[h].record))
               => "token" \in seen'[h]
        BY <3>1, <3>2, <4>1 DEF SeenSoFar, Pat!IsActive
      <4>3. CASE verifying'[h].pc = "touch" /\ UNCHANGED session
        <5>1. verifying[h].pc = "read" => Pat!IsActive(verifying[h].record)
          <6> SUFFICES ASSUME verifying[h].pc = "read", ~Pat!IsActive(verifying[h].record)
                       PROVE  FALSE
            OBVIOUS
          <6>1. Pat!VerifyCheck(h)
            BY <3>7 DEF ProvidePrincipal, Pat!TouchLastUsed
          <6>2. Pat!Step(h, Pat!Idle)
            BY <6>1 DEF Pat!VerifyCheck
          <6> QED
            BY <3>4, <4>3, <6>2 DEF Pat!Idle
        <5> QED
          BY <4>1, <4>2, <4>3, <5>1 DEF SeenSoFar
      <4>4. CASE /\ verifying[h].pc = "read" => Pat!IsActive(verifying[h].record)
                 /\ Step(h, [pc |-> "guard", token |-> s.token, board |-> s.board,
                             user |-> pats[s.token].user_id, contacted |-> FALSE])
        <5>1. session'[h].pc = "guard"
          BY <3>3, <4>4
        <5> QED
          BY <4>2, <4>4, <5>1 DEF SeenSoFar
      <4>5. CASE Step(h, Idle(s.answer))
        BY <2>2, <3>3, <4>5 DEF Idle
      <4> QED
        BY <3>7, <4>3, <4>4, <4>5 DEF ProvidePrincipal
    <3>8. ASSUME CheckGuard(h) PROVE SeenSoFar(h)'
      <4>1. s \in Serving /\ s.pc = "guard" /\ s.user = pats[s.token].user_id
        BY <3>1, <3>8 DEF CheckGuard, CallOfOwner
      <4>2. /\ Access!Permits(s.user, s.board)
            /\ session'[h] = [s EXCEPT !.pc = "token"]
        BY <2>2, <3>3, <3>8 DEF CheckGuard, Idle
      <4>3. /\ session'[h].pc = "token" /\ session'[h].token = s.token
            /\ session'[h].board = s.board
        BY <4>1, <4>2
      <4>4. pats' = pats /\ requests' = requests
        BY <3>8 DEF CheckGuard, patVars, accessVars
      <4>5. "grant" \in seen'[h]
        BY <1>2, <2>2, <4>1, <4>2, <4>3, <4>4, Observed
           DEF Access!Permits, Access!IsApproved, Access!Filed, Access!Stored
      <4>6. "token" \in seen'[h]
        BY <3>1, <3>2, <4>1 DEF SeenSoFar
      <4> QED
        BY <4>3, <4>5, <4>6 DEF SeenSoFar
    <3>9. ASSUME GetValidToken(h) PROVE SeenSoFar(h)'
      <4>1. s \in Serving /\ s.pc = "token" /\ s.user = pats[s.token].user_id
        BY <3>1, <3>9 DEF GetValidToken, CallOfOwner
      <4>2. linking'[h].pc # "idle" \/ linking'[h].answer # "ok"
        BY <3>9, HandlersApart
           DEF GetValidToken, Link!GetValidToken, Link!Step, LP!TypeOK, Link!Idle,
               Link!Refreshing, Link!Calling
      <4>3. /\ linking'[h].pc # "idle"
            /\ session'[h] = [s EXCEPT !.pc = "load",
                                       !.contacted = @ \/ linking'[h].pc = "store"]
        BY <2>2, <3>3, <3>9, <4>2 DEF GetValidToken, Follow, Idle
      <4>4. session'[h].pc = "load" /\ session'[h].token = s.token
        BY <4>1, <4>3
      <4>5. links[s.user] # Link!NoToken /\ links' = links /\ pats' = pats
        BY <3>9, <4>3, HandlersApart
           DEF GetValidToken, Link!GetValidToken, Link!Step, LP!TypeOK, Link!Idle, patVars
      <4>6. "link" \in seen'[h]
        BY <1>2, <2>2, <4>1, <4>4, <4>5, Observed
      <4>7. {"token", "grant"} \subseteq seen'[h]
        BY <3>1, <3>2, <4>1 DEF SeenSoFar
      <4> QED
        BY <4>4, <4>6, <4>7 DEF SeenSoFar
    <3>10. ASSUME Load(h) PROVE SeenSoFar(h)'
      <4>1. {"token", "grant", "link"} \subseteq seen'[h]
        BY <3>1, <3>2, <3>10 DEF Load, SeenSoFar
      <4>2. session'[h].pc # "verify"
        <5>1. s \in Serving
          BY <3>1, <3>10 DEF Load, CallOfOwner
        <5> QED
          <6>1. CASE session'[h] = [s EXCEPT !.pc = "load",
                                             !.contacted = @ \/ linking'[h].pc = "store"]
            BY <5>1, <6>1
          <6>2. CASE session'[h] = [s EXCEPT !.pc = "done", !.contacted = TRUE]
            BY <5>1, <6>2
          <6>3. CASE session'[h] = Idle(linking'[h].answer)
            BY <6>3 DEF Idle
          <6> QED
            BY <3>3, <3>10, <6>1, <6>2, <6>3 DEF Load, Follow
      <4> QED
        BY <4>1, <4>2 DEF SeenSoFar
    <3>11. ASSUME Return(h) \/ AbandonTool(h) PROVE SeenSoFar(h)'
      BY <2>2, <3>3, <3>11 DEF Return, AbandonTool, Idle
    <3> QED
      BY <3>5, <3>6, <3>7, <3>8, <3>9, <3>10, <3>11, CallAlone DEF ToolStep
  <2>3. ASSUME NEW h \in ToolHandlers, session'[h].pc = "idle" PROVE SeenSoFar(h)'
    BY <2>3 DEF SeenSoFar
  <2> QED
    BY <2>1, <2>2, <2>3 DEF Authorities
<1> QED
  BY <1>1, <1>2

\* What a tool call has passed, it was seen to be authorised for.
LEMMA AuthoritiesKept == Spec => []Authorities
<1>1. Init => Authorities
  BY DEF Init, Authorities, SeenSoFar, Idle
<1>2. /\ Pat!TypeOK /\ LP!TypeOK /\ Sessions /\ LoadsOwn /\ Sessions'
      /\ Authorities /\ [Next]_vars
      => Authorities'
  BY StepAuthorities
<1> QED
  BY <1>1, <1>2, PatTyped, LinkKept, SessionsKept, LoadsOwnKept, PTL DEF Spec

\* Mural is asked on behalf of a tool call only if, in the time of that call, its
\* token was not revoked and its owner was granted the board and was linked.
THEOREM ContactsAreAuthorised == Spec => []ContactIsAuthorised
<1>1. Authorities => ContactIsAuthorised
  BY DEF Authorities, SeenSoFar, ContactIsAuthorised
<1> QED
  BY <1>1, AuthoritiesKept, PTL

-----------------------------------------------------------------------------
(* The service makes the tool calls of BoardLoad.                            *)

\* What Permitted, a link's status and a call as BoardLoad sees it depend on.
LEMMA ViewsDependOn ==
    /\ UNCHANGED requests => UNCHANGED Permitted
    /\ \A u \in Users : UNCHANGED <<links, clock>> => LinkStatus(u)' = LinkStatus(u)
    /\ \A h \in ToolHandlers :
          UNCHANGED <<session[h], linking[h]>> => LoadCall(h)' = LoadCall(h)
<1>1. UNCHANGED requests => UNCHANGED Permitted
  BY DEF Permitted, Access!Permits, Access!EnvAllows, Access!IsApproved, Access!Filed,
         Access!Stored
<1>2. \A u \in Users : UNCHANGED <<links, clock>> => LinkStatus(u)' = LinkStatus(u)
  BY DEF LinkStatus, Link!NoToken, Link!IsExpired
<1>3. \A h \in ToolHandlers :
          UNCHANGED <<session[h], linking[h]>> => LoadCall(h)' = LoadCall(h)
  BY DEF LoadCall, LoadPc
<1> QED
  BY <1>1, <1>2, <1>3

\* A link has one of the statuses of BoardLoad.
LEMMA LinkStatusTyped == \A u \in Users : LinkStatus(u) \in Calls!LinkStatuses
BY DEF LinkStatus, Calls!LinkStatuses

\* A step of the service that changes the call of h only, as BoardLoad sees it.
LEMMA CallsStepOne ==
    ASSUME NEW h \in ToolHandlers, NEW next, LoadCall(h)' = next,
           \A g \in ToolHandlers \ {h} : LoadCall(g)' = LoadCall(g)
    PROVE  Calls!Step(h, next)
BY DEF Calls!Step

\* A step that changes nothing BoardLoad sees is a stutter there.
LEMMA CallsStutter ==
    ASSUME UNCHANGED Permitted, \A u \in Users : LinkStatus(u)' = LinkStatus(u),
           \A g \in ToolHandlers : LoadCall(g)' = LoadCall(g)
    PROVE  UNCHANGED Calls!vars
BY DEF Calls!vars

\* The service starts as BoardLoad does, on boards without widgets.
LEMMA CallsInit == Init => Calls!Init
<1> SUFFICES ASSUME Init PROVE Calls!Init
  OBVIOUS
<1>1. \A h \in ToolHandlers : LoadCall(h) = [pc |-> "idle", answer |-> "none"]
  BY DEF Init, LoadCall, Idle
<1>2. [h \in ToolHandlers |-> LoadCall(h)] = [h \in ToolHandlers |-> Calls!Idle("none")]
  BY <1>1 DEF Calls!Idle
<1>3. [u \in Users |-> LinkStatus(u)] \in [Users -> Calls!LinkStatuses]
  BY LinkStatusTyped
<1>4. Permitted \in SUBSET (Users \X Boards)
  BY DEF Permitted
<1>5. [b \in Boards |-> {}] \in [Boards -> SUBSET Calls!Widgets]
  OBVIOUS
<1> QED
  BY <1>2, <1>3, <1>4, <1>5 DEF Calls!Init

\* The assumptions of the proofs about AccessRequests hold of the service.
LEMMA AccessAssumptions == AP!ConstantsAssumption
BY MuralMcpAssumption
   DEF AP!ConstantsAssumption, Access!ConstantsAssumption, AP!Request, Access!Request,
       AP!Statuses, Access!Statuses

\* A write to the collection of requests changes what the guard says of one user
\* and board at most.
LEMMA GrantsChangeByOne ==
    ASSUME AP!IInv, NEW p \in RestHandlers, ApprovalRoute(p)
    PROVE  \/ UNCHANGED Permitted
           \/ \E u \in Users, b \in Boards :
                 Permitted' = IF <<u, b>> \in Permitted THEN Permitted \ {<<u, b>>}
                              ELSE Permitted \cup {<<u, b>>}
<1>1. CASE UNCHANGED requests
  BY <1>1, ViewsDependOn
<1>2. /\ requests = [r \in RequestIds |-> requests[r]]
      /\ AP!TypeOK /\ AP!CreatingOK /\ AP!UpdatingOK
  BY DEF AP!IInv, AP!TypeOK
<1> DEFINE q == access[p].request
           id == access[p].id
<1>3. ASSUME NEW u \in Users, NEW b \in Boards,
             \A v \in Users, c \in Boards : <<v, c>> # <<u, b>> =>
                Access!Permits(v, c)' = Access!Permits(v, c)
      PROVE  \/ UNCHANGED Permitted
             \/ Permitted' = IF <<u, b>> \in Permitted THEN Permitted \ {<<u, b>>}
                             ELSE Permitted \cup {<<u, b>>}
  <2>1. \A v \in Users, c \in Boards :
           /\ <<v, c>> \in Permitted <=> Access!Permits(v, c)
           /\ <<v, c>> \in Permitted' <=> Access!Permits(v, c)'
    BY DEF Permitted
  <2>2. Permitted \subseteq Users \X Boards /\ Permitted' \subseteq Users \X Boards
    BY DEF Permitted
  <2>3. \A x \in Users \X Boards : x # <<u, b>> => (x \in Permitted' <=> x \in Permitted)
    BY <1>3, <2>1
  <2> HIDE DEF Permitted
  <2> QED
    BY <2>2, <2>3
<1>4. ASSUME access[p].pc \in {"create", "update"}, requests' = [requests EXCEPT ![id] = q],
             id \in RequestIds, q \in Access!Request,
             requests[id] # NoRequest =>
                q.user = requests[id].user /\ q.board = requests[id].board
      PROVE  \A v \in Users, c \in Boards : <<v, c>> # <<q.user, q.board>> =>
                Access!Permits(v, c)' = Access!Permits(v, c)
  <2> SUFFICES ASSUME NEW v \in Users, NEW c \in Boards, <<v, c>> # <<q.user, q.board>>
               PROVE  Access!Permits(v, c)' = Access!Permits(v, c)
    OBVIOUS
  <2>1. \A r \in RequestIds : r \in Access!Filed(v, c)' <=> r \in Access!Filed(v, c)
    BY <1>2, <1>4 DEF Access!Filed, Access!Stored
  <2>2. \A r \in RequestIds : r \in Access!Filed(v, c) => requests'[r] = requests[r]
    BY <1>2, <1>4 DEF Access!Filed, Access!Stored
  <2>3. Access!IsApproved(v, c)' <=> Access!IsApproved(v, c)
    BY <2>1, <2>2 DEF Access!IsApproved, Access!Filed, Access!Stored
  <2> QED
    BY <2>3 DEF Access!Permits, Access!EnvAllows
<1>5. ASSUME Access!RequestAccessCreate(p) \/ Access!Update(p)
      PROVE  /\ access[p].pc \in {"create", "update"} /\ requests' = [requests EXCEPT ![id] = q]
             /\ id \in RequestIds /\ q \in Access!Request
             /\ requests[id] # NoRequest =>
                   q.user = requests[id].user /\ q.board = requests[id].board
  <2>1. access[p].pc \in {"create", "update"} /\ requests' = [requests EXCEPT ![id] = q]
    BY <1>5 DEF Access!RequestAccessCreate, Access!Update
  <2>2. id \in RequestIds /\ q \in AP!Request
    BY <1>2, <2>1, AccessAssumptions, AP!HandlerLocals
  <2>3. AP!Request = Access!Request
    BY DEF AP!Request, Access!Request, AP!Statuses, Access!Statuses
  <2>4. requests[id] # NoRequest => q.user = requests[id].user /\ q.board = requests[id].board
    BY <1>2, <1>5 DEF AP!CreatingOK, AP!UpdatingOK, Access!RequestAccessCreate, Access!Update
  <2> QED
    BY <2>1, <2>2, <2>3, <2>4
<1>6. UNCHANGED requests \/ Access!RequestAccessCreate(p) \/ Access!Update(p)
  BY DEF ApprovalRoute, Access!RequestAccessRead, Access!RequestAccessBuild, Access!GetPending,
         Access!Abandon
<1>7. CASE Access!RequestAccessCreate(p) \/ Access!Update(p)
  <2>1. q.user \in Users /\ q.board \in Boards
    BY <1>5, <1>7 DEF Access!Request
  <2> QED
    BY <1>3, <1>4, <1>5, <1>7, <2>1
<1> QED
  BY <1>1, <1>6, <1>7

\* A refreshed token is fresh when a tool call stores it.
LEMMA StoredIsFresh ==
    ASSUME LP!TypeOK, LP!Ages, NEW h \in ToolHandlers, NEW u \in Users,
           ToolCall(linking[h], u), Link!StoreTokens(h)
    PROVE  /\ LinkStatus(u)' = "fresh"
           /\ \A v \in Users \ {u} : LinkStatus(v)' = LinkStatus(v)
<1> DEFINE t == linking[h].token
<1>1. linking[h].pc = "store" /\ linking[h].user = u /\ t.expires_at = linking[h].due + 1
  BY DEF Link!StoreTokens, ToolCall
<1>2. links' = [links EXCEPT ![u] = t] /\ clock' = clock
  BY <1>1 DEF Link!StoreTokens
<1>3. links = [v \in Users |-> links[v]]
  BY DEF LP!TypeOK
<1>4. clock \in Int /\ linking[h].due \in Int /\ clock <= linking[h].due /\ t \in LP!Token
  <2>1. clock \in Int
    BY LinkAssumptions DEF LP!TypeOK, LP!Times, LP!LinkingAssumption
  <2>2. linking[h].due \in 0..(MaxClock + 0) /\ t \in LP!Token
    BY <1>1, LinkAssumptions, LP!HandlerLocals, HandlersApart
  <2>3. clock <= linking[h].due
    BY <1>1, HandlersApart DEF LP!Ages, LP!CallsTimely
  <2> QED
    BY <2>1, <2>2, <2>3, LinkAssumptions DEF LP!LinkingAssumption
<1>5. t # Link!NoToken
  <2>1. LP!NoToken \notin LP!Token
    BY LinkAssumptions, LP!NoneIsNoDocument
  <2> QED
    BY <1>4, <2>1 DEF LP!NoToken, Link!NoToken
<1>6. ~(t.expires_at # None /\ t.expires_at <= clock + 0)
  BY <1>1, <1>4
<1>7. links'[u] = t /\ \A v \in Users \ {u} : links'[v] = links[v]
  BY <1>2, <1>3
<1> QED
  BY <1>2, <1>5, <1>6, <1>7 DEF LinkStatus, Link!IsExpired, Link!NoToken

\* The principal of an accepted token is a user.
LEMMA PrincipalKnown ==
    ASSUME Pat!TypeOK, Sessions, NEW h \in ToolHandlers, session[h].pc = "verify"
    PROVE  pats[session[h].token].user_id \in Users /\ session[h].board \in Boards
<1>1. /\ session[h].token \in TokenIds /\ session[h].board \in Boards
      /\ pats[session[h].token] # Pat!NoRecord
  BY DEF Sessions, CallOfOwner
<1> QED
  BY <1>1 DEF Pat!TypeOK, Pat!Record

\* A call of BoardLoad that is being served.
CallFields ==
    {"pc", "user", "board", "request", "widgets", "cleared", "contacted", "always", "ever"}

IsCall(c) == c = [f \in CallFields |-> c[f]]

\* Calls of BoardLoad on a board without widgets, before the second page.
Fresh(c) == c.request = Calls!FirstRequest /\ c.widgets = <<>> /\ c.always = {} /\ c.ever = {}

\* Two such calls of one user and board differ in what is written to them.
LEMMA WithPc ==
    ASSUME NEW c, NEW d, IsCall(c), IsCall(d), Fresh(c), Fresh(d), d.user = c.user,
           d.board = c.board, d.cleared = c.cleared, d.contacted = c.contacted
    PROVE  d = [c EXCEPT !.pc = d.pc]
BY ZenonT(30) DEF IsCall, CallFields, Fresh

\* Likewise when the guard has permitted the call.
LEMMA WithClearance ==
    ASSUME NEW c, NEW d, IsCall(c), IsCall(d), Fresh(c), Fresh(d), d.user = c.user,
           d.board = c.board, d.cleared = TRUE, d.contacted = c.contacted
    PROVE  d = [c EXCEPT !.pc = d.pc, !.cleared = TRUE]
BY ZenonT(30) DEF IsCall, CallFields, Fresh

\* Likewise when Mural has been asked.
LEMMA WithContact ==
    ASSUME NEW c, NEW d, IsCall(c), IsCall(d), Fresh(c), Fresh(d), d.user = c.user,
           d.board = c.board, d.cleared = c.cleared, d.contacted = TRUE
    PROVE  d = [c EXCEPT !.pc = d.pc, !.contacted = TRUE]
BY ZenonT(30) DEF IsCall, CallFields, Fresh

\* Likewise when Mural has answered with a page.
LEMMA WithPage ==
    ASSUME NEW c, NEW d, IsCall(c), IsCall(d), Fresh(c), Fresh(d), d.user = c.user,
           d.board = c.board, d.cleared = c.cleared, d.contacted = TRUE
    PROVE  d = [c EXCEPT !.contacted = TRUE, !.widgets = <<>>, !.pc = d.pc, !.request = c.request]
BY ZenonT(30) DEF IsCall, CallFields, Fresh

\* Likewise when nothing is written.
LEMMA WithNothing ==
    ASSUME NEW c, NEW d, IsCall(c), IsCall(d), Fresh(c), Fresh(d), d.user = c.user,
           d.board = c.board, d.cleared = c.cleared, d.contacted = c.contacted, d.pc = c.pc
    PROVE  d = c
BY ZenonT(30) DEF IsCall, CallFields, Fresh

\* What BoardLoad sees of a tool call.
LEMMA CallSeen ==
    ASSUME NEW h \in ToolHandlers
    PROVE  LET s == session[h]
               c == LoadCall(h)
           IN  /\ s.pc \in {"guard", "token", "load", "done"} =>
                     /\ IsCall(c) /\ Fresh(c) /\ c.pc = LoadPc(h)
                     /\ c.user = s.user /\ c.board = s.board
                     /\ c.cleared = (s.pc # "guard") /\ c.contacted = s.contacted
               /\ s.pc \in {"idle", "verify"} => c = Calls!Idle(s.answer)
BY DEF LoadCall, IsCall, CallFields, Fresh, Calls!FirstRequest, Calls!BaseUrl, Calls!Start,
       Calls!NoParam, Calls!Idle

\* What BoardLoad sees of a tool call after a step.
LEMMA CallSeenNext ==
    ASSUME NEW h \in ToolHandlers
    PROVE  LET s == session'[h]
               c == LoadCall(h)'
           IN  /\ s.pc \in {"guard", "token", "load", "done"} =>
                     /\ IsCall(c) /\ Fresh(c) /\ c.pc = LoadPc(h)'
                     /\ c.user = s.user /\ c.board = s.board
                     /\ c.cleared = (s.pc # "guard") /\ c.contacted = s.contacted
               /\ s.pc \in {"idle", "verify"} => c = Calls!Idle(s.answer)
BY DEF LoadCall, IsCall, CallFields, Fresh, Calls!FirstRequest, Calls!BaseUrl, Calls!Start,
       Calls!NoParam, Calls!Idle

\* Where BoardLoad sees a tool call for which Mural is asked.
LEMMA LoadPcServing ==
    ASSUME LoadsOwn, NEW h \in ToolHandlers,
           session[h].pc \in {"guard", "token", "load", "done"}
    PROVE  /\ LoadPc(h) # "idle"
           /\ session[h].pc = "load" =>
                 /\ linking[h].pc \in {"refresh", "answered"} => LoadPc(h) = "refresh"
                 /\ linking[h].pc = "store" => LoadPc(h) = "store"
                 /\ linking[h].pc = "call" => LoadPc(h) = "page"
BY DEF LoadsOwn, ToolCall, LoadPc

\* Of a board without widgets Mural has one page, the last.
LEMMA EmptyPage ==
    ASSUME NEW b \in Boards, NEW cursor
    PROVE  /\ <<>> \in Calls!Pages(b, cursor)
           /\ Calls!NextAfter(b, cursor, <<>>) = Calls!Start
<1>1. Calls!Remaining(b, cursor) = {}
  BY DEF Calls!Remaining
<1>2. Calls!ToSet(<<>>) = {}
  BY DEF Calls!ToSet
<1>3. <<>> \in Calls!SeqOf({}, 1)
  BY DEF Calls!SeqOf
<1> QED
  BY <1>1, <1>2, <1>3 DEF Calls!Pages, Calls!NextAfter

\* A step of a tool call is one of BoardLoad, or none.
LEMMA ToolCallsStep ==
    ASSUME Pat!TypeOK, LP!TypeOK, LP!Ages, Sessions, LoadsOwn,
           NEW h \in ToolHandlers, ToolStep(h)
    PROVE  UNCHANGED Calls!vars \/ Calls!Next
<1> DEFINE s == session[h]
           l == linking[h]
           c == LoadCall(h)
           Serving == [pc: {"guard", "token", "load", "done"}, token: TokenIds, board: Boards,
                       user: Users, contacted: BOOLEAN]
<1>1. \A next : Step(h, next) => session'[h] = next
  BY DEF Step, Sessions
<1>2. \A next : Link!Step(h, next) => linking'[h] = next
  BY HandlersApart DEF Link!Step, LP!TypeOK
<1>3. \A g \in ToolHandlers \ {h} : LoadCall(g)' = LoadCall(g)
  BY ToolsApart, ViewsDependOn
<1>4. \A next : LoadCall(h)' = next => Calls!Step(h, next)
  BY <1>3, CallsStepOne
<1>5. UNCHANGED requests => UNCHANGED Permitted
  BY ViewsDependOn
<1>6. \A u \in Users : UNCHANGED <<links, clock>> => LinkStatus(u)' = LinkStatus(u)
  BY ViewsDependOn
<1>7. UNCHANGED requests
  BY DEF ToolStep, PresentToken, ProvidePrincipal, CheckGuard, GetValidToken, Load, Return,
         AbandonTool, accessVars
<1>8. s.pc \in {"guard", "token", "load", "done"} =>
         /\ s \in Serving
         /\ IsCall(c) /\ Fresh(c) /\ c.pc = LoadPc(h) /\ c.user = s.user /\ c.board = s.board
         /\ c.cleared = (s.pc # "guard") /\ c.contacted = s.contacted
  BY CallSeen DEF Sessions, CallOfOwner
<1>9. \A pc \in {"guard", "token", "done"} :
         /\ s.pc = pc => LoadPc(h) = pc
         /\ session'[h].pc = pc => LoadPc(h)' = pc
  BY DEF LoadPc
<1>10. session'[h].pc \in {"guard", "token", "load", "done"} =>
         /\ IsCall(c') /\ Fresh(c') /\ c'.pc = LoadPc(h)'
         /\ c'.user = session'[h].user /\ c'.board = session'[h].board
         /\ c'.cleared = (session'[h].pc # "guard") /\ c'.contacted = session'[h].contacted
  BY CallSeenNext
<1>11. s.pc \in {"idle", "verify"} => c = Calls!Idle(s.answer)
  BY CallSeen
<1>12. \A a : session'[h] = Idle(a) => c' = Calls!Idle(a)
  BY CallSeenNext DEF Idle
<1>13. ASSUME UNCHANGED <<links, clock>>, LoadCall(h)' = LoadCall(h)
       PROVE  UNCHANGED Calls!vars
  BY <1>3, <1>5, <1>6, <1>7, <1>13, CallsStutter
<1>14. UNCHANGED <<links, clock>> =>
          UNCHANGED <<[b \in Boards |-> {}], Permitted, [u \in Users |-> LinkStatus(u)]>>
  BY <1>5, <1>6, <1>7
<1>15. ASSUME \/ Calls!Proceed(h) \/ Calls!Abandon(h)
              \/ \E u \in Users, b \in Boards : Calls!CallTool(h, u, b)
       PROVE  Calls!Next
  BY <1>15 DEF Calls!Next
<1>16. ASSUME NEW t \in TokenIds, NEW b \in Boards, PresentToken(h, t, b)
       PROVE  UNCHANGED Calls!vars
  <2>1. UNCHANGED <<links, clock>>
    BY <1>16 DEF PresentToken, linkVars
  <2>2. s.pc = "idle" /\ session'[h] = [pc |-> "verify", answer |-> s.answer,
                                        token |-> t, board |-> b]
    BY <1>1, <1>16 DEF PresentToken
  <2>3. LoadCall(h)' = LoadCall(h)
    BY <2>2 DEF LoadCall
  <2> QED
    BY <1>13, <2>1, <2>3
<1>17. ASSUME ProvidePrincipal(h) PROVE UNCHANGED Calls!vars \/ Calls!Next
  <2>1. UNCHANGED <<links, clock>> /\ s.pc = "verify" /\ UNCHANGED linking
    BY <1>17 DEF ProvidePrincipal, linkVars
  <2>2. CASE UNCHANGED session
    BY <1>13, <2>1, <2>2, ViewsDependOn
  <2>3. CASE Step(h, Idle(s.answer))
    <3>1. LoadCall(h)' = LoadCall(h)
      BY <1>1, <2>1, <2>3 DEF LoadCall, Idle
    <3> QED
      BY <1>13, <2>1, <3>1
  <2>4. CASE Step(h, [pc |-> "guard", token |-> s.token, board |-> s.board,
                      user |-> pats[s.token].user_id, contacted |-> FALSE])
    <3> DEFINE u == pats[s.token].user_id
    <3>1. u \in Users /\ s.board \in Boards
      BY <2>1, PrincipalKnown
    <3>2. c.pc = "idle"
      BY <1>11, <2>1 DEF Calls!Idle
    <3>3. /\ IsCall(c') /\ Fresh(c') /\ c'.pc = "guard" /\ c'.user = u /\ c'.board = s.board
          /\ c'.cleared = FALSE /\ c'.contacted = FALSE
      <4>1. session'[h].pc = "guard"
        BY <1>1, <2>4
      <4>2. session'[h].user = u /\ session'[h].board = s.board /\ session'[h].contacted = FALSE
        BY <1>1, <2>4
      <4> QED
        BY <1>9, <1>10, <4>1, <4>2
    <3>4. c' = [pc |-> "guard", user |-> u, board |-> s.board, request |-> Calls!FirstRequest,
                widgets |-> <<>>, cleared |-> FALSE, contacted |-> FALSE,
                always |-> {}, ever |-> {}]
      BY <3>3 DEF IsCall, CallFields, Fresh
    <3> HIDE DEF u
    <3>5. Calls!CallTool(h, u, s.board)
      BY <1>4, <1>14, <2>1, <3>1, <3>2, <3>4 DEF Calls!CallTool
    <3> QED
      BY <1>15, <3>1, <3>5
  <2> QED
    BY <1>17, <2>2, <2>3, <2>4 DEF ProvidePrincipal
<1>18. ASSUME CheckGuard(h) PROVE Calls!CheckGuard(h)
  <2>1. UNCHANGED <<links, clock>> /\ s.pc = "guard"
    BY <1>18 DEF CheckGuard, linkVars
  <2>2. s \in Serving /\ c.pc = "guard"
    BY <1>8, <1>9, <2>1
  <2>3. Access!Permits(c.user, c.board) <=> <<c.user, c.board>> \in Permitted
    BY <1>8, <2>1, <2>2 DEF Permitted
  <2>4. CASE Access!Permits(s.user, s.board)
    <3>1. session'[h] = [s EXCEPT !.pc = "token"]
      BY <1>1, <1>18, <2>4 DEF CheckGuard
    <3>2. /\ IsCall(c') /\ Fresh(c') /\ c'.pc = "token" /\ c'.user = s.user
          /\ c'.board = s.board /\ c'.cleared = TRUE /\ c'.contacted = s.contacted
      BY <1>9, <1>10, <2>2, <3>1
    <3>3. c' = [c EXCEPT !.pc = "token", !.cleared = TRUE]
      <4>1. c' = [c EXCEPT !.pc = c'.pc, !.cleared = TRUE]
        BY <1>8, <2>1, <3>2, WithClearance
      <4> QED
        BY <3>2, <4>1
    <3> QED
      BY <1>4, <1>8, <1>14, <2>1, <2>2, <2>3, <2>4, <3>3 DEF Calls!CheckGuard
  <2>5. CASE ~Access!Permits(s.user, s.board)
    <3>1. c' = Calls!Idle("ForbiddenBoardError")
      BY <1>1, <1>12, <1>18, <2>5 DEF CheckGuard
    <3> QED
      BY <1>4, <1>8, <1>14, <2>1, <2>2, <2>3, <2>5, <3>1 DEF Calls!CheckGuard
  <2> QED
    BY <2>4, <2>5
<1>19. ASSUME GetValidToken(h) PROVE Calls!GetStoredToken(h)
  <2>1. UNCHANGED <<links, clock>> /\ s.pc = "token" /\ Link!GetValidToken(h, s.user) /\ Follow(h)
    BY <1>19 DEF GetValidToken, Link!GetValidToken
  <2>2. s \in Serving /\ c.pc = "token" /\ c.user \in Users /\ c.user = s.user
    BY <1>8, <1>9, <2>1
  <2> DEFINE stored == links[s.user]
             status == LinkStatus(s.user)
  <2>3. [u \in Users |-> LinkStatus(u)][c.user] = status
    BY <2>2
  <2>4. CASE stored = Link!NoToken
    <3>1. linking'[h] = Link!Idle("MuralTokenError")
      BY <1>2, <2>1, <2>4 DEF Link!GetValidToken
    <3>2. session'[h] = Idle("MuralTokenError")
      BY <1>1, <2>1, <3>1 DEF Follow, Link!Idle
    <3>3. status = "none"
      BY <2>4 DEF LinkStatus
    <3>4. c' = Calls!Idle("MuralTokenError")
      BY <1>12, <3>2
    <3> QED
      BY <1>4, <1>14, <2>1, <2>2, <2>3, <3>3, <3>4 DEF Calls!GetStoredToken
  <2>5. CASE stored # Link!NoToken
    <3>1. /\ linking'[h].pc = IF Link!IsExpired(stored) THEN "refresh" ELSE "call"
      BY <1>2, <2>1, <2>5 DEF Link!GetValidToken, Link!Refreshing, Link!Calling
    <3>2. status = IF Link!IsExpired(stored) THEN "stale" ELSE "fresh"
      BY <2>5 DEF LinkStatus
    <3>3. session'[h] = [s EXCEPT !.pc = "load", !.contacted = @ \/ linking'[h].pc = "store"]
      BY <1>1, <2>1, <3>1 DEF Follow
    <3>4. /\ session'[h].pc = "load" /\ session'[h].user = s.user /\ session'[h].board = s.board
          /\ session'[h].contacted = s.contacted
      BY <2>2, <3>1, <3>3
    <3>5. LoadPc(h)' = IF status = "stale" THEN "refresh" ELSE "page"
      BY <3>1, <3>2, <3>4 DEF LoadPc
    <3>6. c' = [c EXCEPT !.pc = c'.pc]
      BY <1>8, <1>10, <2>1, <3>4, WithPc
    <3>7. c' = [c EXCEPT !.pc = IF status = "stale" THEN "refresh" ELSE "page"]
      BY <1>10, <3>4, <3>5, <3>6
    <3>8. status # "none"
      BY <3>2
    <3> QED
      BY <1>4, <1>14, <2>1, <2>2, <2>3, <3>7, <3>8 DEF Calls!GetStoredToken
  <2> QED
    BY <2>4, <2>5
<1>20. ASSUME Return(h) PROVE Calls!Return(h)
  <2>1. UNCHANGED <<links, clock>> /\ s.pc = "done" /\ session'[h] = Idle("ok")
    BY <1>1, <1>20 DEF Return, linkVars
  <2>2. c.pc = "done" /\ c.widgets = <<>>
    BY <1>8, <1>9, <2>1 DEF Fresh
  <2>3. c' = Calls!Idle("ok")
    BY <1>12, <2>1
  <2> QED
    BY <1>4, <1>14, <2>1, <2>2, <2>3 DEF Calls!Return
<1>21. ASSUME AbandonTool(h) PROVE UNCHANGED Calls!vars \/ Calls!Abandon(h)
  <2>1. UNCHANGED <<links, clock>>
    BY <1>21 DEF AbandonTool, linkVars, Link!Abandon
  <2>2. CASE s.pc = "verify"
    <3>1. c' = c
      BY <1>1, <1>11, <1>12, <1>21, <2>2 DEF AbandonTool
    <3> QED
      BY <1>13, <2>1, <3>1
  <2>3. CASE s.pc \in {"guard", "token", "load", "done"}
    <3>1. c' = Calls!Idle("none")
      BY <1>1, <1>12, <1>21, <2>3 DEF AbandonTool
    <3>2. c.pc # "idle"
      BY <1>8, <2>3, LoadPcServing
    <3> QED
      BY <1>4, <1>14, <2>1, <3>1, <3>2 DEF Calls!Abandon
  <2> QED
    BY <1>21, <2>2, <2>3 DEF AbandonTool
<1>22. ASSUME Load(h), l.pc # "store"
       PROVE  UNCHANGED Calls!vars \/ Calls!SendRefresh(h) \/ Calls!RequestFails(h)
                                   \/ Calls!FetchPage(h)
  <2>1. /\ s.pc = "load" /\ AskMural(h) /\ Follow(h) /\ ToolCall(l, s.user)
        /\ s \in Serving /\ s.contacted \in BOOLEAN
    BY <1>8, <1>22 DEF Load, LoadsOwn
  <2>2. l.pc \in {"refresh", "answered", "call"}
    BY <1>22, <2>1 DEF ToolCall
  <2>3. c.pc = IF l.pc = "call" THEN "page" ELSE "refresh"
    BY <1>8, <2>1, <2>2, LoadPcServing
  <2>4. UNCHANGED <<links, clock>>
    BY <1>22, <2>1, <2>2
       DEF AskMural, Link!MuralExchange, Link!MuralRefresh, Link!MuralRefuses,
           Link!ReceiveToken, Link!StoreTokens, Link!CallMural, Link!Unreachable
  <2>5. ASSUME linking'[h].pc # "idle"
        PROVE  /\ session'[h].pc = "load" /\ session'[h].user = s.user
               /\ session'[h].board = s.board
               /\ session'[h].contacted = (s.contacted \/ linking'[h].pc = "store")
    <3>1. session'[h] = [s EXCEPT !.pc = "load", !.contacted = @ \/ linking'[h].pc = "store"]
      BY <1>1, <2>1, <2>5 DEF Follow
    <3> QED
      BY <2>1, <3>1
  <2>6. CASE Link!MuralRefresh(h)
    <3>1. linking'[h].pc = "answered" /\ l.pc = "refresh"
      <4>1. \E u, g, n, sent, given :
               Link!Step(h, Link!Answered(u, g, n, sent, given, TRUE))
        BY <2>6 DEF Link!MuralRefresh
      <4>2. l.pc = "refresh"
        BY <2>6 DEF Link!MuralRefresh
      <4> QED
        BY <1>2, <4>1, <4>2 DEF Link!Answered
    <3>2. /\ session'[h].pc = "load" /\ session'[h].user = s.user
          /\ session'[h].board = s.board /\ session'[h].contacted = s.contacted
      BY <2>1, <2>5, <3>1
    <3>3. c'.pc = c.pc
      BY <1>10, <2>3, <3>1, <3>2 DEF LoadPc
    <3>4. c' = c
      BY <1>8, <1>10, <2>1, <3>2, <3>3, WithNothing
    <3> QED
      BY <1>13, <2>4, <3>4
  <2>7. CASE Link!ReceiveToken(h)
    <3>1. linking'[h].pc = "store" /\ l.pc = "answered"
      BY <1>2, <2>7 DEF Link!ReceiveToken, Link!Storing
    <3>2. /\ session'[h].pc = "load" /\ session'[h].user = s.user
          /\ session'[h].board = s.board /\ session'[h].contacted = TRUE
      BY <2>1, <2>5, <3>1
    <3>3. c'.pc = "store"
      BY <1>10, <3>1, <3>2 DEF LoadPc
    <3>4. c' = [c EXCEPT !.pc = c'.pc, !.contacted = TRUE]
      BY <1>8, <1>10, <2>1, <3>2, WithContact
    <3> QED
      BY <1>4, <1>14, <2>3, <2>4, <3>1, <3>3, <3>4 DEF Calls!SendRefresh
  <2>8. ASSUME NEW a \in {"MuralApiError", "MuralUnavailableError"},
               linking'[h] = Link!Idle(a)
        PROVE  Calls!RequestFails(h)
    <3>1. session'[h] = Idle(a)
      BY <1>1, <2>1, <2>8 DEF Follow, Link!Idle
    <3>2. c' = Calls!Idle(a)
      BY <1>12, <3>1
    <3> QED
      BY <1>4, <1>14, <2>3, <2>4, <3>2 DEF Calls!RequestFails
  <2>9. CASE linking'[h] = Link!Idle("ok") /\ l.pc = "call"
    <3>1. session'[h] = [s EXCEPT !.pc = "done", !.contacted = TRUE]
      BY <1>1, <2>1, <2>9 DEF Follow, Link!Idle
    <3>2. /\ session'[h].pc = "done" /\ session'[h].user = s.user
          /\ session'[h].board = s.board /\ session'[h].contacted = TRUE
      BY <2>1, <3>1
    <3>3. c'.pc = "done"
      BY <1>9, <1>10, <3>2
    <3>4. c' = [c EXCEPT !.contacted = TRUE, !.widgets = <<>>, !.pc = c'.pc,
                         !.request = c.request]
      BY <1>8, <1>10, <2>1, <3>2, WithPage
    <3> DEFINE cursor == Calls!CursorOf(c.request)
    <3>5. /\ c.board \in Boards /\ c.widgets = <<>> /\ c.pc = "page"
          /\ <<>> \in Calls!Pages(c.board, cursor)
          /\ Calls!NextAfter(c.board, cursor, <<>>) = Calls!Start
      <4>1. c.board \in Boards /\ c.widgets = <<>> /\ c.pc = "page"
        BY <1>8, <2>1, <2>3, <2>9 DEF Fresh
      <4> QED
        BY <4>1, EmptyPage
    <3>6. c.widgets \o <<>> = <<>>
      BY <3>5
    <3>7. c' = [c EXCEPT !.contacted = TRUE, !.widgets = @ \o <<>>, !.pc = "done",
                         !.request = @]
      <4> HIDE DEF c
      <4> QED
        BY <3>3, <3>4, <3>6
    <3>8. Calls!Step(h, [c EXCEPT !.contacted = TRUE, !.widgets = @ \o <<>>, !.pc = "done",
                                  !.request = @])
      BY <1>4, <3>7
    <3> QED
      BY <1>14, <2>4, <3>5, <3>8 DEF Calls!FetchPage
  <2>10. \/ Link!MuralRefresh(h) \/ Link!ReceiveToken(h)
         \/ \E a \in {"MuralApiError", "MuralUnavailableError"} : linking'[h] = Link!Idle(a)
         \/ linking'[h] = Link!Idle("ok") /\ l.pc = "call"
    BY <1>2, <1>22, <2>1, <2>2
       DEF AskMural, Link!MuralExchange, Link!MuralRefuses, Link!StoreTokens, Link!CallMural,
           Link!Unreachable
  <2> QED
    BY <2>6, <2>7, <2>8, <2>9, <2>10
<1>23. ASSUME Load(h), l.pc = "store" PROVE Calls!StoreRefreshed(h)
  <2>1. /\ s.pc = "load" /\ AskMural(h) /\ Follow(h) /\ ToolCall(l, s.user)
        /\ s \in Serving /\ s.user \in Users
    BY <1>8, <1>23 DEF Load, LoadsOwn
  <2>2. c.pc = "store" /\ c.user = s.user
    BY <1>8, <1>23, <2>1, LoadPcServing
  <2>3. Link!StoreTokens(h)
    BY <1>23, <2>1
       DEF AskMural, Link!MuralExchange, Link!MuralRefresh, Link!MuralRefuses,
           Link!ReceiveToken, Link!CallMural, Link!Unreachable
  <2>4. linking'[h].pc = "call"
    BY <1>2, <1>23, <2>1, <2>3 DEF Link!StoreTokens, Link!Calling, ToolCall
  <2>5. session'[h] = [s EXCEPT !.pc = "load", !.contacted = @ \/ linking'[h].pc = "store"]
    BY <1>1, <2>1, <2>4 DEF Follow
  <2>6. /\ session'[h].pc = "load" /\ session'[h].user = s.user /\ session'[h].board = s.board
        /\ session'[h].contacted = s.contacted
    BY <2>1, <2>4, <2>5
  <2>7. c'.pc = "page"
    BY <1>10, <2>4, <2>6 DEF LoadPc
  <2>8. c' = [c EXCEPT !.pc = c'.pc]
    BY <1>8, <1>10, <2>1, <2>6, WithPc
  <2>9. [u \in Users |-> LinkStatus(u)]'
           = [[u \in Users |-> LinkStatus(u)] EXCEPT ![s.user] = "fresh"]
    BY <2>1, <2>3, StoredIsFresh
  <2> QED
    BY <1>4, <1>5, <1>7, <2>1, <2>2, <2>7, <2>8, <2>9 DEF Calls!StoreRefreshed
<1> QED
  BY <1>15, <1>16, <1>17, <1>18, <1>19, <1>20, <1>21, <1>22, <1>23
     DEF ToolStep, Calls!Proceed

\* A step of the portal or of the environment changes the grants and the links
\* as BoardLoad lets them change, and no tool call.
LEMMA OtherCallsStep ==
    ASSUME AP!IInv, LP!TypeOK,
           \/ \E p \in RestHandlers : TokenRoute(p) \/ ApprovalRoute(p) \/ LinkingRoute(p)
           \/ Environment
    PROVE  UNCHANGED Calls!vars \/ Calls!Next
<1>1. \A h \in ToolHandlers : LoadCall(h)' = LoadCall(h)
  BY RestApart, ViewsDependOn
<1>2. UNCHANGED [h \in ToolHandlers |-> LoadCall(h)]
  BY <1>1
<1>3. UNCHANGED [b \in Boards |-> {}]
  OBVIOUS
<1>4. CASE \E p \in RestHandlers : TokenRoute(p)
  <2>1. UNCHANGED <<requests, links, clock>>
    BY <1>4 DEF TokenRoute, accessVars, linkVars
  <2> QED
    BY <1>1, <2>1, ViewsDependOn, CallsStutter
<1>5. ASSUME NEW p \in RestHandlers, ApprovalRoute(p)
      PROVE  UNCHANGED Calls!vars \/ Calls!Next
  <2>1. UNCHANGED <<links, clock>>
    BY <1>5 DEF ApprovalRoute, linkVars
  <2>2. \A u \in Users : LinkStatus(u)' = LinkStatus(u)
    BY <2>1, ViewsDependOn
  <2>3. UNCHANGED [u \in Users |-> LinkStatus(u)]
    BY <2>2
  <2>4. CASE UNCHANGED Permitted
    BY <1>1, <2>2, <2>4, CallsStutter
  <2>5. ASSUME NEW u \in Users, NEW b \in Boards,
               Permitted' = IF <<u, b>> \in Permitted THEN Permitted \ {<<u, b>>}
                            ELSE Permitted \cup {<<u, b>>}
        PROVE  Calls!Next
    <3>1. Calls!Regrant(u, b)
      BY <1>2, <1>3, <2>3, <2>5 DEF Calls!Regrant
    <3> QED
      BY <3>1 DEF Calls!Next
  <2> QED
    BY <1>5, <2>4, <2>5, GrantsChangeByOne
<1>6. CASE (\E p \in RestHandlers : LinkingRoute(p)) \/ Environment
  <2>1. UNCHANGED requests
    BY <1>6 DEF LinkingRoute, Environment, accessVars
  <2>2. UNCHANGED Permitted
    BY <2>1, ViewsDependOn
  <2>3. \A u \in Users : LinkStatus(u)' \in Calls!LinkStatuses
    BY LinkStatusTyped DEF LinkStatus, Calls!LinkStatuses
  <2>4. [u \in Users |-> LinkStatus(u)]' \in [Users -> Calls!LinkStatuses]
    BY <2>3
  <2>5. Calls!Relink
    BY <1>2, <1>3, <2>2, <2>4 DEF Calls!Relink
  <2> QED
    BY <2>5 DEF Calls!Next
<1> QED
  BY <1>4, <1>5, <1>6

\* What AccessRequests proves of the collection is so in the service.
LEMMA AccessKept == Spec => []AP!IInv
<1>1. Init => AP!Init
  BY AccessSame DEF Init
<1>2. [Next]_vars => [AP!Next]_(AP!vars)
  BY AccessStep, AccessSame
<1>3. Spec => AP!Spec
  BY <1>1, <1>2, PTL DEF Spec, AP!Spec
<1>4. AP!Spec => []AP!IInv
  BY AccessAssumptions, AP!Invariant
<1> QED
  BY <1>3, <1>4, PTL

\* The service makes the tool calls of BoardLoad: the guard, the token store and
\* Mural serve a call of a tool as _load sees them, whatever the portal and the
\* other calls change between two of its steps.
THEOREM BoardLoadIsImplemented == Spec => ImplementsBoardLoad
<1>1. /\ AP!IInv /\ Pat!TypeOK /\ LP!TypeOK /\ LP!Ages /\ Sessions /\ LoadsOwn
      /\ [Next]_vars
      => [UNCHANGED Calls!vars \/ Calls!Next]_(Calls!vars)
  <2> SUFFICES ASSUME AP!IInv, Pat!TypeOK, LP!TypeOK, LP!Ages, Sessions, LoadsOwn,
                      [Next]_vars
               PROVE  UNCHANGED Calls!vars \/ Calls!Next
    OBVIOUS
  <2>1. CASE UNCHANGED vars
    <3>1. /\ UNCHANGED <<requests, links, clock>>
          /\ \A h \in ToolHandlers : UNCHANGED <<session[h], linking[h]>>
      BY <2>1 DEF vars, accessVars, linkVars
    <3> QED
      BY <3>1, ViewsDependOn, CallsStutter
  <2>2. ASSUME NEW h \in ToolHandlers, ToolStep(h)
        PROVE  UNCHANGED Calls!vars \/ Calls!Next
    BY <2>2, ToolCallsStep
  <2> QED
    BY <2>1, <2>2, OtherCallsStep, Steps
<1> QED
  BY <1>1, CallsInit, AccessKept, PatTyped, LinkKept, SessionsKept, LoadsOwnKept, PTL
     DEF Spec, ImplementsBoardLoad

-----------------------------------------------------------------------------
(* BoardLoad in the service.                                                 *)

\* The tool calls of the service are those that BoardLoadProofs is about.
LEMMA CallsSame ==
    /\ BP!Init <=> Calls!Init
    /\ [BP!Next]_(BP!vars) <=> [UNCHANGED Calls!vars \/ Calls!Next]_(Calls!vars)
<1> USE DEF BP!Idle, Calls!Idle, BP!Step, Calls!Step, BP!Start, Calls!Start,
            BP!NoParam, Calls!NoParam, BP!Widgets, Calls!Widgets,
            BP!BaseUrl, Calls!BaseUrl, BP!LinkStatuses, Calls!LinkStatuses
<1>1. BP!Init <=> Calls!Init
  BY DEF BP!Init, Calls!Init
<1>2. UNCHANGED BP!vars <=> UNCHANGED Calls!vars
  BY DEF BP!vars, Calls!vars
<1>3. ASSUME NEW h
      PROVE  /\ BP!CheckGuard(h) <=> Calls!CheckGuard(h)
             /\ BP!GetStoredToken(h) <=> Calls!GetStoredToken(h)
             /\ BP!SendRefresh(h) <=> Calls!SendRefresh(h)
             /\ BP!StoreRefreshed(h) <=> Calls!StoreRefreshed(h)
             /\ BP!RequestFails(h) <=> Calls!RequestFails(h)
             /\ BP!Return(h) <=> Calls!Return(h)
             /\ BP!Abandon(h) <=> Calls!Abandon(h)
  BY DEF BP!CheckGuard, Calls!CheckGuard, BP!GetStoredToken, Calls!GetStoredToken,
         BP!SendRefresh, Calls!SendRefresh, BP!StoreRefreshed, Calls!StoreRefreshed,
         BP!RequestFails, Calls!RequestFails, BP!Return, Calls!Return, BP!Abandon, Calls!Abandon
<1>4. ASSUME NEW h PROVE BP!FetchPage(h) <=> Calls!FetchPage(h)
  BY DEF BP!FetchPage, Calls!FetchPage, BP!CursorOf, Calls!CursorOf, BP!Pages, Calls!Pages,
         BP!Remaining, Calls!Remaining, BP!NextAfter, Calls!NextAfter, BP!SeqOf, Calls!SeqOf,
         BP!ToSet, Calls!ToSet, BP!Last, Calls!Last, BP!ResolveNext, Calls!ResolveNext,
         BP!NextUrl, Calls!NextUrl
<1>5. ASSUME NEW h, NEW u, NEW b PROVE BP!CallTool(h, u, b) <=> Calls!CallTool(h, u, b)
  BY DEF BP!CallTool, Calls!CallTool, BP!FirstRequest, Calls!FirstRequest
<1>6. ASSUME NEW b, NEW w PROVE BP!Edit(b, w) <=> Calls!Edit(b, w)
  BY DEF BP!Edit, Calls!Edit
<1>7. ASSUME NEW u, NEW b PROVE BP!Regrant(u, b) <=> Calls!Regrant(u, b)
  BY DEF BP!Regrant, Calls!Regrant
<1>8. BP!Relink <=> Calls!Relink
  BY DEF BP!Relink, Calls!Relink
<1>9. BP!Next <=> Calls!Next
  BY <1>3, <1>4, <1>5, <1>6, <1>7, <1>8 DEF BP!Next, Calls!Next, BP!Proceed, Calls!Proceed
<1> QED
  BY <1>1, <1>2, <1>9

\* What is proved of a call's guard in BoardLoad, where grants and links change as they
\* like, holds in the service: nothing reaches Mural on behalf of a call, not even the
\* refresh of a token, that the guard has not cleared.
THEOREM GuardComesFirst == Spec => []Calls!GuardBeforeContact
<1>1. BP!BoardAssumption
  BY DEF BP!BoardAssumption
<1>2. Calls!Init => BP!IInv
  BY <1>1, BP!InitIInv, CallsSame
<1>3. BP!IInv /\ [UNCHANGED Calls!vars \/ Calls!Next]_(Calls!vars) => BP!IInv'
  BY <1>1, BP!StepIInv, CallsSame
<1>4. BP!IInv => Calls!GuardBeforeContact
  BY DEF BP!IInv, BP!Guarded, Calls!GuardBeforeContact
<1> QED
  BY <1>2, <1>3, <1>4, BoardLoadIsImplemented, PTL DEF ImplementsBoardLoad

=============================================================================
