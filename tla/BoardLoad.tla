----------------------------- MODULE BoardLoad ------------------------------
(* A tool call that reads a board: guard, access token, then the board's     *)
(* widgets page by page, while the board is edited, grants change and tokens *)
(* expire.  Models BoardService._load with the MCP tools around it; Mural's  *)
(* paged widgets endpoint is external, and what the guard and the token      *)
(* store answer is reduced to what _load sees of them (AccessRequests and    *)
(* Linking model how they come about).                                       *)
EXTENDS Integers, Sequences, SequencesExt

CONSTANTS
    Users,      \* principals
    Boards,     \* Mural board ids
    Handlers,   \* tool calls in progress at a time
    MaxWidget,  \* bound: widgets of a board are 1..MaxWidget, in Mural's order
    PageSize,   \* widgets on a page
    Unreadable  \* widgets that match no schema

Widgets == 1..MaxWidget

ASSUME BoardAssumption ==
    MaxWidget \in Nat /\ PageSize \in Nat \ {0} /\ Unreadable \subseteq Widgets

VARIABLES
    board,    \* external: board -> the widgets on it now
    granted,  \* the pairs the guard permits now
    link,     \* user -> what the token store has, "stale" if it needs a refresh
    call      \* handler -> where its tool call stands, and its locals

vars == <<board, granted, link, call>>

-----------------------------------------------------------------------------
(* Requests to Mural.  A page is asked for by a URL and an optional next     *)
(* parameter; the bare URL asks for the first page.  Mural hands out the     *)
(* place to go on from as a URL of its own or as a token for the parameter.  *)

Start == 0
BaseUrl == [url |-> "base", at |-> Start]
NextUrl(at) == [url |-> "next", at |-> at]
NoParam == 0

Request == [url: [url: {"base", "next"}, at: 0..MaxWidget], next: 0..MaxWidget]

\* External: the widget a request goes on after.
CursorOf(request) == IF request.next # NoParam THEN request.next ELSE request.url.at

\* External: what is left after a cursor, the pages Mural may answer with (the
\* next widgets in its order, not more than PageSize, none only if none is left)
\* and where it lets the caller go on (Start: no further page).
Remaining(b, cursor) == {w \in board[b] : w > cursor}
Pages(b, cursor) ==
    LET rest == Remaining(b, cursor) IN
    {page \in SeqOf(rest, PageSize) :
        /\ rest # {} => page # <<>>
        /\ \A i, j \in DOMAIN page : i < j => page[i] < page[j]
        /\ \A w \in rest : \A i \in DOMAIN page : w <= page[i] => w \in ToSet(page)}
NextAfter(b, cursor, page) ==
    IF ToSet(page) # Remaining(b, cursor) THEN Last(page) ELSE Start

\* _resolve_next: a URL is followed as it is, a token becomes the parameter.
\* form is how Mural writes where to go on.
ResolveNext(at, form) ==
    IF form = "url" THEN [url |-> NextUrl(at), next |-> NoParam]
    ELSE [url |-> BaseUrl, next |-> at]

-----------------------------------------------------------------------------
(* Tool calls.  History: cleared, the guard permitted this user and board in *)
(* this call; contacted, Mural was asked something on its behalf; always and *)
(* ever, the widgets that were on the board at all times, or at some time,   *)
(* since the call began.                                                     *)

LinkStatuses == {"none", "fresh", "stale"}

Answers == {"none", "ok", "ForbiddenBoardError", "MuralTokenError", "MuralApiError",
            "MuralUnavailableError", "BoardParseError"}

Idle(answer) == [pc |-> "idle", answer |-> answer]

Active == [pc: {"guard", "token", "refresh", "store", "page", "done"}, user: Users, board: Boards,
           request: Request, widgets: Seq(Widgets),
           cleared: BOOLEAN, contacted: BOOLEAN,
           always: SUBSET Widgets, ever: SUBSET Widgets]

FirstRequest == [url |-> BaseUrl, next |-> NoParam]

Step(h, next) == call' = [call EXCEPT ![h] = next]

\* Mutation: the guard is not asked.
CallToolUnguarded(h, u, b) ==
    /\ call[h].pc = "idle"
    /\ Step(h, [pc |-> "token", user |-> u, board |-> b, request |-> FirstRequest,
                widgets |-> <<>>, cleared |-> FALSE, contacted |-> FALSE,
                always |-> board[b], ever |-> board[b]])
    /\ UNCHANGED <<board, granted, link>>

\* get_board_summary, get_region, get_connections, find_widgets.
CallTool(h, u, b) ==
    /\ call[h].pc = "idle"
    /\ Step(h, [pc |-> "guard", user |-> u, board |-> b, request |-> FirstRequest,
                widgets |-> <<>>, cleared |-> FALSE, contacted |-> FALSE,
                always |-> board[b], ever |-> board[b]])
    /\ UNCHANGED <<board, granted, link>>

\* Mutation: the denial is passed on without its reason.
CheckGuardSilently(h) ==
    /\ call[h].pc = "guard"
    /\ Step(h, IF <<call[h].user, call[h].board>> \in granted
               THEN [call[h] EXCEPT !.pc = "token", !.cleared = TRUE]
               ELSE Idle(""))
    /\ UNCHANGED <<board, granted, link>>

\* guard.check
CheckGuard(h) ==
    /\ call[h].pc = "guard"
    /\ Step(h, IF <<call[h].user, call[h].board>> \in granted
               THEN [call[h] EXCEPT !.pc = "token", !.cleared = TRUE]
               ELSE Idle("ForbiddenBoardError"))
    /\ UNCHANGED <<board, granted, link>>

\* get_valid_token up to its decision on the stored document.
GetStoredToken(h) ==
    /\ call[h].pc = "token"
    /\ LET status == link[call[h].user] IN
       Step(h, IF status = "none" THEN Idle("MuralTokenError")
               ELSE [call[h] EXCEPT !.pc = IF status = "stale" THEN "refresh" ELSE "page"])
    /\ UNCHANGED <<board, granted, link>>

\* The refresh is sent to Mural, and answered with a token.
SendRefresh(h) ==
    /\ call[h].pc = "refresh"
    /\ Step(h, [call[h] EXCEPT !.pc = "store", !.contacted = TRUE])
    /\ UNCHANGED <<board, granted, link>>

\* The refreshed token is stored, whatever became of the document meanwhile.
StoreRefreshed(h) ==
    /\ call[h].pc = "store"
    /\ link' = [link EXCEPT ![call[h].user] = "fresh"]
    /\ Step(h, [call[h] EXCEPT !.pc = "page"])
    /\ UNCHANGED <<board, granted>>

\* Mutation: a page replaces the ones before it.
FetchPageAlone(h) ==
    /\ call[h].pc = "page"
    /\ LET b == call[h].board
           cursor == CursorOf(call[h].request)
       IN \E page \in Pages(b, cursor), form \in {"url", "token"} :
            LET at == NextAfter(b, cursor, page) IN
            Step(h, [call[h] EXCEPT
                !.contacted = TRUE, !.widgets = page,
                !.pc = IF at = Start THEN "done" ELSE "page",
                !.request = IF at = Start THEN @ ELSE ResolveNext(at, form)])
    /\ UNCHANGED <<board, granted, link>>

\* One turn of the loop of _fetch_widgets that Mural answers with a page.
FetchPage(h) ==
    /\ call[h].pc = "page"
    /\ LET b == call[h].board
           cursor == CursorOf(call[h].request)
       IN \E page \in Pages(b, cursor), form \in {"url", "token"} :
            LET at == NextAfter(b, cursor, page) IN
            Step(h, [call[h] EXCEPT
                !.contacted = TRUE, !.widgets = @ \o page,
                !.pc = IF at = Start THEN "done" ELSE "page",
                !.request = IF at = Start THEN @ ELSE ResolveNext(at, form)])
    /\ UNCHANGED <<board, granted, link>>

\* Mutation: a refused page starts the loop over, as often as it takes.
PageRetries(h) ==
    /\ call[h].pc = "page"
    /\ Step(h, [call[h] EXCEPT !.request = FirstRequest, !.widgets = <<>>])
    /\ UNCHANGED <<board, granted, link>>

\* A request that Mural refuses (the token has expired or was withdrawn
\* meanwhile, or a fault of its own) or never answers ends the call; the pages
\* already read are dropped.
RequestFails(h) ==
    /\ call[h].pc \in {"refresh", "page"}
    /\ \E failure \in {"MuralApiError", "MuralUnavailableError"} : Step(h, Idle(failure))
    /\ UNCHANGED <<board, granted, link>>

\* The widgets are parsed, rendered and returned; one that matches no schema
\* fails the call, whatever was asked of the board.
Return(h) ==
    /\ call[h].pc = "done"
    /\ Step(h, Idle(IF ToSet(call[h].widgets) \cap Unreadable = {} THEN "ok"
                    ELSE "BoardParseError"))
    /\ UNCHANGED <<board, granted, link>>

\* The call ends unanswered at an await: the process stopped, the client went
\* away, or Mongo did not answer.
Abandon(h) ==
    /\ call[h].pc # "idle"
    /\ Step(h, Idle("none"))
    /\ UNCHANGED <<board, granted, link>>

-----------------------------------------------------------------------------
(* The environment.                                                          *)

\* Someone edits board b, adding or removing widget w.
Edit(b, w) ==
    LET now == IF w \in board[b] THEN board[b] \ {w} ELSE board[b] \cup {w} IN
    /\ board' = [board EXCEPT ![b] = now]
    /\ call' = [h \in Handlers |->
          IF call[h].pc = "idle" \/ call[h].board # b THEN call[h]
          ELSE [call[h] EXCEPT !.always = @ \cap now, !.ever = @ \cup now]]
    /\ UNCHANGED <<granted, link>>

\* A reviewer's decision opens a board to a user, or takes it back.
Regrant(u, b) ==
    /\ granted' = IF <<u, b>> \in granted THEN granted \ {<<u, b>>}
                  ELSE granted \cup {<<u, b>>}
    /\ UNCHANGED <<board, link, call>>

\* Users link or disconnect, and stored tokens come to need a refresh, several
\* at a time.
Relink ==
    /\ link' \in [Users -> LinkStatuses]
    /\ UNCHANGED <<board, granted, call>>

-----------------------------------------------------------------------------
\* The service starts with whatever its database and Mural have by then.
Init ==
    /\ board \in [Boards -> SUBSET Widgets]
    /\ granted \in SUBSET (Users \X Boards)
    /\ link \in [Users -> LinkStatuses]
    /\ call = [h \in Handlers |-> Idle("none")]

\* What the call's own coroutine does next.
Proceed(h) ==
    \/ CheckGuard(h) \/ GetStoredToken(h) \/ SendRefresh(h) \/ StoreRefreshed(h)
    \/ FetchPage(h) \/ RequestFails(h) \/ Return(h)

Next ==
    \/ \E h \in Handlers :
          \/ Proceed(h) \/ Abandon(h)
          \/ \E u \in Users, b \in Boards : CallTool(h, u, b)
    \/ \E b \in Boards :
          \/ \E w \in Widgets : Edit(b, w)
          \/ \E u \in Users : Regrant(u, b)
    \/ Relink

\* Every await of a call ends: Mongo answers, and a request to Mural is
\* answered or times out (request_timeout).
Fairness == \A h \in Handlers : WF_vars(Proceed(h))

Spec == Init /\ [][Next]_vars /\ Fairness

-----------------------------------------------------------------------------
(* Properties.                                                               *)

\* Calls keep their shape.
TypeOK ==
    /\ board \in [Boards -> SUBSET Widgets]
    /\ granted \subseteq Users \X Boards
    /\ link \in [Users -> LinkStatuses]
    /\ call \in [Handlers -> [pc: {"idle"}, answer: Answers] \cup Active]

\* Mural is asked nothing on behalf of a call, not even to refresh a token,
\* unless the guard permitted the call's user the call's board in that call.
GuardBeforeContact ==
    \A h \in Handlers :
        call[h].pc # "idle" /\ call[h].contacted => call[h].cleared

\* What a call returns is a whole board: every widget that was on it during the
\* whole call, none that was not on it at some time of the call, each once; also
\* when the board is edited between two pages.
ResultIsWholeBoard ==
    \A h \in Handlers :
        call[h].pc = "done" =>
            LET result == ToSet(call[h].widgets) IN
            /\ call[h].always \subseteq result
            /\ result \subseteq call[h].ever
            /\ IsInjective(call[h].widgets)

\* Every tool call ends, however the board is edited meanwhile: the loop over
\* the pages has no bound of its own and relies on Mural's cursor moving on.
EveryCallEnds ==
    \A h \in Handlers : call[h].pc # "idle" ~> call[h].pc = "idle"

=============================================================================
