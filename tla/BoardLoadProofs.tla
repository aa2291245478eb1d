--------------------------- MODULE BoardLoadProofs ---------------------------
(* Proofs about BoardLoad for every number of users, boards, widgets and     *)
(* overlapping calls, and every way Mural may cut a board into pages.        *)
EXTENDS BoardLoad, TLAPS

Ascending(s) == \A i, j \in DOMAIN s : i < j => s[i] < s[j]

(* The inductive invariant.  A call has read the board up to its cursor.     *)

\* Past the guard a call was cleared by it, and only such a call asks Mural.
Guarded ==
    \A h \in Handlers :
        call[h].pc # "idle" =>
            /\ call[h].contacted => call[h].cleared
            /\ call[h].pc # "guard" => call[h].cleared

\* The board lies between what was on it all along and what was on it ever.
BoardBetween ==
    \A h \in Handlers :
        call[h].pc # "idle" =>
            /\ call[h].always \subseteq board[call[h].board]
            /\ board[call[h].board] \subseteq call[h].ever

\* What a call has read was on the board, is in Mural's order, lies before the
\* cursor, and has all that was there all along and lies before the cursor; a
\* call that is done has read the whole board.
ReadSoFar ==
    \A h \in Handlers :
        call[h].pc # "idle" =>
            LET read == ToSet(call[h].widgets)
                at == CursorOf(call[h].request)
            IN  /\ read \subseteq call[h].ever
                /\ Ascending(call[h].widgets)
                /\ IF call[h].pc = "done" THEN call[h].always \subseteq read
                   ELSE /\ \A w \in read : w <= at
                        /\ \A w \in call[h].always : w <= at => w \in read

IInv == TypeOK /\ Guarded /\ BoardBetween /\ ReadSoFar

-----------------------------------------------------------------------------
(* Lemmas.                                                                   *)

\* A call in progress has the locals of one.
LEMMA CallLocals ==
    ASSUME TypeOK, NEW h \in Handlers, call[h].pc # "idle"
    PROVE  /\ call[h] \in Active
           /\ call[h].user \in Users /\ call[h].board \in Boards
           /\ call[h].request \in Request /\ call[h].widgets \in Seq(Widgets)
           /\ call[h].always \subseteq Widgets /\ call[h].ever \subseteq Widgets
BY DEF TypeOK, Active

\* A page is in Mural's order, after the cursor, and leaves nothing out up to
\* where the next one starts; it ends the reading only if nothing is left.
LEMMA PageIsNext ==
    ASSUME TypeOK, NEW b \in Boards, NEW cursor \in 0..MaxWidget,
           NEW page \in Pages(b, cursor)
    PROVE  /\ page \in Seq(Widgets) /\ Ascending(page)
           /\ ToSet(page) \subseteq board[b]
           /\ \A w \in ToSet(page) : w > cursor
           /\ LET at == NextAfter(b, cursor, page) IN
              IF at = Start THEN \A w \in board[b] : w > cursor => w \in ToSet(page)
              ELSE /\ at \in Widgets /\ at > cursor
                   /\ \A w \in ToSet(page) : w <= at
                   /\ \A w \in board[b] : w > cursor /\ w <= at => w \in ToSet(page)
<1> DEFINE rest == Remaining(b, cursor)
<1>1. /\ page \in SeqOf(rest, PageSize) /\ (rest # {} => page # <<>>)
      /\ \A i, j \in DOMAIN page : i < j => page[i] < page[j]
      /\ \A w \in rest : \A i \in DOMAIN page : w <= page[i] => w \in ToSet(page)
  BY DEF Pages
<1>2. rest \subseteq Widgets /\ \A w \in rest : w \in board[b] /\ w > cursor
  BY DEF TypeOK, Remaining
<1>3. \A w \in board[b] : w > cursor => w \in rest
  BY DEF Remaining
<1>4. \A w \in Widgets : w \in Nat /\ w # Start
  BY BoardAssumption DEF Widgets, Start
<1> HIDE DEF rest
<1>5. PICK n \in 0..PageSize : page \in [1..n -> rest]
  BY <1>1 DEF SeqOf
<1>6. n \in Nat /\ page \in Seq(rest) /\ Len(page) = n /\ DOMAIN page = 1..n
  BY <1>5, BoardAssumption
<1>7. page \in Seq(Widgets) /\ ToSet(page) \subseteq rest
  BY <1>2, <1>5, <1>6 DEF ToSet
<1>8. CASE ToSet(page) = rest
  <2>1. NextAfter(b, cursor, page) = Start
    BY <1>8 DEF NextAfter, rest
  <2> QED
    BY <1>1, <1>2, <1>3, <1>7, <1>8, <2>1 DEF Ascending
<1>9. CASE ToSet(page) # rest
  <2>1. NextAfter(b, cursor, page) = page[n]
    BY <1>6, <1>9 DEF NextAfter, rest, Last
  <2>2. n # 0
    <3>1. rest # {}
      BY <1>7, <1>9
    <3>2. n = 0 => page = <<>>
      BY <1>6
    <3> QED
      BY <1>1, <3>1, <3>2
  <2>3. n \in DOMAIN page /\ page[n] \in rest
    BY <1>5, <1>6, <2>2
  <2>4. \A i \in 1..n : page[i] <= page[n]
    <3> SUFFICES ASSUME NEW i \in 1..n PROVE page[i] <= page[n]
      OBVIOUS
    <3>1. page[i] \in Nat /\ page[n] \in Nat
      <4>1. page[i] \in rest
        BY <1>5
      <4> QED
        BY <1>2, <1>4, <2>3, <4>1
    <3>2. i = n \/ i < n
      BY <1>6
    <3>3. CASE i = n
      BY <3>1, <3>3
    <3>4. CASE i < n
      BY <1>1, <1>6, <2>3, <3>1, <3>4
    <3> QED
      BY <3>2, <3>3, <3>4
  <2>5. \A w \in ToSet(page) : w <= page[n]
    BY <1>6, <2>4 DEF ToSet
  <2>6. \A w \in rest : w <= page[n] => w \in ToSet(page)
    BY <1>1, <2>3
  <2>7. page[n] \in Widgets /\ page[n] > cursor /\ page[n] # Start
    BY <1>2, <1>4, <2>3
  <2> QED
    BY <1>1, <1>2, <1>3, <1>7, <2>1, <2>5, <2>6, <2>7 DEF Ascending
<1> QED
  BY <1>8, <1>9

\* A page after what was read continues it.
LEMMA ReadOn ==
    ASSUME NEW s \in Seq(Widgets), NEW page \in Seq(Widgets), Ascending(s), Ascending(page),
           NEW cursor \in Int, \A w \in ToSet(s) : w <= cursor, \A w \in ToSet(page) : w > cursor
    PROVE  /\ s \o page \in Seq(Widgets) /\ Ascending(s \o page)
           /\ ToSet(s \o page) = ToSet(s) \cup ToSet(page)
<1> DEFINE t == s \o page
           m == Len(s)
           n == Len(page)
<1>1. m \in Nat /\ n \in Nat /\ Len(t) = m + n /\ t \in Seq(Widgets)
  OBVIOUS
<1>2. /\ \A i \in 1..m : t[i] = s[i] /\ s[i] \in Widgets
      /\ \A i \in 1..n : t[m + i] = page[i] /\ page[i] \in Widgets
  OBVIOUS
<1>3. DOMAIN s = 1..m /\ DOMAIN page = 1..n /\ DOMAIN t = 1..(m + n)
  BY <1>1
<1> HIDE DEF t, m, n
<1>4. \A i \in 1..(m + n) : i \in 1..m \/ \E k \in 1..n : i = m + k
  <2> SUFFICES ASSUME NEW i \in 1..(m + n), i \notin 1..m PROVE \E k \in 1..n : i = m + k
    OBVIOUS
  <2>1. i - m \in 1..n /\ i = m + (i - m)
    BY <1>1
  <2> QED
    BY <2>1
<1>5. ToSet(t) = ToSet(s) \cup ToSet(page)
  <2>1. \A i \in 1..m : i \in 1..(m + n)
    BY <1>1
  <2>2. \A k \in 1..n : m + k \in 1..(m + n)
    BY <1>1
  <2> QED
    BY <1>2, <1>3, <1>4, <2>1, <2>2 DEF ToSet
<1>6. Ascending(t)
  <2> SUFFICES ASSUME NEW i \in 1..(m + n), NEW j \in 1..(m + n), i < j PROVE t[i] < t[j]
    BY <1>3 DEF Ascending
  <2>1. CASE i \in 1..m /\ j \in 1..m
    BY <1>2, <1>3, <2>1 DEF Ascending
  <2>2. ASSUME i \in 1..m, NEW k \in 1..n, j = m + k PROVE t[i] < t[j]
    <3>1. t[i] \in ToSet(s) /\ t[j] \in ToSet(page) /\ t[i] \in Int /\ t[j] \in Int
      BY <1>2, <1>3, <2>2 DEF ToSet, Widgets
    <3>2. t[i] <= cursor /\ t[j] > cursor
      BY <3>1
    <3> QED
      BY <3>1, <3>2
  <2>3. ASSUME NEW k \in 1..n, NEW l \in 1..n, i = m + k, j = m + l PROVE t[i] < t[j]
    <3>1. k < l
      BY <1>1, <2>3
    <3> QED
      BY <1>2, <1>3, <2>3, <3>1 DEF Ascending
  <2>4. ASSUME NEW k \in 1..n, i = m + k, j \in 1..m PROVE FALSE
    BY <1>1, <2>4
  <2> QED
    BY <1>4, <2>1, <2>2, <2>3, <2>4
<1> QED
  BY <1>1, <1>5, <1>6 DEF t

\* The place to go on from is the one Mural gave, however it was written.
LEMMA CursorMovesOn ==
    ASSUME NEW at \in Widgets, NEW form
    PROVE  ResolveNext(at, form) \in Request /\ CursorOf(ResolveNext(at, form)) = at
<1>1. at \in 0..MaxWidget /\ 0 \in 0..MaxWidget /\ at # 0
  BY BoardAssumption DEF Widgets
<1> QED
  BY <1>1 DEF ResolveNext, CursorOf, Request, NextUrl, BaseUrl, NoParam, Start

\* A request goes on after a widget, or from the start.
LEMMA CursorTyped ==
    ASSUME NEW request \in Request
    PROVE  CursorOf(request) \in 0..MaxWidget
BY DEF CursorOf, Request

-----------------------------------------------------------------------------
(* The invariant is inductive.                                               *)

\* The service starts with IInv.
LEMMA InitIInv == Init => IInv
BY DEF Init, IInv, TypeOK, Guarded, BoardBetween, ReadSoFar, Idle, Answers

\* What the invariant says of one call.
CallOK(c) ==
    c.pc # "idle" =>
        /\ c.contacted => c.cleared
        /\ c.pc # "guard" => c.cleared
        /\ c.always \subseteq board[c.board]
        /\ board[c.board] \subseteq c.ever
        /\ ToSet(c.widgets) \subseteq c.ever
        /\ Ascending(c.widgets)
        /\ IF c.pc = "done" THEN c.always \subseteq ToSet(c.widgets)
           ELSE /\ \A w \in ToSet(c.widgets) : w <= CursorOf(c.request)
                /\ \A w \in c.always : w <= CursorOf(c.request) => w \in ToSet(c.widgets)

CallTyped(c) == c \in [pc: {"idle"}, answer: Answers] \cup Active

\* IInv is a matter of each call by itself.
LEMMA CallByCall == IInv <=> TypeOK /\ \A h \in Handlers : CallOK(call[h])
BY DEF IInv, Guarded, BoardBetween, ReadSoFar, CallOK

\* A step of one call preserves the invariant if what it makes of the call does.
LEMMA OneCallSteps ==
    ASSUME IInv, NEW h \in Handlers, NEW next, CallTyped(next), CallOK(next),
           Step(h, next), UNCHANGED <<board, granted>>, link' \in [Users -> LinkStatuses]
    PROVE  IInv'
<1>1. call' = [call EXCEPT ![h] = next]
  BY DEF Step
<1>2. TypeOK'
  BY <1>1 DEF IInv, TypeOK, CallTyped
<1>3. \A g \in Handlers : CallOK(call'[g])
  BY <1>1, CallByCall DEF IInv, TypeOK
<1>4. \A g \in Handlers : CallOK(call[g])'
  BY <1>3 DEF CallOK, CursorOf, Ascending
<1> QED
  BY <1>2, <1>4 DEF IInv, Guarded, BoardBetween, ReadSoFar, CallOK

\* A call that has ended is no burden to IInv.
LEMMA IdleCall ==
    ASSUME NEW a \in Answers
    PROVE  CallTyped(Idle(a)) /\ CallOK(Idle(a))
BY DEF CallTyped, CallOK, Idle

\* IInv survives the start of a call.
LEMMA CallToolStep ==
    ASSUME IInv, NEW h \in Handlers, NEW u \in Users, NEW b \in Boards, CallTool(h, u, b)
    PROVE  IInv'
<1> DEFINE new == [pc |-> "guard", user |-> u, board |-> b, request |-> FirstRequest,
                   widgets |-> <<>>, cleared |-> FALSE, contacted |-> FALSE,
                   always |-> board[b], ever |-> board[b]]
<1>1. Step(h, new) /\ UNCHANGED <<board, granted, link>>
  BY DEF CallTool
<1>2. FirstRequest \in Request /\ CursorOf(FirstRequest) = 0
  BY BoardAssumption DEF FirstRequest, BaseUrl, Start, NoParam, Request, CursorOf
<1>3. board[b] \subseteq Widgets /\ \A w \in Widgets : ~ (w <= 0)
  BY BoardAssumption DEF IInv, TypeOK, Widgets
<1>4. CallTyped(new)
  BY <1>2, <1>3 DEF CallTyped, Active
<1>5. CallOK(new)
  <2>1. ToSet(new.widgets) = {} /\ Ascending(new.widgets)
    BY DEF ToSet, Ascending
  <2> QED
    BY <1>2, <1>3, <2>1 DEF CallOK
<1> HIDE DEF new
<1> QED
  BY <1>1, <1>4, <1>5, OneCallSteps DEF IInv, TypeOK

\* A call that moves on without reading keeps what it has read.
LEMMA SameReading ==
    ASSUME IInv, NEW h \in Handlers, call[h].pc \notin {"idle", "done"},
           NEW pc \in {"token", "refresh", "store", "page"},
           NEW cleared \in BOOLEAN, NEW contacted \in BOOLEAN, cleared
    PROVE  LET next == [call[h] EXCEPT !.pc = pc, !.cleared = cleared, !.contacted = contacted]
           IN  CallTyped(next) /\ CallOK(next)
<1> DEFINE c == call[h]
           next == [c EXCEPT !.pc = pc, !.cleared = cleared, !.contacted = contacted]
<1>1. c \in Active /\ CallOK(c)
  BY CallLocals, CallByCall DEF IInv
<1>2. /\ next.pc = pc /\ next.cleared = cleared /\ next.contacted = contacted
      /\ next.user = c.user /\ next.board = c.board /\ next.request = c.request
      /\ next.widgets = c.widgets /\ next.always = c.always /\ next.ever = c.ever
  BY <1>1 DEF Active
<1>3. next \in Active
  BY <1>1 DEF Active
<1>4. c.pc \notin {"idle", "done"}
  OBVIOUS
<1> HIDE DEF next, c
<1>5. CallOK(next)
  BY <1>1, <1>2, <1>4 DEF CallOK
<1> QED
  BY <1>3, <1>5 DEF CallTyped, next, c

\* IInv survives the answer of the guard.
LEMMA CheckGuardStep ==
    ASSUME IInv, NEW h \in Handlers, CheckGuard(h)
    PROVE  IInv'
<1>1. call[h].pc = "guard" /\ UNCHANGED <<board, granted, link>>
  BY DEF CheckGuard
<1>2. link' \in [Users -> LinkStatuses]
  BY <1>1 DEF IInv, TypeOK
<1>3. CASE Step(h, Idle("ForbiddenBoardError"))
  <2>1. "ForbiddenBoardError" \in Answers
    BY DEF Answers
  <2> QED
    BY <1>1, <1>2, <1>3, <2>1, IdleCall, OneCallSteps
<1>4. CASE Step(h, [call[h] EXCEPT !.pc = "token", !.cleared = TRUE])
  <2> DEFINE next == [call[h] EXCEPT !.pc = "token", !.cleared = TRUE]
  <2>1. call[h] \in Active
    BY <1>1, CallLocals DEF IInv
  <2>2. next = [call[h] EXCEPT !.pc = "token", !.cleared = TRUE,
                               !.contacted = call[h].contacted]
    BY <2>1 DEF Active
  <2>3. call[h].contacted \in BOOLEAN
    BY <2>1 DEF Active
  <2>4. CallTyped(next) /\ CallOK(next)
    BY <1>1, <2>2, <2>3, SameReading
  <2> HIDE DEF next
  <2> QED
    BY <1>1, <1>2, <1>4, <2>4, OneCallSteps DEF next
<1> QED
  BY <1>3, <1>4 DEF CheckGuard

\* IInv survives the look at the stored token.
LEMMA GetStoredTokenStep ==
    ASSUME IInv, NEW h \in Handlers, GetStoredToken(h)
    PROVE  IInv'
<1>1. call[h].pc = "token" /\ UNCHANGED <<board, granted, link>>
  BY DEF GetStoredToken
<1>2. link' \in [Users -> LinkStatuses]
  BY <1>1 DEF IInv, TypeOK
<1>3. CASE Step(h, Idle("MuralTokenError"))
  <2>1. "MuralTokenError" \in Answers
    BY DEF Answers
  <2> QED
    BY <1>1, <1>2, <1>3, <2>1, IdleCall, OneCallSteps
<1>4. ASSUME NEW pc \in {"refresh", "page"}, Step(h, [call[h] EXCEPT !.pc = pc])
      PROVE  IInv'
  <2> DEFINE next == [call[h] EXCEPT !.pc = pc]
  <2>1. call[h] \in Active
    BY <1>1, CallLocals DEF IInv
  <2>2. next = [call[h] EXCEPT !.pc = pc, !.cleared = call[h].cleared,
                               !.contacted = call[h].contacted]
    BY <2>1 DEF Active
  <2>3. call[h].contacted \in BOOLEAN /\ call[h].cleared \in BOOLEAN /\ call[h].cleared
    BY <1>1, <2>1 DEF Active, IInv, Guarded
  <2>4. CallTyped(next) /\ CallOK(next)
    BY <1>1, <1>4, <2>2, <2>3, SameReading
  <2> HIDE DEF next
  <2> QED
    BY <1>1, <1>2, <1>4, <2>4, OneCallSteps DEF next
<1>5. CASE link[call[h].user] = "none"
  BY <1>3, <1>5 DEF GetStoredToken
<1>6. CASE link[call[h].user] = "stale"
  BY <1>4, <1>6 DEF GetStoredToken
<1>7. CASE link[call[h].user] \notin {"none", "stale"}
  BY <1>4, <1>7 DEF GetStoredToken
<1> QED
  BY <1>5, <1>6, <1>7

\* IInv survives a refresh that is sent.
LEMMA SendRefreshStep ==
    ASSUME IInv, NEW h \in Handlers, SendRefresh(h)
    PROVE  IInv'
<1> DEFINE next == [call[h] EXCEPT !.pc = "store", !.contacted = TRUE]
<1>1. /\ call[h].pc = "refresh" /\ UNCHANGED <<board, granted, link>> /\ Step(h, next)
  BY DEF SendRefresh
<1>2. call[h] \in Active
  BY <1>1, CallLocals DEF IInv
<1>3. next = [call[h] EXCEPT !.pc = "store", !.cleared = call[h].cleared, !.contacted = TRUE]
  BY <1>2 DEF Active
<1>4. call[h].cleared \in BOOLEAN /\ call[h].cleared
  BY <1>1, <1>2 DEF Active, IInv, Guarded
<1>5. CallTyped(next) /\ CallOK(next)
  BY <1>1, <1>3, <1>4, SameReading
<1> HIDE DEF next
<1> QED
  BY <1>1, <1>5, OneCallSteps DEF IInv, TypeOK

\* IInv survives a refreshed token that is stored.
LEMMA StoreRefreshedStep ==
    ASSUME IInv, NEW h \in Handlers, StoreRefreshed(h)
    PROVE  IInv'
<1> DEFINE next == [call[h] EXCEPT !.pc = "page"]
<1>1. /\ call[h].pc = "store" /\ UNCHANGED <<board, granted>> /\ Step(h, next)
      /\ link' = [link EXCEPT ![call[h].user] = "fresh"]
  BY DEF StoreRefreshed
<1>2. call[h] \in Active
  BY <1>1, CallLocals DEF IInv
<1>3. next = [call[h] EXCEPT !.pc = "page", !.cleared = call[h].cleared,
                             !.contacted = call[h].contacted]
  BY <1>2 DEF Active
<1>4. call[h].contacted \in BOOLEAN /\ call[h].cleared \in BOOLEAN /\ call[h].cleared
  BY <1>1, <1>2 DEF Active, IInv, Guarded
<1>5. CallTyped(next) /\ CallOK(next)
  BY <1>1, <1>3, <1>4, SameReading
<1> HIDE DEF next
<1>6. link' \in [Users -> LinkStatuses]
  BY <1>1 DEF IInv, TypeOK, LinkStatuses
<1> QED
  BY <1>1, <1>5, <1>6, OneCallSteps

\* A page is read from the board as it is now, on from the cursor.
LEMMA FetchPageStep ==
    ASSUME IInv, NEW h \in Handlers, FetchPage(h)
    PROVE  IInv'
<1> DEFINE c == call[h]
           cursor == CursorOf(c.request)
<1>1. c.pc = "page" /\ UNCHANGED <<board, granted, link>>
  BY DEF FetchPage
<1>2. PICK page \in Pages(c.board, cursor), form \in {"url", "token"} :
        LET at == NextAfter(c.board, cursor, page) IN
        Step(h, [c EXCEPT
            !.contacted = TRUE, !.widgets = @ \o page,
            !.pc = IF at = Start THEN "done" ELSE "page",
            !.request = IF at = Start THEN @ ELSE ResolveNext(at, form)])
  BY DEF FetchPage
<1>3. /\ c \in Active /\ c.board \in Boards /\ c.request \in Request
      /\ c.widgets \in Seq(Widgets)
  BY <1>1, CallLocals DEF IInv
<1>4. cursor \in 0..MaxWidget /\ cursor \in Int
  BY <1>3, CursorTyped
<1>5. CallOK(c)
  BY CallByCall
<1> DEFINE at == NextAfter(c.board, cursor, page)
           pc == IF at = Start THEN "done" ELSE "page"
           request == IF at = Start THEN c.request ELSE ResolveNext(at, form)
           widgets == c.widgets \o page
           next == [c EXCEPT !.contacted = TRUE, !.widgets = widgets, !.pc = pc,
                             !.request = request]
<1>6. Step(h, next)
  BY <1>2
<1>7. /\ page \in Seq(Widgets) /\ Ascending(page)
      /\ ToSet(page) \subseteq board[c.board]
      /\ \A w \in ToSet(page) : w > cursor
      /\ at = Start => \A w \in board[c.board] : w > cursor => w \in ToSet(page)
      /\ at # Start =>
            /\ at \in Widgets /\ at > cursor
            /\ \A w \in ToSet(page) : w <= at
            /\ \A w \in board[c.board] : w > cursor /\ w <= at => w \in ToSet(page)
  BY <1>3, <1>4, PageIsNext DEF IInv
<1>8. at # Start => ResolveNext(at, form) \in Request /\ CursorOf(ResolveNext(at, form)) = at
  BY <1>7, CursorMovesOn
<1>9. /\ c.cleared /\ c.always \subseteq board[c.board] /\ board[c.board] \subseteq c.ever
      /\ ToSet(c.widgets) \subseteq c.ever /\ Ascending(c.widgets)
      /\ \A w \in ToSet(c.widgets) : w <= cursor
      /\ \A w \in c.always : w <= cursor => w \in ToSet(c.widgets)
  BY <1>1, <1>5 DEF CallOK
<1>10. /\ widgets \in Seq(Widgets) /\ Ascending(widgets)
       /\ ToSet(widgets) = ToSet(c.widgets) \cup ToSet(page)
  BY <1>3, <1>4, <1>7, <1>9, ReadOn
<1>11. request \in Request /\ (at # Start => CursorOf(request) = at)
  BY <1>3, <1>8
<1>12. board[c.board] \subseteq Widgets /\ \A w \in Widgets : w \in Int
  BY <1>3 DEF IInv, TypeOK, Widgets
<1>13. /\ next.pc = pc /\ next.cleared = c.cleared /\ next.contacted
       /\ next.board = c.board /\ next.request = request /\ next.widgets = widgets
       /\ next.always = c.always /\ next.ever = c.ever
       /\ (next \in Active <=> widgets \in Seq(Widgets) /\ request \in Request)
  BY <1>3 DEF Active
<1>14. CallTyped(next)
  BY <1>10, <1>11, <1>13 DEF CallTyped
<1> HIDE DEF next, widgets, request, at
<1>15. ToSet(widgets) \subseteq c.ever
  BY <1>7, <1>9, <1>10
<1>16. /\ next.cleared /\ next.always \subseteq board[next.board]
       /\ board[next.board] \subseteq next.ever
  BY <1>9, <1>13
<1>17. ASSUME at = Start PROVE CallOK(next)
  <2>1. c.always \subseteq ToSet(widgets)
    <3> SUFFICES ASSUME NEW w \in c.always PROVE w \in ToSet(widgets)
      OBVIOUS
    <3>1. w \in Int /\ cursor \in Int /\ w \in board[c.board]
      BY <1>4, <1>9, <1>12
    <3>2. w <= cursor \/ w > cursor
      BY <3>1
    <3> QED
      BY <1>7, <1>9, <1>10, <1>17, <3>1, <3>2
  <2> QED
    BY <1>10, <1>13, <1>15, <1>17, <1>16, <2>1 DEF CallOK
<1>18. ASSUME at # Start PROVE CallOK(next)
  <2>1. \A w \in ToSet(widgets) : w <= at
    <3>1. at \in Int /\ cursor \in Int /\ at > cursor
      BY <1>4, <1>7, <1>12, <1>18
    <3>2. ToSet(c.widgets) \subseteq Int
      BY <1>3, <1>12 DEF ToSet
    <3>3. \A w \in ToSet(c.widgets) : w <= at
      BY <1>9, <3>1, <3>2
    <3> QED
      BY <1>7, <1>10, <1>18, <3>3
  <2>2. ASSUME NEW w \in c.always, w <= at
        PROVE  w \in ToSet(widgets)
    <3>1. w \in Int /\ cursor \in Int /\ w \in board[c.board]
      BY <1>4, <1>9, <1>12
    <3>2. w <= cursor \/ w > cursor
      BY <3>1
    <3> QED
      BY <1>7, <1>9, <1>10, <1>18, <2>2, <3>1, <3>2
  <2> QED
    BY <1>10, <1>11, <1>13, <1>15, <1>18, <1>16, <2>1, <2>2 DEF CallOK
<1>19. CallOK(next)
  BY <1>17, <1>18
<1>20. link' \in [Users -> LinkStatuses]
  BY <1>1 DEF IInv, TypeOK
<1> QED
  BY <1>1, <1>6, <1>14, <1>19, <1>20, OneCallSteps

\* A call that is over has nothing left that the invariant speaks of.
LEMMA EndStep ==
    ASSUME IInv, NEW h \in Handlers, RequestFails(h) \/ Return(h) \/ Abandon(h)
    PROVE  IInv'
<1>1. PICK a \in Answers : Step(h, Idle(a))
  <2>1. {"MuralApiError", "MuralUnavailableError", "ok", "BoardParseError", "none"}
            \subseteq Answers
    BY DEF Answers
  <2> QED
    BY <2>1 DEF RequestFails, Return, Abandon
<1>2. UNCHANGED <<board, granted, link>>
  BY DEF RequestFails, Return, Abandon
<1>3. CallTyped(Idle(a)) /\ CallOK(Idle(a))
  BY IdleCall
<1> QED
  BY <1>1, <1>2, <1>3, OneCallSteps DEF IInv, TypeOK

\* An edit moves the board, and what was on it always or ever, together.
LEMMA EditStep ==
    ASSUME IInv, NEW b \in Boards, NEW w \in Widgets, Edit(b, w)
    PROVE  IInv'
<1> DEFINE now == IF w \in board[b] THEN board[b] \ {w} ELSE board[b] \cup {w}
<1>1. /\ board' = [board EXCEPT ![b] = now] /\ UNCHANGED <<granted, link>>
      /\ call' = [h \in Handlers |->
            IF call[h].pc = "idle" \/ call[h].board # b THEN call[h]
            ELSE [call[h] EXCEPT !.always = @ \cap now, !.ever = @ \cup now]]
  BY DEF Edit
<1>2. now \subseteq Widgets
  BY DEF IInv, TypeOK
<1> HIDE DEF now
<1>3. board' \in [Boards -> SUBSET Widgets] /\ board'[b] = now
      /\ \A a \in Boards \ {b} : board'[a] = board[a]
  BY <1>1, <1>2 DEF IInv, TypeOK
<1>4. ASSUME NEW h \in Handlers
      PROVE  CallTyped(call'[h]) /\ CallOK(call[h])'
  <2>1. CallTyped(call[h]) /\ CallOK(call[h])
    BY CallByCall DEF IInv, TypeOK, CallTyped
  <2>2. CASE call[h].pc = "idle"
    BY <1>1, <2>1, <2>2 DEF CallOK
  <2>3. CASE call[h].pc # "idle" /\ call[h].board # b
    <3>1. call'[h] = call[h]
      BY <1>1, <2>3
    <3>2. call[h].board \in Boards
      BY <2>3, CallLocals DEF IInv
    <3>3. board'[call[h].board] = board[call[h].board]
      BY <1>3, <2>3, <3>2
    <3> QED
      BY <2>1, <3>1, <3>3 DEF CallOK, CursorOf, Ascending
  <2>4. CASE call[h].pc # "idle" /\ call[h].board = b
    <3> DEFINE c == call[h]
    <3>1. c \in Active /\ call'[h] = [c EXCEPT !.always = c.always \cap now,
                                               !.ever = c.ever \cup now]
      BY <1>1, <2>4, CallLocals DEF IInv
    <3>2. /\ call'[h].pc = c.pc /\ call'[h].cleared = c.cleared
          /\ call'[h].contacted = c.contacted /\ call'[h].board = b
          /\ call'[h].request = c.request /\ call'[h].widgets = c.widgets
          /\ call'[h].always = c.always \cap now /\ call'[h].ever = c.ever \cup now
          /\ call'[h] \in Active
      BY <1>2, <2>4, <3>1 DEF Active
    <3>3. CallTyped(call'[h])
      BY <3>2 DEF CallTyped
    <3> HIDE DEF c
    <3>4. CallOK(call[h])'
      BY <1>3, <2>1, <3>2 DEF CallOK, CursorOf, Ascending, c
    <3> QED
      BY <3>3, <3>4
  <2> QED
    BY <2>2, <2>3, <2>4
<1>5. TypeOK'
  BY <1>1, <1>3, <1>4 DEF IInv, TypeOK, CallTyped
<1> QED
  BY <1>4, <1>5 DEF IInv, Guarded, BoardBetween, ReadSoFar, CallOK

\* Every step keeps IInv.
LEMMA StepIInv == IInv /\ [Next]_vars => IInv'
<1> SUFFICES ASSUME IInv, [Next]_vars PROVE IInv'
  OBVIOUS
<1>1. CASE UNCHANGED <<board, call>> /\ granted' \subseteq Users \X Boards
           /\ link' \in [Users -> LinkStatuses]
  BY <1>1 DEF IInv, TypeOK, Guarded, BoardBetween, ReadSoFar, CursorOf, Ascending
<1>2. ASSUME NEW u \in Users, NEW b \in Boards, Regrant(u, b)
      PROVE  IInv'
  BY <1>1, <1>2 DEF Regrant, IInv, TypeOK
<1>3. CASE Relink \/ UNCHANGED vars
  BY <1>1, <1>3 DEF Relink, vars, IInv, TypeOK
<1>4. ASSUME NEW h \in Handlers, Proceed(h) \/ Abandon(h)
      PROVE  IInv'
  BY <1>4, CheckGuardStep, GetStoredTokenStep, SendRefreshStep, StoreRefreshedStep,
     FetchPageStep, EndStep DEF Proceed
<1>5. ASSUME NEW h \in Handlers, NEW u \in Users, NEW b \in Boards, CallTool(h, u, b)
      PROVE  IInv'
  BY <1>5, CallToolStep
<1>6. ASSUME NEW b \in Boards, NEW w \in Widgets, Edit(b, w)
      PROVE  IInv'
  BY <1>6, EditStep
<1> QED
  BY <1>2, <1>3, <1>4, <1>5, <1>6 DEF Next

\* IInv holds in every reachable state.
THEOREM Invariant == Spec => []IInv
BY InitIInv, StepIInv, PTL DEF Spec

-----------------------------------------------------------------------------
(* What the run checks on a small board, for every instance.                 *)

\* Calls, boards, grants and links keep their types.
THEOREM TypeCorrect == Spec => []TypeOK
<1>1. IInv => TypeOK
  BY DEF IInv
<1> QED
  BY <1>1, Invariant, PTL

\* Mural is asked nothing on behalf of a call that the guard did not clear.
THEOREM GuardComesFirst == Spec => []GuardBeforeContact
<1>1. IInv => GuardBeforeContact
  BY DEF IInv, Guarded, GuardBeforeContact
<1> QED
  BY <1>1, Invariant, PTL

\* A call that has read all pages has the whole board, each widget once, however
\* Mural cut it into pages and whatever was edited between two of them.
THEOREM BoardIsReadWhole == Spec => []ResultIsWholeBoard
<1>1. IInv => ResultIsWholeBoard
  <2> SUFFICES ASSUME IInv, NEW h \in Handlers, call[h].pc = "done"
               PROVE  /\ call[h].always \subseteq ToSet(call[h].widgets)
                      /\ ToSet(call[h].widgets) \subseteq call[h].ever
                      /\ IsInjective(call[h].widgets)
    BY DEF ResultIsWholeBoard
  <2> DEFINE s == call[h].widgets
  <2>1. /\ call[h].always \subseteq ToSet(s) /\ ToSet(s) \subseteq call[h].ever
        /\ Ascending(s)
    BY DEF IInv, ReadSoFar
  <2>2. s \in Seq(Widgets)
    BY CallLocals DEF IInv
  <2> HIDE DEF s
  <2>3. IsInjective(s)
    <3> SUFFICES ASSUME NEW i \in DOMAIN s, NEW j \in DOMAIN s, s[i] = s[j] PROVE i = j
      BY DEF IsInjective
    <3>1. DOMAIN s = 1..Len(s) /\ Len(s) \in Nat /\ s[i] \in Widgets /\ s[j] \in Widgets
      BY <2>2
    <3>2. i \in Nat /\ j \in Nat /\ s[i] \in Int /\ s[j] \in Int
      BY <3>1 DEF Widgets
    <3>3. ~ (i < j) /\ ~ (j < i)
      BY <2>1, <3>2 DEF Ascending
    <3> QED
      BY <3>2, <3>3
  <2> QED
    BY <2>1, <2>3 DEF s
<1> QED
  BY <1>1, Invariant, PTL

=============================================================================
