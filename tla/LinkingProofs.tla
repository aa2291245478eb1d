--------------------------- MODULE LinkingProofs ----------------------------
(* Proofs about Linking for every number of users, states, codes and         *)
(* overlapping calls, every refresh policy of Mural's, and all delays that   *)
(* TimingAssumption admits.  The inductive invariant is proved in layers,    *)
(* each from the ones before it: types, ownership of grants, ages of tokens, *)
(* refresh tokens, and the last word of a user.                              *)
EXTENDS Linking, TLAPS

-----------------------------------------------------------------------------
(* Ownership.  Whoever has tokens of a grant bought it in the one callback    *)
(* that used up a state of their own.                                        *)

\* u completed a connection with state s, which had been issued to u.
Used(u, s) == issued_to[s] = u /\ exchanged[s] = <<u>>

\* A stored state is of the user it was issued to and was not used yet; a used
\* one was used once, by that user.
StatesOK ==
    \A s \in StateIds :
        /\ issued_to[s] = None => states[s] = NoState /\ exchanged[s] = <<>>
        /\ states[s] # NoState => states[s].user_id = issued_to[s] /\ exchanged[s] = <<>>
        /\ exchanged[s] \in {<<>>, <<issued_to[s]>>}

\* A grant that was bought is one whose code can buy nothing any more.
GrantsOK == \A g \in Grants : mural[g].code \in {"none", "issued"} => bought[g] = NoRecord

StoredOwn == \A u \in Users : tokens[u] # NoToken => Own(u, tokens[u].grant)

CallsOwn ==
    \A h \in Handlers :
        /\ handler[h].pc = "exchange" => Used(handler[h].user, handler[h].state)
        /\ handler[h].pc = "answered" => Own(handler[h].user, handler[h].grant)
        /\ handler[h].pc \in {"refresh", "store", "call"} =>
              Own(handler[h].user, handler[h].token.grant)

Ownership == StatesOK /\ GrantsOK /\ StoredOwn /\ CallsOwn

-----------------------------------------------------------------------------
(* Ages.  The stored expiry of a token is late by one delay at most, and a   *)
(* call that is on its way with a token arrives before that token expires.   *)

Bought(g) == mural[g].code \in {"used", "withdrawn"}

\* Mural has issued generation n of grant g.
Issued(g, n) == Bought(g) /\ n + 1 \in 1..Len(mural[g].issued_at)

\* The lifetime of a stored token ends at most one delay late.
Timely(t) ==
    /\ Issued(t.grant, t.access)
    /\ SendsExpiry =>
          /\ t.expires_at # None
          /\ t.expires_at <= mural[t.grant].issued_at[t.access + 1] + Delay + Lifetime

StoredTimely == \A u \in Users : tokens[u] # NoToken => Timely(tokens[u])

CallsTimely ==
    \A h \in Handlers :
        LET c == handler[h] IN
        /\ c.pc \in {"refresh", "store", "call"} => Timely(c.token)
        /\ c.pc = "answered" =>
              /\ Issued(c.grant, c.gen)
              /\ clock <= c.due
              /\ c.due <= mural[c.grant].issued_at[c.gen + 1] + Delay
        /\ c.pc = "store" =>
              /\ clock <= c.due
              /\ c.due <= mural[c.token.grant].issued_at[c.token.access + 1] + 2 * Delay
        /\ c.pc = "call" =>
              /\ clock <= c.due
              /\ SendsExpiry =>
                    c.due < mural[c.token.grant].issued_at[c.token.access + 1] + Lifetime

Ages == StoredTimely /\ CallsTimely

-----------------------------------------------------------------------------
(* Refresh tokens.  One that a call has been answered and not stored yet is  *)
(* live, and under rotation nobody else has it.                              *)

\* Mural has issued refresh token r of grant g, or there is none.
Known(g, r) == r # None => r < Len(mural[g].issued_at)

\* Mural takes refresh token r of grant g, unless the user withdrew the grant.
Usable(g, r) == r \in mural[g].live \cup {None} \/ mural[g].code = "withdrawn"

Holding(h) == handler[h].pc \in {"answered", "store"}

\* The grant and the refresh token that a call is about to store.
HeldGrant(h) ==
    IF handler[h].pc = "answered" THEN handler[h].grant ELSE handler[h].token.grant
HeldRefresh(h) ==
    IF handler[h].pc = "answered"
    THEN IF handler[h].sent # None THEN handler[h].sent ELSE handler[h].given
    ELSE handler[h].token.refresh

AllKnown ==
    /\ \A u \in Users : tokens[u] # NoToken => Known(tokens[u].grant, tokens[u].refresh)
    /\ \A h \in Handlers :
          /\ handler[h].pc = "refresh" =>
                Known(handler[h].token.grant, handler[h].token.refresh)
          /\ Holding(h) => Known(HeldGrant(h), HeldRefresh(h))

HeldUsable == \A h \in Handlers : Holding(h) => Usable(HeldGrant(h), HeldRefresh(h))

\* Without rotation no refresh token ever becomes useless.
KeptUsable ==
    RefreshPolicy # "rotate" =>
        /\ \A u \in Users : tokens[u] # NoToken => Usable(tokens[u].grant, tokens[u].refresh)
        /\ \A h \in Handlers :
              handler[h].pc = "refresh" =>
                  Usable(handler[h].token.grant, handler[h].token.refresh)

\* With rotation the refresh token a call holds is not stored, not sent by a
\* refresh under way, and not held by another call.
HeldUnique ==
    RefreshPolicy = "rotate" =>
        \A h \in Handlers :
            Holding(h) =>
                /\ HeldRefresh(h) # None
                /\ \A u \in Users :
                      tokens[u] # NoToken /\ tokens[u].grant = HeldGrant(h) =>
                          tokens[u].refresh # HeldRefresh(h)
                /\ \A g \in Handlers :
                      handler[g].pc = "refresh" /\ handler[g].token.grant = HeldGrant(h) =>
                          handler[g].token.refresh # HeldRefresh(h)
                /\ \A g \in Handlers \ {h} :
                      Holding(g) /\ HeldGrant(g) = HeldGrant(h) =>
                          HeldRefresh(g) # HeldRefresh(h)

\* Under rotation one refresh token of a grant is live at a time.
OneLive ==
    RefreshPolicy = "rotate" =>
        \A g \in Grants : \A a, b \in mural[g].live : a = b

Refreshes ==
    /\ OneLive /\ AllKnown /\ HeldUsable /\ KeptUsable /\ HeldUnique
    /\ RefreshTokenUsable

-----------------------------------------------------------------------------
(* The last word.  Two calls of a user make the user overlapped; the refresh *)
(* of one that is not is of the grant that is stored.                        *)

OverlapKnown ==
    \A u \in Users : \A g, h \in Handlers :
        g # h /\ InProgress(g, u) /\ InProgress(h, u) => u \in overlapped

RefreshOfStored ==
    \A h \in Handlers :
        LET u == handler[h].user
            Current(g) == u \notin overlapped => tokens[u] # NoToken /\ tokens[u].grant = g
        IN  /\ handler[h].pc = "refresh" => Current(handler[h].token.grant)
            /\ Holding(h) /\ handler[h].for_call => Current(HeldGrant(h))

LastWords == OverlapKnown /\ RefreshOfStored

-----------------------------------------------------------------------------
(* Types.                                                                    *)

\* "No document" is not a document.
LEMMA NoneIsNoDocument == NoToken \notin Token /\ NoState \notin OAuthState
<1>1. ASSUME NoToken \in Token PROVE FALSE
  <2>1. DOMAIN NoToken = {"grant", "access", "refresh", "expires_at"}
    BY <1>1 DEF Token
  <2> QED
    BY <2>1 DEF NoToken
<1>2. ASSUME NoState \in OAuthState PROVE FALSE
  <2>1. DOMAIN NoState = {"user_id", "expires_at"}
    BY <1>2 DEF OAuthState
  <2> QED
    BY <2>1 DEF NoState
<1> QED
  BY <1>1, <1>2

\* The constants and the clock are numbers (from LinkingAssumption).
LEMMA Numbers ==
    /\ StateTtl \in Nat /\ Leeway \in Nat /\ Lifetime \in Nat /\ Delay \in Nat
    /\ MaxClock \in Nat /\ MaxGen \in Nat
    /\ Times \subseteq Nat /\ 0 \in Times /\ Gens \subseteq Nat /\ 0 \in Gens
    /\ None \notin Int
BY LinkingAssumption DEF Times, Gens

\* A call that was begun has the locals of its position.
LEMMA HandlerLocals ==
    ASSUME TypeOK, NEW h \in Handlers
    PROVE  /\ handler[h].pc \in {"idle", "exchange", "refresh", "answered", "store", "call"}
           /\ handler[h].pc # "idle" => handler[h].user \in Users
           /\ handler[h].pc = "exchange" =>
                 handler[h].state \in StateIds /\ handler[h].code \in Grants \cup {None}
           /\ handler[h].pc = "answered" => handler[h].grant \in Grants
           /\ handler[h].pc \in {"refresh", "store", "call"} => handler[h].token \in Token
           /\ handler[h].pc = "answered" =>
                 /\ handler[h].gen \in Gens
                 /\ handler[h].sent \in Gens \cup {None}
                 /\ handler[h].given \in Gens \cup {None}
           /\ handler[h].pc \in {"answered", "store"} => handler[h].for_call \in BOOLEAN
           /\ handler[h].pc \in {"answered", "store", "call"} =>
                 handler[h].due \in 0..(MaxClock + Delay)
BY DEF TypeOK, HandlerState

\* What Step says of each call.
LEMMA StepOfOne ==
    ASSUME TypeOK, NEW h \in Handlers, NEW next \in HandlerState, Step(h, next)
    PROVE  /\ handler' \in [Handlers -> HandlerState]
           /\ overlapped' \subseteq Users
           /\ handler'[h] = next
           /\ \A g \in Handlers \ {h} : handler'[g] = handler[g]
BY DEF TypeOK, Step

\* The service starts with its types.
LEMMA InitTypeOK == Init => TypeOK
BY Numbers DEF Init, TypeOK, HandlerState, Idle, Answers

\* A handler that has answered has the type of one.
LEMMA IdleTyped == ASSUME NEW a \in Answers PROVE Idle(a) \in HandlerState
BY DEF Idle, HandlerState

\* Times a delay or a lifetime from now are within the bounds.
LEMMA DueTimes ==
    ASSUME TypeOK
    PROVE  /\ clock \in Nat /\ clock <= MaxClock
           /\ clock + StateTtl \in 0..(MaxClock + StateTtl)
           /\ clock + Lifetime \in 0..(MaxClock + Lifetime)
           /\ clock + Delay \in 0..(MaxClock + Delay)
BY Numbers DEF TypeOK, Times

\* What Mural and the client make of an answer has its type.
LEMMA AnswerTyped ==
    ASSUME TypeOK, NEW u \in Users, NEW g \in Grants, NEW n \in Gens,
           NEW sent \in Gens \cup {None}, NEW given \in Gens \cup {None},
           NEW for_call \in BOOLEAN
    PROVE  Answered(u, g, n, sent, given, for_call) \in HandlerState
BY DueTimes DEF Answered, HandlerState

\* to_token makes a document of tokens.
LEMMA ToTokenTyped ==
    ASSUME TypeOK, NEW h \in Handlers, handler[h].pc = "answered"
    PROVE  ToToken(handler[h]) \in Token
<1>1. /\ handler[h].grant \in Grants /\ handler[h].gen \in Gens
      /\ handler[h].sent \in Gens \cup {None} /\ handler[h].given \in Gens \cup {None}
  BY HandlerLocals
<1>2. (IF SendsExpiry THEN clock + Lifetime ELSE None)
          \in (0..(MaxClock + Lifetime)) \cup {None}
  BY DueTimes
<1> QED
  BY <1>1, <1>2 DEF ToToken, Token

\* The effect of a refresh on what Mural knows of the grant, and of no other.
LEMMA MuralOfRefresh ==
    ASSUME TypeOK, NEW h \in Handlers, MuralRefresh(h)
    PROVE  LET g == handler[h].token.grant
               n == Len(mural[g].issued_at)
           IN  /\ g \in Grants /\ n \in Gens
               /\ mural' \in [Grants -> [code: {"none", "issued", "used", "withdrawn"},
                                           live: SUBSET Gens, issued_at: Seq(Times)]]
               /\ mural'[g].code = mural[g].code
               /\ mural'[g].live = IF RefreshPolicy = "rotate" THEN {n} ELSE mural[g].live
               /\ mural'[g].issued_at = Append(mural[g].issued_at, clock)
               /\ \A k \in Grants \ {g} : mural'[k] = mural[k]
<1> DEFINE g == handler[h].token.grant
           n == Len(mural[g].issued_at)
           sent == IF RefreshPolicy = "rotate" THEN n ELSE None
           live == IF RefreshPolicy = "rotate" THEN {n} ELSE mural[g].live
           issued == Append(mural[g].issued_at, clock)
           new == [code |-> mural[g].code, live |-> live, issued_at |-> issued]
<1>1. g \in Grants
  BY HandlerLocals DEF MuralRefresh, Token
<1>2. n \in Gens /\ n # None
  <2>1. n \in Gens
    BY DEF MuralRefresh
  <2> HIDE DEF n
  <2> QED
    BY <2>1, Numbers
<1>3. mural[g] \in [code: {"none", "issued", "used", "withdrawn"},
                    live: SUBSET Gens, issued_at: Seq(Times)]
  BY <1>1 DEF TypeOK
<1>4. mural' = [mural EXCEPT ![g].live = IF sent = None THEN @ ELSE {sent},
                             ![g].issued_at = Append(@, clock)]
  BY DEF MuralRefresh
<1>5. live = IF sent = None THEN mural[g].live ELSE {sent}
  BY <1>2
<1>6. live \in SUBSET Gens
  BY <1>2, <1>3
<1>7. issued \in Seq(Times)
  BY <1>3 DEF TypeOK
<1>8. mural' = [mural EXCEPT ![g].live = live, ![g].issued_at = issued]
  BY <1>4, <1>5
<1> HIDE DEF live, issued, n, sent, g
<1>9. mural'[g] = new /\ \A k \in Grants \ {g} : mural'[k] = mural[k]
  BY <1>1, <1>3, <1>8 DEF TypeOK
<1>10. mural' \in [Grants -> [code: {"none", "issued", "used", "withdrawn"},
                               live: SUBSET Gens, issued_at: Seq(Times)]]
  BY <1>1, <1>3, <1>6, <1>7, <1>8 DEF TypeOK
<1>11. mural'[g].code = mural[g].code /\ mural'[g].live = live /\ mural'[g].issued_at = issued
  BY <1>9
<1> QED
  BY <1>1, <1>2, <1>9, <1>10, <1>11 DEF live, issued, n, g

\* Every step keeps the types.
LEMMA StepTypeOK == TypeOK /\ [Next]_vars => TypeOK'
<1> SUFFICES ASSUME TypeOK, [Next]_vars PROVE TypeOK'
  OBVIOUS
<1>1. CASE UNCHANGED vars
  BY <1>1 DEF TypeOK, vars
<1>2. ASSUME NEW s \in StateIds, SweepState(s) \/ \E u \in Users : GetAuthorizationUrl(u, s)
      PROVE  TypeOK'
  <2>1. CASE SweepState(s)
    BY <2>1 DEF SweepState, TypeOK
  <2>2. ASSUME NEW u \in Users, GetAuthorizationUrl(u, s)
        PROVE  TypeOK'
    <3>1. [user_id |-> u, expires_at |-> clock + StateTtl] \in OAuthState
      BY DueTimes DEF OAuthState
    <3>2. /\ states' \in [StateIds -> OAuthState \cup {NoState}]
          /\ issued_to' \in [StateIds -> Users \cup {None}]
      BY <2>2, <3>1 DEF GetAuthorizationUrl, TypeOK
    <3>3. UNCHANGED <<clock, tokens, handler, mural, exchanged, consent, bought, lost, overlapped>>
      BY <2>2 DEF GetAuthorizationUrl
    <3> QED
      BY <3>2, <3>3 DEF TypeOK
  <2> QED
    BY <1>2, <2>1, <2>2
<1>3. ASSUME NEW g \in Grants, Withdraw(g) \/ \E u \in Users : Consent(u, g)
       PROVE  TypeOK'
  <2>1. ASSUME NEW u \in Users, Consent(u, g)
        PROVE  TypeOK'
    BY <2>1 DEF Consent, TypeOK
  <2>2. CASE Withdraw(g)
    <3> DEFINE Grant == [code: {"none", "issued", "used", "withdrawn"},
                         live: SUBSET Gens, issued_at: Seq(Times)]
               withdrawn == [mural[g] EXCEPT !.code = "withdrawn", !.live = {}]
    <3>1. mural' = [mural EXCEPT ![g] = withdrawn]
      BY <2>2 DEF Withdraw
    <3>2. mural' \in [Grants -> Grant]
      <4>1. mural \in [Grants -> Grant] /\ mural[g] \in Grant
        BY DEF TypeOK
      <4>2. withdrawn \in Grant
        BY <4>1
      <4> HIDE DEF Grant, withdrawn
      <4> QED
        BY <3>1, <4>1, <4>2
    <3>3. UNCHANGED <<clock, states, tokens, handler, issued_to, exchanged, consent, bought,
                     lost, overlapped>>
      BY <2>2 DEF Withdraw
    <3> QED
      BY <3>2, <3>3 DEF TypeOK
  <2> QED
    BY <1>3, <2>1, <2>2
<1>4. ASSUME NEW h \in Handlers, NEW a \in Answers, Step(h, Idle(a)),
             UNCHANGED <<clock, states, tokens, mural, issued_to, exchanged, consent, bought>>,
             lost' \subseteq Grants
      PROVE  TypeOK'
  BY <1>4, StepOfOne, IdleTyped DEF TypeOK
<1>5. ASSUME NEW h \in Handlers, Lose(h)
      PROVE  lost' \subseteq Grants
  <2>1. handler[h].pc = "answered" => handler[h].grant \in Grants
    BY HandlerLocals
  <2>2. handler[h].pc = "store" => handler[h].token.grant \in Grants
    BY HandlerLocals DEF Token
  <2> QED
    BY <1>5, <2>1, <2>2 DEF Lose, TypeOK
<1>6. ASSUME NEW h \in Handlers, Unreachable(h) \/ Abandon(h)
      PROVE  TypeOK'
  <2>1. \E a \in Answers : Step(h, Idle(a))
    BY <1>6 DEF Unreachable, Abandon, Answers
  <2> QED
    BY <1>4, <1>5, <1>6, <2>1 DEF Unreachable, Abandon
<1>7. ASSUME NEW h \in Handlers, MuralRefuses(h) \/ CallMural(h)
      PROVE  TypeOK'
  <2>1. \E a \in Answers : Step(h, Idle(a))
    BY <1>7 DEF MuralRefuses, CallMural, Answers
  <2>2. lost' \subseteq Grants
    BY <1>7 DEF MuralRefuses, CallMural, TypeOK
  <2> QED
    BY <1>4, <1>7, <2>1, <2>2 DEF MuralRefuses, CallMural
<1>8. ASSUME NEW h \in Handlers, NEW u \in Users, GetValidToken(h, u)
      PROVE  TypeOK'
  <2>1. PICK next \in HandlerState : Step(h, next)
    <3>1. CASE tokens[u] = NoToken
      BY <1>8, <3>1, IdleTyped DEF GetValidToken, Answers
    <3>2. CASE tokens[u] # NoToken
      <4>1. tokens[u] \in Token
        BY <3>2 DEF TypeOK
      <4>2. Refreshing(u, tokens[u]) \in HandlerState
        BY <4>1 DEF Refreshing, HandlerState
      <4>3. Calling(u, tokens[u]) \in HandlerState
        BY <4>1, DueTimes DEF Calling, HandlerState
      <4> QED
        BY <1>8, <3>2, <4>2, <4>3 DEF GetValidToken
    <3> QED
      BY <3>1, <3>2
  <2> QED
    BY <1>8, <2>1, StepOfOne DEF GetValidToken, TypeOK
<1>9. ASSUME NEW h \in Handlers, NEW u \in Users, Disconnect(h, u)
      PROVE  TypeOK'
  <2>1. Idle("ok") \in HandlerState
    BY IdleTyped DEF Answers
  <2> QED
    BY <1>9, <2>1 DEF Disconnect, TypeOK
<1>10. ASSUME NEW h \in Handlers, NEW u \in Users, NEW s \in StateIds,
             CompleteConnection(h, u, s)
      PROVE  TypeOK'
  <2>1. PICK next \in HandlerState : Step(h, next)
    <3>1. \A c \in Codes : Exchanging(u, s, c) \in HandlerState
      BY DEF Exchanging, HandlerState, Codes
    <3>2. Idle("OAuthStateError") \in HandlerState /\ Idle("LinkMismatchError") \in HandlerState
      BY IdleTyped DEF Answers
    <3> QED
      BY <1>10, <3>1, <3>2 DEF CompleteConnection
  <2>2. exchanged' \in [StateIds -> Seq(Users)]
    <3>1. Append(exchanged[s], u) \in Seq(Users)
      BY DEF TypeOK
    <3> QED
      BY <1>10, <3>1 DEF CompleteConnection, TypeOK
  <2> QED
    BY <1>10, <2>1, <2>2, StepOfOne DEF CompleteConnection, TypeOK
<1>11. ASSUME NEW h \in Handlers, MuralExchange(h)
       PROVE  TypeOK'
  <2> DEFINE g == handler[h].code
             refresh == IF RefreshPolicy = "none" THEN None ELSE 0
             new == [code |-> "used", live |-> {refresh} \ {None}, issued_at |-> <<clock>>]
             next == Answered(handler[h].user, g, 0, refresh, None, FALSE)
  <2>1. handler[h].pc = "exchange" /\ mural' = [mural EXCEPT ![g] = new] /\ Step(h, next)
    BY <1>11 DEF MuralExchange
  <2>2. g \in Grants /\ handler[h].user \in Users /\ handler[h].state \in StateIds
    BY <1>11, <2>1, HandlerLocals DEF MuralExchange
  <2>3. next \in HandlerState
    BY <2>2, AnswerTyped, Numbers
  <2>4. <<clock>> \in Seq(Times)
    BY DEF TypeOK
  <2>5. new \in [code: {"none", "issued", "used", "withdrawn"},
                    live: SUBSET Gens, issued_at: Seq(Times)]
    BY <2>4, Numbers
  <2>6. mural' \in [Grants -> [code: {"none", "issued", "used", "withdrawn"},
                               live: SUBSET Gens, issued_at: Seq(Times)]]
    BY <2>1, <2>5 DEF TypeOK
  <2>7. bought' \in [Grants -> Record \cup {NoRecord}]
    <3>1. [user |-> handler[h].user, state |-> handler[h].state] \in Record
      BY <2>2 DEF Record
    <3>2. bought' = [bought EXCEPT ![g] =
              [user |-> handler[h].user, state |-> handler[h].state]]
      BY <1>11 DEF MuralExchange
    <3> QED
      BY <3>1, <3>2 DEF TypeOK
  <2> QED
    BY <1>11, <2>1, <2>3, <2>6, <2>7, StepOfOne DEF MuralExchange, TypeOK
<1>12. ASSUME NEW h \in Handlers, MuralRefresh(h)
       PROVE  TypeOK'
  <2> DEFINE t == handler[h].token
             n == Len(mural[t.grant].issued_at)
             sent == IF RefreshPolicy = "rotate" THEN n ELSE None
             next == Answered(handler[h].user, t.grant, n, sent, t.refresh, TRUE)
  <2>1. handler[h].pc = "refresh" /\ n \in Gens /\ Step(h, next)
    BY <1>12 DEF MuralRefresh
  <2>2. t \in Token /\ handler[h].user \in Users
    BY <2>1, HandlerLocals
  <2>3. t.grant \in Grants /\ t.refresh \in Gens \cup {None}
    BY <2>2 DEF Token
  <2>4. next \in HandlerState
    BY <2>1, <2>2, <2>3, AnswerTyped
  <2> QED
    BY <1>12, <2>1, <2>4, MuralOfRefresh, StepOfOne DEF MuralRefresh, TypeOK
<1>13. ASSUME NEW h \in Handlers, ReceiveToken(h)
       PROVE  TypeOK'
  <2>1. ToToken(handler[h]) \in Token
    BY <1>13, ToTokenTyped DEF ReceiveToken
  <2>2. Storing(handler[h].user, ToToken(handler[h]), handler[h].for_call) \in HandlerState
    BY <1>13, <2>1, HandlerLocals, DueTimes DEF ReceiveToken, Storing, HandlerState
  <2> QED
    BY <1>13, <2>2, StepOfOne DEF ReceiveToken, TypeOK
<1>14. ASSUME NEW h \in Handlers, StoreTokens(h)
       PROVE  TypeOK'
  <2>1. handler[h].token \in Token /\ handler[h].user \in Users
    BY <1>14, HandlerLocals DEF StoreTokens
  <2>2. Calling(handler[h].user, handler[h].token) \in HandlerState
    BY <2>1, DueTimes DEF Calling, HandlerState
  <2>3. Idle("ok") \in HandlerState
    BY IdleTyped DEF Answers
  <2> QED
    BY <1>14, <2>1, <2>2, <2>3, StepOfOne DEF StoreTokens, TypeOK
<1>15. CASE Tick
  BY <1>15, Numbers DEF Tick, TypeOK, Times
<1> QED
  BY <1>1, <1>2, <1>6, <1>7, <1>8, <1>9, <1>10, <1>11, <1>12, <1>13, <1>14, <1>15, <1>3 DEF Next

\* The collections and the locals of calls keep their types.
THEOREM TypeCorrect == Spec => []TypeOK
BY InitTypeOK, StepTypeOK, PTL DEF Spec

-----------------------------------------------------------------------------
(* What a step may do to a document of the token store and to a call.        *)

\* Which actions change what is stored, what Mural has, and the time.
LEMMA Writers ==
    ASSUME [Next]_vars
    PROVE  /\ UNCHANGED clock \/ Tick
           /\ \/ UNCHANGED <<states, issued_to, exchanged>>
              \/ \E s \in StateIds, u \in Users : GetAuthorizationUrl(u, s)
              \/ \E s \in StateIds : SweepState(s)
              \/ \E h \in Handlers, u \in Users, s \in StateIds : CompleteConnection(h, u, s)
           /\ \/ UNCHANGED tokens
              \/ \E h \in Handlers : StoreTokens(h) \/ \E u \in Users : Disconnect(h, u)
           /\ \/ UNCHANGED mural
              \/ \E g \in Grants : Withdraw(g) \/ \E u \in Users : Consent(u, g)
              \/ \E h \in Handlers : MuralExchange(h) \/ MuralRefresh(h)
           /\ UNCHANGED bought \/ \E h \in Handlers : MuralExchange(h)
           /\ UNCHANGED lost \/ \E h \in Handlers : Unreachable(h) \/ Abandon(h)
<1>1. CASE UNCHANGED vars
  BY <1>1 DEF vars
<1>2. CASE Tick
  BY <1>2 DEF Tick
<1>3. ASSUME NEW s \in StateIds, NEW u \in Users, GetAuthorizationUrl(u, s)
      PROVE  UNCHANGED <<clock, tokens, mural, bought, lost>>
  BY <1>3 DEF GetAuthorizationUrl
<1>4. ASSUME NEW s \in StateIds, SweepState(s)
      PROVE  UNCHANGED <<clock, tokens, mural, bought, lost>>
  BY <1>4 DEF SweepState
<1>5. ASSUME NEW g \in Grants, Withdraw(g) \/ \E u \in Users : Consent(u, g)
      PROVE  UNCHANGED <<clock, states, issued_to, exchanged, bought, tokens, lost>>
  BY <1>5 DEF Consent, Withdraw
<1>6. ASSUME NEW h \in Handlers, NEW u \in Users, NEW s \in StateIds, CompleteConnection(h, u, s)
      PROVE  UNCHANGED <<clock, tokens, mural, bought, lost>>
  BY <1>6 DEF CompleteConnection
<1>7. ASSUME NEW h \in Handlers, MuralExchange(h) \/ MuralRefresh(h)
      PROVE  /\ UNCHANGED <<clock, states, issued_to, exchanged, tokens, lost>>
             /\ MuralRefresh(h) => UNCHANGED bought
  BY <1>7 DEF MuralExchange, MuralRefresh
<1>8. ASSUME NEW h \in Handlers, StoreTokens(h) \/ \E u \in Users : Disconnect(h, u)
      PROVE  UNCHANGED <<clock, states, issued_to, exchanged, bought, mural, lost>>
  BY <1>8 DEF StoreTokens, Disconnect
<1>9. ASSUME NEW h \in Handlers, Unreachable(h) \/ Abandon(h)
      PROVE  UNCHANGED <<clock, states, issued_to, exchanged, bought, tokens, mural>>
  BY <1>9 DEF Unreachable, Abandon
<1>10. ASSUME NEW h \in Handlers,
              \/ MuralRefuses(h) \/ ReceiveToken(h) \/ CallMural(h)
              \/ \E u \in Users : GetValidToken(h, u)
       PROVE  UNCHANGED <<clock, states, issued_to, exchanged, bought, tokens, mural, bought, lost>>
  BY <1>10 DEF MuralRefuses, ReceiveToken, CallMural, GetValidToken
<1> QED
  BY <1>1, <1>2, <1>3, <1>4, <1>5, <1>6, <1>7, <1>8, <1>9, <1>10 DEF Next

\* A step leaves a user's tokens, removes them, or stores those of the user's call.
LEMMA TokensStep ==
    ASSUME TypeOK, [Next]_vars, NEW u \in Users
    PROVE  \/ tokens'[u] = tokens[u]
           \/ \E h \in Handlers : Disconnect(h, u) /\ tokens'[u] = NoToken
           \/ \E h \in Handlers :
                 StoreTokens(h) /\ handler[h].user = u /\ tokens'[u] = handler[h].token
<1>1. ASSUME NEW h \in Handlers, StoreTokens(h)
      PROVE  \/ tokens'[u] = tokens[u]
             \/ handler[h].user = u /\ tokens'[u] = handler[h].token
  <2>1. tokens' = [tokens EXCEPT ![handler[h].user] = handler[h].token]
    BY <1>1 DEF StoreTokens
  <2>2. tokens \in [Users -> Token \cup {NoToken}]
    BY DEF TypeOK
  <2> QED
    BY <2>1, <2>2
<1>2. ASSUME NEW h \in Handlers, NEW v \in Users, Disconnect(h, v)
      PROVE  \/ tokens'[u] = tokens[u]
             \/ v = u /\ tokens'[u] = NoToken
  BY <1>2 DEF Disconnect, TypeOK
<1>3. \/ UNCHANGED tokens
      \/ \E h \in Handlers : StoreTokens(h) \/ \E v \in Users : Disconnect(h, v)
  BY Writers
<1> QED
  BY <1>1, <1>2, <1>3

\* A call stays where it is, ends, or moves on by its own action.
CallMoves(h) ==
    \/ handler'[h] = handler[h]
    \/ handler'[h].pc = "idle"
    \/ \E u \in Users, s \in StateIds :
          /\ CompleteConnection(h, u, s) /\ states[s] # NoState /\ states[s].user_id = u
          /\ \E c \in Codes : handler'[h] = Exchanging(u, s, c)
    \/ \E u \in Users :
          /\ GetValidToken(h, u) /\ tokens[u] # NoToken
          /\ handler'[h] = IF IsExpired(tokens[u]) THEN Refreshing(u, tokens[u])
                           ELSE Calling(u, tokens[u])
    \/ MuralExchange(h) \/ MuralRefresh(h) \/ ReceiveToken(h)
    \/ /\ StoreTokens(h) /\ handler[h].for_call
       /\ handler'[h] = Calling(handler[h].user, handler[h].token)

\* How one step moves a call: from each place on, only where the code goes.
LEMMA CallsStep ==
    ASSUME TypeOK, [Next]_vars, NEW h \in Handlers
    PROVE  CallMoves(h)
<1>1. ASSUME NEW g \in Handlers, NEW next, handler' = [handler EXCEPT ![g] = next]
      PROVE  /\ g # h => handler'[h] = handler[h]
             /\ g = h => handler'[h] = next
  BY <1>1 DEF TypeOK
<1>2. ASSUME NEW g \in Handlers,
             \/ MuralExchange(g) \/ MuralRefresh(g) \/ ReceiveToken(g)
      PROVE  CallMoves(h)
  BY <1>1, <1>2 DEF CallMoves, MuralExchange, MuralRefresh, ReceiveToken, Step
<1>3. ASSUME NEW g \in Handlers,
             MuralRefuses(g) \/ CallMural(g) \/ Unreachable(g) \/ Abandon(g)
      PROVE  CallMoves(h)
  BY <1>1, <1>3 DEF CallMoves, MuralRefuses, CallMural, Unreachable, Abandon, Step, Idle
<1>4. ASSUME NEW g \in Handlers, NEW u \in Users, Disconnect(g, u)
      PROVE  CallMoves(h)
  BY <1>1, <1>4 DEF CallMoves, Disconnect, Idle
<1>5. ASSUME NEW g \in Handlers, StoreTokens(g)
      PROVE  CallMoves(h)
  <2>1. Step(g, IF handler[g].for_call THEN Calling(handler[g].user, handler[g].token)
                ELSE Idle("ok"))
    BY <1>5 DEF StoreTokens
  <2>2. CASE handler[g].for_call
    BY <1>1, <1>5, <2>1, <2>2 DEF CallMoves, Step
  <2>3. CASE ~handler[g].for_call
    BY <1>1, <2>1, <2>3 DEF CallMoves, Step, Idle
  <2> QED
    BY <2>2, <2>3
<1>6. ASSUME NEW g \in Handlers, NEW u \in Users, GetValidToken(g, u)
      PROVE  CallMoves(h)
  <2>1. g # h => handler'[h] = handler[h]
    <3>1. \E next : handler' = [handler EXCEPT ![g] = next]
      BY <1>6 DEF GetValidToken, Step
    <3> QED
      BY <1>1, <3>1
  <2>2. CASE handler'[h] = handler[h]
    BY <2>2 DEF CallMoves
  <2>3. CASE g = h /\ tokens[u] = NoToken
    <3>1. handler'[h] = Idle("MuralTokenError")
      BY <1>1, <1>6, <2>3 DEF GetValidToken, Step
    <3> QED
      BY <3>1 DEF CallMoves, Idle
  <2>4. CASE g = h /\ tokens[u] # NoToken
    <3>1. handler'[h] = IF IsExpired(tokens[u]) THEN Refreshing(u, tokens[u])
                        ELSE Calling(u, tokens[u])
      BY <1>1, <1>6, <2>4 DEF GetValidToken, Step
    <3> QED
      BY <1>6, <2>4, <3>1 DEF CallMoves
  <2> QED
    BY <2>1, <2>2, <2>3, <2>4
<1>7. ASSUME NEW g \in Handlers, NEW u \in Users, NEW s \in StateIds, CompleteConnection(g, u, s)
      PROVE  CallMoves(h)
  <2>1. ASSUME NEW answer, Step(g, Idle(answer))
        PROVE  CallMoves(h)
    <3>1. handler'[h] = handler[h] \/ handler'[h] = Idle(answer)
      BY <1>1, <2>1 DEF Step
    <3> QED
      BY <3>1 DEF CallMoves, Idle
  <2>2. ASSUME states[s] # NoState, states[s].user_id = u,
               NEW c \in Codes, Step(g, Exchanging(u, s, c))
        PROVE  CallMoves(h)
    <3>1. /\ g # h => handler'[h] = handler[h]
          /\ g = h => handler'[h] = Exchanging(u, s, c)
      BY <1>1, <2>2 DEF Step
    <3> QED
      BY <1>7, <2>2, <3>1 DEF CallMoves
  <2> QED
    BY <1>7, <2>1, <2>2 DEF CompleteConnection
<1>8. \/ UNCHANGED handler
      \/ \E g \in Handlers :
            \/ MuralExchange(g) \/ MuralRefresh(g) \/ ReceiveToken(g) \/ MuralRefuses(g)
            \/ CallMural(g) \/ Unreachable(g) \/ Abandon(g) \/ StoreTokens(g)
            \/ \E u \in Users :
                  \/ Disconnect(g, u) \/ GetValidToken(g, u)
                  \/ \E s \in StateIds : CompleteConnection(g, u, s)
  BY DEF Next, vars, SweepState, Consent, Withdraw, GetAuthorizationUrl, Tick
<1> QED
  BY <1>2, <1>3, <1>4, <1>5, <1>6, <1>7, <1>8 DEF CallMoves

-----------------------------------------------------------------------------
(* Ownership is inductive.                                                   *)

\* The service starts with Ownership.
LEMMA InitOwnership == Init => Ownership
BY DEF Init, Ownership, StatesOK, GrantsOK, StoredOwn, CallsOwn, Idle

\* A state and its history only ever change by being issued, used or removed.
LEMMA StatesStep ==
    ASSUME TypeOK, [Next]_vars
    PROVE  \/ UNCHANGED <<states, issued_to, exchanged>>
           \/ \E s \in StateIds, u \in Users : GetAuthorizationUrl(u, s)
           \/ \E s \in StateIds : SweepState(s)
           \/ \E h \in Handlers, u \in Users, s \in StateIds : CompleteConnection(h, u, s)
BY Writers

\* What complete_connection does to its state.
LEMMA CompleteState ==
    ASSUME TypeOK, NEW h \in Handlers, NEW u \in Users, NEW s \in StateIds,
           CompleteConnection(h, u, s)
    PROVE  /\ states'[s] = NoState
           /\ \/ exchanged'[s] = exchanged[s]
              \/ /\ states[s] # NoState /\ states[s].user_id = u
                 /\ exchanged'[s] = Append(exchanged[s], u)
           /\ handler'[h].pc = "exchange" => exchanged'[s] = Append(exchanged[s], u)
           /\ \A r \in StateIds \ {s} :
                 states'[r] = states[r] /\ exchanged'[r] = exchanged[r]
           /\ UNCHANGED issued_to
<1>1. /\ states' = [states EXCEPT ![s] = NoState]
      /\ exchanged' = [exchanged EXCEPT ![s] =
             IF handler'[h].pc = "exchange" THEN Append(@, u) ELSE @]
      /\ UNCHANGED issued_to
  BY DEF CompleteConnection
<1>2. handler'[h].pc = "exchange" => states[s] # NoState /\ states[s].user_id = u
  BY DEF CompleteConnection, Step, Idle, TypeOK
<1> QED
  BY <1>1, <1>2 DEF TypeOK

\* A used state stays used, by the user who had it.
LEMMA UsedPersists ==
    ASSUME TypeOK, StatesOK, [Next]_vars, NEW u \in Users, NEW s \in StateIds, Used(u, s)
    PROVE  Used(u, s)'
<1>1. u # None /\ exchanged[s] # <<>>
  BY LinkingAssumption DEF Used
<1>2. issued_to[s] # None /\ states[s] = NoState
  BY <1>1 DEF StatesOK, Used
<1>3. ASSUME NEW r \in StateIds, NEW v \in Users, GetAuthorizationUrl(v, r)
      PROVE  Used(u, s)'
  BY <1>2, <1>3 DEF GetAuthorizationUrl, Used, TypeOK
<1>4. ASSUME NEW h \in Handlers, NEW v \in Users, NEW r \in StateIds,
             CompleteConnection(h, v, r)
      PROVE  Used(u, s)'
  BY <1>2, <1>4, CompleteState DEF Used
<1> QED
  BY <1>3, <1>4, StatesStep DEF Used, SweepState

\* The giver's clause of Own follows from the rest of it.
LEMMA CompletedIsOwn == ASSUME NEW u, NEW g, Completed(u, g) PROVE Own(u, g)
BY DEF Own, Completed, AsGiven

\* Ownership of a grant is for good: its code buys nothing again.
LEMMA OwnPersists ==
    ASSUME TypeOK, StatesOK, GrantsOK, [Next]_vars,
           NEW u \in Users, NEW g \in Grants, Own(u, g)
    PROVE  Own(u, g)'
<1>1. bought[g] \in Record /\ bought[g].user = u /\ Used(u, bought[g].state)
  <2>1. bought[g] # NoRecord
    BY LinkingAssumption DEF Own, Completed, NoRecord
  <2> QED
    BY <2>1 DEF Own, Completed, Used, TypeOK
<1>2. bought'[g] = bought[g]
  <2>1. ASSUME NEW h \in Handlers, MuralExchange(h)
        PROVE  bought'[g] = bought[g]
    <3>1. /\ handler[h].code \in Grants /\ mural[handler[h].code].code = "issued"
          /\ bought' = [bought EXCEPT ![handler[h].code] =
                 [user |-> handler[h].user, state |-> handler[h].state]]
      BY <2>1, HandlerLocals DEF MuralExchange
    <3>2. bought[handler[h].code] = NoRecord
      BY <3>1 DEF GrantsOK
    <3>3. handler[h].code # g
      BY <1>1, <3>2, LinkingAssumption DEF NoRecord
    <3> QED
      BY <3>1, <3>3 DEF TypeOK
  <2> QED
    BY <2>1, Writers
<1>3. PICK s \in StateIds : s = bought[g].state
  BY <1>1 DEF Record
<1>4. Used(u, s)'
  BY <1>1, <1>3, UsedPersists
<1>5. Completed(u, g)'
  BY <1>1, <1>2, <1>3, <1>4 DEF Completed, Used
<1> QED
  BY <1>5, CompletedIsOwn DEF Own, Completed, AsGiven

\* A code that Mural has not been given yet has bought nothing.
LEMMA GrantsOKStep ==
    ASSUME TypeOK, GrantsOK, [Next]_vars
    PROVE  GrantsOK'
<1> SUFFICES ASSUME NEW g \in Grants, mural'[g].code \in {"none", "issued"}
             PROVE  bought'[g] = NoRecord
  BY DEF GrantsOK
<1>1. ASSUME NEW h \in Handlers, MuralExchange(h)
      PROVE  bought'[g] = NoRecord
  <2>1. handler[h].code \in Grants
    BY <1>1, HandlerLocals DEF MuralExchange
  <2>2. mural'[handler[h].code].code = "used"
    BY <1>1, <2>1 DEF MuralExchange, TypeOK
  <2>3. handler[h].code # g
    BY <2>2
  <2> QED
    BY <1>1, <2>1, <2>3 DEF MuralExchange, TypeOK, GrantsOK
<1>2. ASSUME NEW h \in Handlers, MuralRefresh(h)
      PROVE  mural'[g].code = mural[g].code
  BY <1>2, MuralOfRefresh
<1>3. ASSUME NEW k \in Grants, Withdraw(k) \/ \E u \in Users : Consent(u, k)
      PROVE  mural[g].code \in {"none", "issued"}
  <2>1. mural \in [Grants -> [code: {"none", "issued", "used", "withdrawn"},
                             live: SUBSET Gens, issued_at: Seq(Times)]]
    BY DEF TypeOK
  <2>2. CASE Withdraw(k)
    BY <2>1, <2>2 DEF Withdraw
  <2>3. ASSUME NEW u \in Users, Consent(u, k) PROVE mural[g].code \in {"none", "issued"}
    BY <2>1, <2>3 DEF Consent
  <2> QED
    BY <1>3, <2>2, <2>3
<1>4. CASE UNCHANGED bought
  <2>1. mural[g].code \in {"none", "issued"}
    BY <1>1, <1>2, <1>3, <1>4, Writers DEF MuralExchange, GrantsOK, TypeOK
  <2> QED
    BY <1>4, <2>1 DEF GrantsOK
<1> QED
  BY <1>1, <1>4, Writers

\* The OAuth states keep their owners and their uses.
LEMMA StatesOKStep ==
    ASSUME TypeOK, StatesOK, [Next]_vars
    PROVE  StatesOK'
<1>1. ASSUME NEW s \in StateIds, NEW u \in Users, GetAuthorizationUrl(u, s)
      PROVE  StatesOK'
  <2>1. /\ issued_to[s] = None /\ issued_to'[s] = u /\ u # None
        /\ states'[s] = [user_id |-> u, expires_at |-> clock + StateTtl]
        /\ \A r \in StateIds \ {s} : states'[r] = states[r] /\ issued_to'[r] = issued_to[r]
        /\ UNCHANGED exchanged
    BY <1>1, LinkingAssumption DEF GetAuthorizationUrl, TypeOK
  <2> QED
    BY <2>1 DEF StatesOK
<1>2. ASSUME NEW s \in StateIds, SweepState(s)
      PROVE  StatesOK'
  BY <1>2 DEF SweepState, StatesOK, TypeOK
<1>3. ASSUME NEW h \in Handlers, NEW u \in Users, NEW s \in StateIds,
             CompleteConnection(h, u, s)
      PROVE  StatesOK'
  <2>1. states[s] # NoState =>
            issued_to[s] # None /\ states[s].user_id = issued_to[s] /\ exchanged[s] = <<>>
    BY DEF StatesOK
  <2>2. states'[s] = NoState /\ exchanged'[s] \in {exchanged[s], <<issued_to[s]>>}
    <3>1. CASE exchanged'[s] = exchanged[s]
      BY <1>3, <3>1, CompleteState
    <3>2. CASE states[s] # NoState /\ exchanged'[s] = Append(exchanged[s], states[s].user_id)
      <4>1. exchanged'[s] = Append(<<>>, issued_to[s])
        BY <2>1, <3>2
      <4>2. exchanged'[s] = <<issued_to[s]>>
        BY <4>1
      <4> QED
        BY <1>3, <4>2, CompleteState
    <3> QED
      BY <1>3, <3>1, <3>2, CompleteState
  <2>3. issued_to[s] = None => exchanged'[s] = <<>>
    BY <1>3, <2>1, CompleteState DEF StatesOK
  <2>4. \A r \in StateIds \ {s} : states'[r] = states[r] /\ exchanged'[r] = exchanged[r]
    BY <1>3, CompleteState
  <2>5. UNCHANGED issued_to
    BY <1>3, CompleteState
  <2> QED
    BY <2>2, <2>3, <2>4, <2>5 DEF StatesOK
<1>4. CASE UNCHANGED <<states, issued_to, exchanged>>
  BY <1>4 DEF StatesOK
<1> QED
  BY <1>1, <1>2, <1>3, <1>4, StatesStep

\* Documents of tokens, and those that calls hold, name grants.
LEMMA TokensNameGrants ==
    ASSUME TypeOK
    PROVE  /\ \A u \in Users : tokens[u] # NoToken =>
                  tokens[u] \in Token /\ tokens[u].grant \in Grants
           /\ \A h \in Handlers :
                 handler[h].pc \in {"refresh", "store", "call"} =>
                     handler[h].token \in Token /\ handler[h].token.grant \in Grants
<1>1. \A u \in Users : tokens[u] # NoToken => tokens[u] \in Token
  BY DEF TypeOK
<1> QED
  BY <1>1, HandlerLocals DEF Token

\* Every step keeps Ownership.
LEMMA StepOwnership == TypeOK /\ Ownership /\ [Next]_vars => Ownership'
<1> SUFFICES ASSUME TypeOK, Ownership, [Next]_vars PROVE Ownership'
  OBVIOUS
<1> USE DEF Ownership
<1>1. StatesOK' /\ GrantsOK'
  BY StatesOKStep, GrantsOKStep
<1> DEFINE KeptState(s, u) == issued_to'[s] = u /\ exchanged'[s] = <<u>>
           Kept(g, u) == bought'[g].user = u /\ KeptState(bought'[g].state, u)
<1>2. \A u \in Users, s \in StateIds : Used(u, s) => KeptState(s, u)
  BY UsedPersists DEF Used
<1>3. \A u \in Users, g \in Grants : Own(u, g) => Kept(g, u)
  BY OwnPersists DEF Own, Completed
<1>4. StoredOwn'
  <2> SUFFICES ASSUME NEW u \in Users, tokens'[u] # NoToken
               PROVE  Kept(tokens'[u].grant, u)
    BY DEF StoredOwn, Own, Completed, AsGiven
  <2>1. CASE tokens'[u] = tokens[u]
    BY <1>3, <2>1, TokensNameGrants DEF StoredOwn
  <2>2. ASSUME NEW h \in Handlers, StoreTokens(h), handler[h].user = u,
               tokens'[u] = handler[h].token
        PROVE  Kept(tokens'[u].grant, u)
    BY <1>3, <2>2, TokensNameGrants DEF CallsOwn, StoreTokens
  <2> QED
    BY <2>1, <2>2, TokensStep
<1>5. CallsOwn'
  <2> SUFFICES ASSUME NEW h \in Handlers
               PROVE  /\ handler'[h].pc = "exchange" =>
                             KeptState(handler'[h].state, handler'[h].user)
                      /\ handler'[h].pc = "answered" =>
                             Kept(handler'[h].grant, handler'[h].user)
                      /\ handler'[h].pc \in {"refresh", "store", "call"} =>
                             Kept(handler'[h].token.grant, handler'[h].user)
    BY DEF CallsOwn, Own, Completed, AsGiven, Used
  <2>1. handler[h].pc = "exchange" => KeptState(handler[h].state, handler[h].user)
    BY <1>2, HandlerLocals DEF CallsOwn
  <2>2. handler[h].pc = "answered" => Kept(handler[h].grant, handler[h].user)
    BY <1>3, HandlerLocals DEF CallsOwn
  <2>3. handler[h].pc \in {"refresh", "store", "call"} =>
            Kept(handler[h].token.grant, handler[h].user)
    BY <1>3, HandlerLocals, TokensNameGrants DEF CallsOwn
  <2>4. \A u \in Users : tokens[u] # NoToken => Kept(tokens[u].grant, u)
    BY <1>3, TokensNameGrants DEF StoredOwn
  <2>5. ASSUME NEW u \in Users, NEW s \in StateIds, NEW c, CompleteConnection(h, u, s),
               states[s] # NoState, states[s].user_id = u, handler'[h] = Exchanging(u, s, c)
        PROVE  handler'[h].pc = "exchange" /\ KeptState(handler'[h].state, handler'[h].user)
    <3>1. issued_to[s] = u /\ exchanged[s] = <<>>
      BY <2>5 DEF StatesOK
    <3>2. handler'[h].pc = "exchange" /\ handler'[h].state = s /\ handler'[h].user = u
      BY <2>5 DEF Exchanging
    <3>3. issued_to'[s] = issued_to[s] /\ exchanged'[s] = Append(<<>>, u)
      BY <2>5, <3>1, <3>2, CompleteState
    <3> QED
      BY <3>1, <3>2, <3>3
  <2>6. ASSUME MuralExchange(h)
        PROVE  handler'[h].pc = "answered" /\ Kept(handler'[h].grant, handler'[h].user)
    <3>1. handler[h].pc = "exchange" /\ handler[h].code \in Grants
      BY <2>6, HandlerLocals DEF MuralExchange
    <3>2. /\ handler'[h].pc = "answered"
          /\ handler'[h].grant = handler[h].code /\ handler'[h].user = handler[h].user
      BY <2>6 DEF MuralExchange, Step, TypeOK, Answered
    <3>3. bought'[handler[h].code] = [user |-> handler[h].user, state |-> handler[h].state]
      BY <2>6, <3>1 DEF MuralExchange, TypeOK
    <3> QED
      BY <2>1, <3>1, <3>2, <3>3
  <2> HIDE DEF Kept, KeptState
  <2>7. ASSUME NEW u \in Users, tokens[u] # NoToken,
               handler'[h] = IF IsExpired(tokens[u]) THEN Refreshing(u, tokens[u])
                             ELSE Calling(u, tokens[u])
        PROVE  /\ handler'[h].pc \in {"refresh", "call"}
               /\ Kept(handler'[h].token.grant, handler'[h].user)
    BY <2>4, <2>7 DEF Refreshing, Calling
  <2>8. ASSUME MuralRefresh(h)
        PROVE  handler'[h].pc = "answered" /\ Kept(handler'[h].grant, handler'[h].user)
    BY <2>3, <2>8 DEF MuralRefresh, Step, TypeOK, Answered
  <2>9. ASSUME ReceiveToken(h)
        PROVE  handler'[h].pc = "store" /\ Kept(handler'[h].token.grant, handler'[h].user)
    BY <2>2, <2>9 DEF ReceiveToken, Step, TypeOK, Storing, ToToken
  <2>10. ASSUME StoreTokens(h), handler'[h] = Calling(handler[h].user, handler[h].token)
         PROVE  handler'[h].pc = "call" /\ Kept(handler'[h].token.grant, handler'[h].user)
    BY <2>3, <2>10 DEF StoreTokens, Calling
  <2>11. CallMoves(h)
    BY CallsStep
  <2>12. \/ handler'[h].pc = "idle"
         \/ handler'[h].pc = "exchange" /\ KeptState(handler'[h].state, handler'[h].user)
         \/ handler'[h].pc = "answered" /\ Kept(handler'[h].grant, handler'[h].user)
         \/ /\ handler'[h].pc \in {"refresh", "store", "call"}
            /\ Kept(handler'[h].token.grant, handler'[h].user)
    BY <2>1, <2>2, <2>3, <2>5, <2>6, <2>7, <2>8, <2>9, <2>10, <2>11, HandlerLocals DEF CallMoves
  <2> QED
    BY <2>12
<1> QED
  BY <1>1, <1>4, <1>5

\* A grant that was bought stays with the one user for whom it was bought, in
\* the callback that used up a state issued to this user; calls on their way to
\* buy one have used up such a state, and those that hold tokens hold them of it.
THEOREM GrantsAreOwned == Spec => []Ownership
BY InitOwnership, StepOwnership, TypeCorrect, PTL DEF Spec

\* However often a callback is called, its state completes one connection.
THEOREM StatesAreUsedOnce == Spec => []StateUsedOnce
<1>1. Ownership => StateUsedOnce
  <2> SUFFICES ASSUME Ownership, NEW s \in StateIds PROVE Len(exchanged[s]) <= 1
    BY DEF StateUsedOnce
  <2>1. CASE exchanged[s] = <<>>
    BY <2>1
  <2>2. CASE exchanged[s] = <<issued_to[s]>>
    BY <2>2
  <2> QED
    BY <2>1, <2>2 DEF Ownership, StatesOK
<1> QED
  BY <1>1, GrantsAreOwned, PTL

\* The tokens stored for a user, and those a call uses for one, are of a grant
\* bought in a callback of this user with a state issued to this user, whoever
\* gave it; and of one this user gave, where the code came back beside a state
\* of its giver.
THEOREM TokensAreOwned == Spec => []TokensOfOwnGrant
<1>1. Ownership => TokensOfOwnGrant
  BY DEF Ownership, StoredOwn, CallsOwn, Own, TokensOfOwnGrant
<1> QED
  BY <1>1, GrantsAreOwned, PTL

-----------------------------------------------------------------------------
(* Ages are inductive.                                                       *)

\* The service starts with Ages.
LEMMA InitAges == Init => Ages
BY DEF Init, Ages, StoredTimely, CallsTimely, Idle

\* What Append does to a sequence.
LEMMA AppendLast ==
    ASSUME NEW S, NEW seq \in Seq(S), NEW x \in S
    PROVE  /\ Len(seq) \in Nat
           /\ Len(Append(seq, x)) = Len(seq) + 1
           /\ Append(seq, x)[Len(seq) + 1] = x
OBVIOUS

\* What Mural issued of a grant stays on record.
LEMMA IssuedPersists ==
    ASSUME TypeOK, [Next]_vars, NEW g \in Grants, NEW n \in Gens, Issued(g, n)
    PROVE  /\ Issued(g, n)'
           /\ mural'[g].issued_at[n + 1] = mural[g].issued_at[n + 1]
           /\ mural[g].issued_at[n + 1] \in Int
<1>1. mural[g].issued_at \in Seq(Times) /\ Bought(g) /\ n + 1 \in 1..Len(mural[g].issued_at)
  BY DEF TypeOK, Issued
<1>2. mural[g].issued_at[n + 1] \in Int
  <2>1. mural[g].issued_at[n + 1] \in Times
    BY <1>1
  <2> QED
    BY <2>1, LinkingAssumption DEF Times
<1>3. ASSUME mural'[g].issued_at = mural[g].issued_at, Bought(g)'
      PROVE  /\ Issued(g, n)'
             /\ mural'[g].issued_at[n + 1] = mural[g].issued_at[n + 1]
  BY <1>1, <1>3 DEF Issued
<1>4. ASSUME NEW k \in Grants, Withdraw(k) \/ \E u \in Users : Consent(u, k)
      PROVE  mural'[g].issued_at = mural[g].issued_at /\ Bought(g)'
  <2>1. ASSUME NEW u \in Users, Consent(u, k)
        PROVE  mural'[g].issued_at = mural[g].issued_at /\ Bought(g)'
    <3>1. mural[k].code = "none" /\ mural' = [mural EXCEPT ![k].code = "issued"]
      BY <2>1 DEF Consent
    <3>2. k # g
      BY <1>1, <3>1 DEF Bought
    <3> QED
      BY <1>1, <3>1, <3>2 DEF Bought, TypeOK
  <2>2. CASE Withdraw(k)
    <3>1. mural' = [mural EXCEPT ![k].code = "withdrawn", ![k].live = {}]
      BY <2>2 DEF Withdraw
    <3>2. mural'[g].issued_at = mural[g].issued_at
      BY <3>1 DEF TypeOK
    <3>3. mural'[g].code \in {mural[g].code, "withdrawn"}
      BY <3>1 DEF TypeOK
    <3> QED
      BY <1>1, <3>2, <3>3 DEF Bought
  <2> QED
    BY <1>4, <2>1, <2>2
<1>5. ASSUME NEW h \in Handlers, MuralExchange(h)
      PROVE  mural'[g].issued_at = mural[g].issued_at /\ Bought(g)'
  <2>1. handler[h].code # g
    BY <1>1, <1>5 DEF MuralExchange, Bought
  <2> QED
    BY <1>1, <1>5, <2>1 DEF MuralExchange, Bought, TypeOK
<1>6. ASSUME NEW h \in Handlers, MuralRefresh(h)
      PROVE  /\ Issued(g, n)'
             /\ mural'[g].issued_at[n + 1] = mural[g].issued_at[n + 1]
  <2>1. CASE handler[h].token.grant # g
    <3>1. mural'[g] = mural[g]
      BY <1>6, <2>1, MuralOfRefresh
    <3> QED
      BY <1>1, <1>3, <3>1 DEF Bought
  <2>2. CASE handler[h].token.grant = g
    <3>1. /\ mural'[g].code = mural[g].code
          /\ mural'[g].issued_at = Append(mural[g].issued_at, clock)
      BY <1>6, <2>2, MuralOfRefresh
    <3>2. clock \in Times
      BY DEF TypeOK
    <3>3. /\ Len(mural'[g].issued_at) = Len(mural[g].issued_at) + 1
          /\ mural'[g].issued_at[n + 1] = mural[g].issued_at[n + 1]
      BY <1>1, <3>1, <3>2
    <3> QED
      BY <1>1, <3>1, <3>3 DEF Issued, Bought
  <2> QED
    BY <2>1, <2>2
<1>7. CASE UNCHANGED mural
  <2>1. mural'[g] = mural[g]
    BY <1>7
  <2>2. Bought(g)'
    BY <1>1, <2>1 DEF Bought
  <2> QED
    BY <1>2, <1>3, <2>1, <2>2
<1>8. \/ UNCHANGED mural
      \/ \E k \in Grants : Withdraw(k) \/ \E u \in Users : Consent(u, k)
      \/ \E h \in Handlers : MuralExchange(h) \/ MuralRefresh(h)
  BY Writers
<1> QED
  BY <1>2, <1>3, <1>4, <1>5, <1>6, <1>7, <1>8

\* Time passes only while no answer and no token handed out is overdue.
LEMMA ClockStep ==
    ASSUME TypeOK, [Next]_vars, NEW h \in Handlers
    PROVE  \/ clock' = clock
           \/ /\ clock' = clock + 1 /\ handler'[h] = handler[h]
              /\ handler[h].pc \in {"answered", "store", "call"} => clock < handler[h].due
BY Writers DEF Tick

\* A token that was timely is.
LEMMA TimelyPersists ==
    ASSUME TypeOK, [Next]_vars, NEW t \in Token, Timely(t)
    PROVE  /\ Issued(t.grant, t.access)'
           /\ mural'[t.grant].issued_at[t.access + 1] = mural[t.grant].issued_at[t.access + 1]
           /\ mural[t.grant].issued_at[t.access + 1] \in Int
           /\ SendsExpiry =>
                 /\ t.expires_at # None
                 /\ t.expires_at <= mural'[t.grant].issued_at[t.access + 1] + Delay + Lifetime
<1>1. t.grant \in Grants /\ t.access \in Gens
  BY DEF Token
<1> QED
  BY <1>1, IssuedPersists DEF Timely

\* Every step keeps Ages.
LEMMA StepAges ==
    ASSUME TypeOK, TypeOK', Ages, [Next]_vars
    PROVE  Ages'
<1> USE DEF Ages
<1> DEFINE
      issue(g, n) == mural'[g].issued_at[n + 1]
      issued(g, n) == /\ mural'[g].code \in {"used", "withdrawn"}
                      /\ n + 1 \in 1..Len(mural'[g].issued_at)
      timely(t) == /\ issued(t.grant, t.access)
                   /\ SendsExpiry =>
                         /\ t.expires_at # None
                         /\ t.expires_at <= issue(t.grant, t.access) + Delay + Lifetime
<1>1. clock \in Int /\ Delay \in Int /\ Lifetime \in Int /\ Leeway \in Int
      /\ 0 <= Delay
  BY Numbers, DueTimes
<1>2. ASSUME NEW t \in Token, Timely(t)
      PROVE  /\ timely(t) /\ issue(t.grant, t.access) \in Int
             /\ issue(t.grant, t.access) = mural[t.grant].issued_at[t.access + 1]
  BY <1>2, TimelyPersists DEF Issued, Bought
<1>3. ASSUME NEW t \in Token, SendsExpiry, timely(t)
      PROVE  t.expires_at \in Int /\ t.expires_at # None
  BY <1>3, Numbers DEF Token
<1> HIDE DEF timely
<1>4. StoredTimely'
  <2> SUFFICES ASSUME NEW u \in Users, tokens'[u] # NoToken
               PROVE  timely(tokens'[u])
    BY DEF StoredTimely, Timely, Issued, Bought, timely
  <2>1. CASE tokens'[u] = tokens[u]
    BY <1>2, <2>1, TokensNameGrants DEF StoredTimely
  <2>2. ASSUME NEW h \in Handlers, StoreTokens(h), tokens'[u] = handler[h].token
        PROVE  timely(tokens'[u])
    BY <1>2, <2>2, TokensNameGrants DEF CallsTimely, StoreTokens
  <2> QED
    BY <2>1, <2>2, TokensStep
<1>5. CallsTimely'
  <2> SUFFICES ASSUME NEW h \in Handlers
               PROVE  LET c == handler'[h] IN
                      /\ c.pc \in {"refresh", "store", "call"} => timely(c.token)
                      /\ c.pc = "answered" =>
                            /\ issued(c.grant, c.gen)
                            /\ clock' <= c.due
                            /\ c.due <= issue(c.grant, c.gen) + Delay
                      /\ c.pc = "store" =>
                            /\ clock' <= c.due
                            /\ c.due <= issue(c.token.grant, c.token.access) + 2 * Delay
                      /\ c.pc = "call" =>
                            /\ clock' <= c.due
                            /\ SendsExpiry =>
                                  c.due < issue(c.token.grant, c.token.access) + Lifetime
    BY DEF CallsTimely, Timely, Issued, Bought, timely
  <2> DEFINE old == handler[h]
             c == handler'[h]
             Right == /\ c.pc \in {"refresh", "store", "call"} => timely(c.token)
                      /\ c.pc = "answered" =>
                            /\ issued(c.grant, c.gen)
                            /\ clock' <= c.due
                            /\ c.due <= issue(c.grant, c.gen) + Delay
                      /\ c.pc = "store" =>
                            /\ clock' <= c.due
                            /\ c.due <= issue(c.token.grant, c.token.access) + 2 * Delay
                      /\ c.pc = "call" =>
                            /\ clock' <= c.due
                            /\ SendsExpiry =>
                                  c.due < issue(c.token.grant, c.token.access) + Lifetime
  <2>1. old.pc \in {"answered", "store", "call"} => old.due \in Int
    BY HandlerLocals
  <2>2. old.pc \in {"refresh", "store", "call"} =>
            /\ old.token \in Token /\ timely(old.token)
            /\ issue(old.token.grant, old.token.access) \in Int
            /\ issue(old.token.grant, old.token.access) =
                  mural[old.token.grant].issued_at[old.token.access + 1]
    BY <1>2, TokensNameGrants DEF CallsTimely
  <2>3. old.pc = "answered" =>
            /\ issued(old.grant, old.gen)
            /\ issue(old.grant, old.gen) \in Int
            /\ issue(old.grant, old.gen) = mural[old.grant].issued_at[old.gen + 1]
            /\ old.grant \in Grants /\ old.gen \in Gens
    BY HandlerLocals, IssuedPersists DEF CallsTimely, Issued, Bought
  <2>4. ASSUME c = old PROVE Right
    <3>1. old.pc \in {"answered", "store", "call"} => clock <= old.due
      BY DEF CallsTimely
    <3>2. old.pc \in {"answered", "store", "call"} => clock' <= old.due
      BY <1>1, <2>1, <3>1, ClockStep
    <3> QED
      BY <2>2, <2>3, <2>4, <3>2 DEF CallsTimely
  <2>5. ASSUME c.pc \in {"idle", "exchange"} PROVE Right
    BY <2>5
  <2>6. ASSUME NEW u \in Users, GetValidToken(h, u), tokens[u] # NoToken,
               c = IF IsExpired(tokens[u]) THEN Refreshing(u, tokens[u])
                   ELSE Calling(u, tokens[u])
        PROVE  Right
    <3> DEFINE t == tokens[u]
    <3>1. /\ t \in Token /\ timely(t) /\ issue(t.grant, t.access) \in Int
          /\ clock' = clock
      BY <1>2, <2>6, TokensNameGrants DEF StoredTimely, GetValidToken
    <3>2. CASE IsExpired(t)
      BY <2>6, <3>1, <3>2 DEF Refreshing
    <3>3. CASE ~IsExpired(t)
      <4>1. c = Calling(u, t)
        BY <2>6, <3>3
      <4>2. c.pc = "call" /\ c.token = t /\ c.due = clock + Delay
        BY <4>1 DEF Calling
      <4>3. ASSUME SendsExpiry PROVE c.due < issue(t.grant, t.access) + Lifetime
        <5>1. /\ t.expires_at \in Int /\ t.expires_at # None
              /\ t.expires_at <= issue(t.grant, t.access) + Delay + Lifetime
          BY <1>3, <3>1, <4>3 DEF timely
        <5>2. ~(t.expires_at <= clock + Leeway)
          BY <3>3, <5>1 DEF IsExpired
        <5> HIDE DEF issue, t
        <5> QED
          BY <1>1, <3>1, <4>2, <5>1, <5>2, TimingAssumption
      <4>4. clock' <= c.due
        BY <1>1, <3>1, <4>2
      <4> QED
        BY <3>1, <4>2, <4>3, <4>4
    <3> QED
      BY <3>2, <3>3
  <2>7. ASSUME MuralExchange(h)
        PROVE  Right
    <3> DEFINE s == old.code
    <3>1. s \in Grants /\ clock' = clock
      BY <2>7, HandlerLocals DEF MuralExchange
    <3>2. mural'[s].code = "used" /\ mural'[s].issued_at = <<clock>>
      BY <2>7, <3>1 DEF MuralExchange, TypeOK
    <3>3. c.pc = "answered" /\ c.grant = s /\ c.gen = 0 /\ c.due = clock + Delay
      BY <2>7 DEF MuralExchange, Step, Answered, TypeOK
    <3>4. issued(s, 0) /\ issue(s, 0) = clock
      BY <3>2
    <3> QED
      BY <1>1, <3>1, <3>3, <3>4
  <2>8. ASSUME MuralRefresh(h)
        PROVE  Right
    <3> DEFINE g == old.token.grant
               n == Len(mural[g].issued_at)
    <3>1. /\ c.pc = "answered" /\ c.grant = g /\ c.gen = n /\ c.due = clock + Delay
          /\ old.pc = "refresh" /\ clock' = clock
      BY <2>8 DEF MuralRefresh, Step, Answered, TypeOK
    <3>2. mural[g].issued_at \in Seq(Times) /\ clock \in Times
      BY <2>8, MuralOfRefresh DEF TypeOK
    <3>3. mural'[g].issued_at = Append(mural[g].issued_at, clock)
      BY <2>8, MuralOfRefresh
    <3> DEFINE before == mural[g].issued_at
    <3>4. n \in Nat /\ Len(mural'[g].issued_at) = n + 1 /\ issue(g, n) = clock
      <4>1. /\ Len(before) \in Nat /\ Len(Append(before, clock)) = Len(before) + 1
            /\ Append(before, clock)[Len(before) + 1] = clock
        <5>1. before \in Seq(Times)
          BY <3>2
        <5> HIDE DEF before
        <5> QED
          BY <3>2, <5>1, AppendLast
      <4> QED
        BY <3>3, <4>1
    <3>5. mural'[g].code \in {"used", "withdrawn"}
      BY <2>2, <3>1 DEF timely
    <3> HIDE DEF n
    <3>6. issued(g, n)
      BY <3>4, <3>5
    <3> QED
      BY <1>1, <3>1, <3>4, <3>6
  <2>9. ASSUME ReceiveToken(h)
        PROVE  Right
    <3> DEFINE t == ToToken(old)
    <3>1. /\ old.pc = "answered" /\ clock' = clock
          /\ c.pc = "store" /\ c.token = t /\ c.due = clock + Delay
      BY <2>9 DEF ReceiveToken, Step, Storing, TypeOK
    <3>2. /\ t.grant = old.grant /\ t.access = old.gen
          /\ t.expires_at = IF SendsExpiry THEN clock + Lifetime ELSE None
      BY DEF ToToken
    <3>3. clock <= old.due /\ old.due <= issue(old.grant, old.gen) + Delay
      BY <2>3, <3>1 DEF CallsTimely
    <3>4. SendsExpiry => t.expires_at # None
      BY <1>1, <3>2, Numbers
    <3> HIDE DEF issue, t
    <3>5. clock + Lifetime <= issue(old.grant, old.gen) + Delay + Lifetime
      BY <1>1, <2>1, <2>3, <3>1, <3>3
    <3>6. timely(t)
      BY <2>3, <3>1, <3>2, <3>4, <3>5 DEF timely
    <3>7. c.due <= issue(old.grant, old.gen) + 2 * Delay /\ clock' <= c.due
      BY <1>1, <2>1, <2>3, <3>1, <3>3
    <3> QED
      BY <3>1, <3>2, <3>6, <3>7
  <2>10. ASSUME StoreTokens(h), c = Calling(old.user, old.token)
         PROVE  Right
    <3>1. /\ old.pc = "store" /\ clock' = clock
          /\ c.pc = "call" /\ c.token = old.token /\ c.due = clock + Delay
      BY <2>10 DEF StoreTokens, Calling
    <3>2. /\ clock <= old.due
          /\ old.due <= issue(old.token.grant, old.token.access) + 2 * Delay
      BY <2>2, <3>1 DEF CallsTimely
    <3> HIDE DEF issue
    <3>3. c.due < issue(old.token.grant, old.token.access) + Lifetime /\ clock' <= c.due
      BY <1>1, <2>1, <2>2, <3>1, <3>2, TimingAssumption
    <3> QED
      BY <2>2, <3>1, <3>3
  <2>11. CallMoves(h)
    BY CallsStep
  <2> HIDE DEF issue, issued
  <2>12. Right
    <3>1. ASSUME NEW u \in Users, NEW s \in StateIds, NEW x \in Codes,
                 c = Exchanging(u, s, x)
          PROVE  c.pc = "exchange"
      BY <3>1 DEF Exchanging
    <3> HIDE DEF Right
    <3> QED
      BY <2>4, <2>5, <2>6, <2>7, <2>8, <2>9, <2>10, <2>11, <3>1 DEF CallMoves
  <2> QED
    BY <2>12
<1> QED
  BY <1>4, <1>5

\* Tokens are stored, and used, in time.
THEOREM TokensAreTimely == Spec => []Ages
<1>1. TypeOK /\ TypeOK' /\ Ages /\ [Next]_vars => Ages'
  BY StepAges
<1> QED
  BY <1>1, InitAges, TypeCorrect, PTL DEF Spec

\* An access token handed out for a vendor call has not expired when the call
\* arrives at Mural.
THEOREM LeewaySuffices == Spec => []TokenOutlivesCall
<1>1. TypeOK /\ Ages => TokenOutlivesCall
  <2> SUFFICES ASSUME TypeOK, Ages, SendsExpiry, NEW h \in Handlers, handler[h].pc = "call"
               PROVE  clock < mural[handler[h].token.grant].issued_at[handler[h].token.access + 1]
                              + Lifetime
    BY DEF TokenOutlivesCall
  <2> DEFINE t == handler[h].token
  <2>1. t \in Token /\ Timely(t)
    BY HandlerLocals DEF Ages, CallsTimely
  <2>2. mural[t.grant].issued_at[t.access + 1] \in Int
    <3>1. t.grant \in Grants
      BY <2>1 DEF Token
    <3>2. mural[t.grant].issued_at \in Seq(Times)
      BY <3>1 DEF TypeOK
    <3>3. mural[t.grant].issued_at[t.access + 1] \in Times
      BY <2>1, <3>2 DEF Timely, Issued
    <3> QED
      BY <3>3, LinkingAssumption DEF Times
  <2>3. /\ clock <= handler[h].due
        /\ handler[h].due < mural[t.grant].issued_at[t.access + 1] + Lifetime
    BY DEF Ages, CallsTimely
  <2>4. clock \in Int /\ handler[h].due \in Int /\ Lifetime \in Int
    BY HandlerLocals, Numbers, DueTimes
  <2> HIDE DEF t
  <2> QED
    BY <2>2, <2>3, <2>4 DEF t
<1> QED
  BY <1>1, TypeCorrect, TokensAreTimely, PTL

-----------------------------------------------------------------------------
(* The last word is inductive.                                               *)

\* The service starts with LastWords.
LEMMA InitLastWords == Init => LastWords
BY DEF Init, LastWords, OverlapKnown, RefreshOfStored, InProgress, Holding, Idle

\* A step of a call counts overlaps anew, or is none, or is a disconnect.
LEMMA OverlapStep ==
    ASSUME [Next]_vars
    PROVE  \/ UNCHANGED <<handler, overlapped>>
           \/ \E h \in Handlers : \E next : Step(h, next)
           \/ \E h \in Handlers, u \in Users : Disconnect(h, u)
<1>1. ASSUME NEW h \in Handlers,
             \/ MuralExchange(h) \/ MuralRefresh(h) \/ MuralRefuses(h) \/ ReceiveToken(h)
             \/ StoreTokens(h) \/ CallMural(h) \/ Unreachable(h) \/ Abandon(h)
      PROVE  \E next : Step(h, next)
  BY <1>1 DEF MuralExchange, MuralRefresh, MuralRefuses, ReceiveToken, StoreTokens,
              CallMural, Unreachable, Abandon
<1>2. ASSUME NEW h \in Handlers, NEW u \in Users,
             GetValidToken(h, u) \/ \E s \in StateIds : CompleteConnection(h, u, s)
      PROVE  \E next : Step(h, next)
  BY <1>2 DEF GetValidToken, CompleteConnection
<1> QED
  BY <1>1, <1>2 DEF Next, vars, SweepState, Consent, Withdraw, GetAuthorizationUrl, Tick

\* While a call of a user whose calls do not overlap is in progress, no call
\* of the user was in progress beside it, before or after the step.
LEMMA AloneBefore ==
    ASSUME TypeOK, OverlapKnown, [Next]_vars, NEW u \in Users, NEW h \in Handlers,
           InProgress(h, u)', u \notin overlapped'
    PROVE  /\ u \notin overlapped
           /\ InProgress(h, u) =>
                 /\ \A k \in Handlers : ~Disconnect(k, u)
                 /\ \A k \in Handlers : k # h => ~InProgress(k, u)
<1>1. u \notin overlapped
  <2>1. ASSUME NEW k \in Handlers, NEW next, Step(k, next)
        PROVE  u \notin overlapped
    BY <2>1 DEF Step
  <2> QED
    BY <2>1, OverlapStep DEF Disconnect
<1>2. ASSUME InProgress(h, u), NEW k \in Handlers, Disconnect(k, u)
      PROVE  FALSE
  BY <1>2 DEF Disconnect
<1> QED
  BY <1>1, <1>2 DEF OverlapKnown

\* Every step keeps LastWords.
LEMMA StepLastWords ==
    ASSUME TypeOK, LastWords, [Next]_vars
    PROVE  LastWords'
<1> USE DEF LastWords
<1>1. OverlapKnown'
  <2> SUFFICES ASSUME NEW u \in Users, NEW g \in Handlers, NEW h \in Handlers, g # h,
                      InProgress(g, u)', InProgress(h, u)'
               PROVE  u \in overlapped'
    BY DEF OverlapKnown
  <2>1. ASSUME NEW k \in Handlers, NEW next, Step(k, next)
        PROVE  u \in overlapped'
    BY <2>1 DEF Step
  <2>2. ASSUME NEW k \in Handlers, NEW v \in Users, Disconnect(k, v)
        PROVE  u \in overlapped'
    <3>1. InProgress(g, u) /\ InProgress(h, u)
      BY <2>2 DEF Disconnect, InProgress, Idle, TypeOK
    <3> QED
      BY <2>2, <3>1 DEF Disconnect, OverlapKnown
  <2>3. CASE UNCHANGED <<handler, overlapped>>
    BY <2>3 DEF OverlapKnown, InProgress
  <2> QED
    BY <2>1, <2>2, <2>3, OverlapStep
<1>2. RefreshOfStored'
  <2> SUFFICES ASSUME NEW h \in Handlers, NEW u \in Users, handler'[h].user = u,
                      u \notin overlapped',
                      \/ handler'[h].pc = "refresh"
                      \/ handler'[h].pc \in {"answered", "store"} /\ handler'[h].for_call
               PROVE  LET g == IF handler'[h].pc = "answered" THEN handler'[h].grant
                               ELSE handler'[h].token.grant
                      IN  tokens'[u] # NoToken /\ tokens'[u].grant = g
    <3>1. \A h \in Handlers : handler'[h].pc # "idle" => handler'[h].user \in Users
      <4>1. handler' \in [Handlers -> HandlerState]
        BY StepTypeOK DEF TypeOK
      <4> QED
        BY <4>1 DEF HandlerState
    <3> QED
      BY <3>1 DEF RefreshOfStored, Holding, HeldGrant
  <2> DEFINE old == handler[h]
             new == handler'[h]
             grant(c) == IF c.pc = "answered" THEN c.grant ELSE c.token.grant
             Right == tokens'[u] # NoToken /\ tokens'[u].grant = grant(new)
  <2>1. InProgress(h, u)'
    BY DEF InProgress
  <2>2. /\ u \notin overlapped
        /\ InProgress(h, u) =>
              /\ \A k \in Handlers : ~Disconnect(k, u)
              /\ \A k \in Handlers : k # h => ~InProgress(k, u)
    BY <2>1, AloneBefore
  <2>3. ASSUME old.user = u, old.pc # "idle", ~StoreTokens(h)
        PROVE  tokens'[u] = tokens[u]
    <3>1. InProgress(h, u)
      BY <2>3 DEF InProgress
    <3>2. ASSUME NEW k \in Handlers, StoreTokens(k), handler[k].user = u
          PROVE  FALSE
      <4>1. k # h
        BY <2>3, <3>2
      <4>2. InProgress(k, u)
        BY <3>2 DEF StoreTokens, InProgress
      <4> QED
        BY <2>2, <3>1, <4>1, <4>2
    <3> QED
      BY <2>1, <2>2, <3>1, <3>2, TokensStep
  <2>4. old.user \notin overlapped =>
            ((old.pc = "refresh" \/ (old.pc \in {"answered", "store"} /\ old.for_call)) =>
                tokens[old.user] # NoToken /\ tokens[old.user].grant = grant(old))
    BY DEF RefreshOfStored, Holding, HeldGrant
  <2>5. ASSUME new = old PROVE Right
    <3>1. ~StoreTokens(h)
      BY <2>5 DEF StoreTokens, Step, Calling, Idle, TypeOK
    <3> QED
      BY <2>2, <2>3, <2>4, <2>5, <3>1
  <2>6. ASSUME NEW v \in Users, GetValidToken(h, v), tokens[v] # NoToken,
               new = IF IsExpired(tokens[v]) THEN Refreshing(v, tokens[v])
                     ELSE Calling(v, tokens[v])
        PROVE  Right
    <3>1. UNCHANGED tokens
      BY <2>6 DEF GetValidToken
    <3>2. new = Refreshing(v, tokens[v])
      BY <2>6 DEF Calling
    <3> QED
      BY <2>6, <3>1, <3>2 DEF Refreshing
  <2>7. ASSUME MuralExchange(h) PROVE FALSE
    BY <2>7 DEF MuralExchange, Step, Answered, TypeOK
  <2>8. ASSUME MuralRefresh(h) PROVE Right
    <3>1. /\ old.pc = "refresh" /\ UNCHANGED tokens
          /\ new.pc = "answered" /\ u = old.user /\ new.grant = old.token.grant
      BY <2>8 DEF MuralRefresh, Step, Answered, TypeOK
    <3> QED
      BY <2>2, <2>4, <3>1
  <2>9. ASSUME ReceiveToken(h) PROVE Right
    <3>1. /\ old.pc = "answered" /\ UNCHANGED tokens
          /\ new.pc = "store" /\ u = old.user /\ new.for_call = old.for_call
          /\ new.token.grant = old.grant
      BY <2>9 DEF ReceiveToken, Step, Storing, ToToken, TypeOK
    <3> QED
      BY <2>2, <2>4, <3>1
  <2>10. ASSUME new = Calling(old.user, old.token) PROVE FALSE
    BY <2>10 DEF Calling
  <2>11. ASSUME NEW v \in Users, NEW s \in StateIds, NEW x \in Codes,
                new = Exchanging(v, s, x)
         PROVE  FALSE
    BY <2>11 DEF Exchanging
  <2>12. CallMoves(h)
    BY CallsStep
  <2>13. Right
    <3>1. new.pc # "idle"
      OBVIOUS
    <3> HIDE DEF Right
    <3> QED
      BY <2>5, <2>6, <2>7, <2>8, <2>9, <2>10, <2>11, <2>12, <3>1 DEF CallMoves
  <2> QED
    BY <2>13
<1> QED
  BY <1>1, <1>2

\* Two calls of a user in progress count as overlapping, and a refresh that
\* nothing overlaps is of the grant that is stored.
THEOREM OverlapsAreKnown == Spec => []LastWords
<1>1. TypeOK /\ LastWords /\ [Next]_vars => LastWords'
  BY StepLastWords
<1> QED
  BY <1>1, InitLastWords, TypeCorrect, PTL DEF Spec

\* What a user last did, link or disconnect, stands until the user's next word,
\* unless two calls of this user overlapped.
THEOREM LastWordIsKept == Spec => LastWordStands
<1>1. ASSUME TypeOK, LastWords, [Next]_vars, NEW u \in Users \ overlapped,
             tokens'[u].grant \notin {tokens[u].grant, None}
      PROVE  ByCallback(u)
  <2>1. tokens'[u] # NoToken
    BY <1>1 DEF NoToken
  <2>2. PICK h \in Handlers : /\ StoreTokens(h) /\ handler[h].user = u
                              /\ tokens'[u] = handler[h].token
    BY <1>1, <2>1, TokensStep
  <2>3. handler[h].pc = "store" /\ handler[h].for_call \in BOOLEAN
    BY <1>1, <2>2, HandlerLocals DEF StoreTokens
  <2>4. handler[h].for_call => tokens[u].grant = handler[h].token.grant
    BY <1>1, <2>2, <2>3 DEF LastWords, RefreshOfStored, Holding, HeldGrant
  <2>5. ~handler[h].for_call
    BY <1>1, <2>2, <2>4
  <2> QED
    BY <2>2, <2>3, <2>5 DEF ByCallback
<1>2. TypeOK /\ LastWords /\ [Next]_vars =>
          [\A u \in Users \ overlapped :
              tokens'[u].grant \notin {tokens[u].grant, None} => ByCallback(u)]_vars
  BY <1>1
<1> QED
  BY <1>2, TypeCorrect, OverlapsAreKnown, PTL DEF Spec, LastWordStands

-----------------------------------------------------------------------------
(* Refresh tokens: what a step does to Mural's side and to what a call holds. *)

\* What Mural knows of a grant it has issued tokens of: it stays issued, and
\* its live refresh tokens change by its withdrawal or by a refresh only.
LEMMA MuralStep ==
    ASSUME TypeOK, [Next]_vars, NEW g \in Grants, Bought(g)
    PROVE  /\ Len(mural[g].issued_at) \in Nat /\ Len(mural'[g].issued_at) \in Nat
           /\ Len(mural'[g].issued_at) >= Len(mural[g].issued_at)
           /\ \/ mural'[g].code = "withdrawn"
              \/ mural'[g].code = mural[g].code /\ mural'[g].live = mural[g].live
              \/ \E h \in Handlers :
                    /\ MuralRefresh(h) /\ handler[h].token.grant = g
                    /\ RefreshPolicy = "rotate"
<1>1. mural[g].issued_at \in Seq(Times) /\ Len(mural[g].issued_at) \in Nat
  BY DEF TypeOK
<1>2. ASSUME mural'[g].issued_at = mural[g].issued_at
      PROVE  /\ Len(mural'[g].issued_at) \in Nat
             /\ Len(mural'[g].issued_at) >= Len(mural[g].issued_at)
  BY <1>1, <1>2
<1>3. ASSUME NEW s \in Grants, NEW u \in Users, Consent(u, s)
      PROVE  mural'[g] = mural[g]
  <2>1. mural[s].code = "none" /\ mural' = [mural EXCEPT ![s].code = "issued"]
    BY <1>3 DEF Consent
  <2>2. s # g
    BY <2>1 DEF Bought
  <2> QED
    BY <2>1, <2>2 DEF TypeOK
<1>4. ASSUME NEW s \in Grants, Withdraw(s)
      PROVE  /\ mural'[g].issued_at = mural[g].issued_at
             /\ mural'[g] = mural[g] \/ mural'[g].code = "withdrawn"
  <2>1. mural' = [mural EXCEPT ![s].code = "withdrawn", ![s].live = {}]
    BY <1>4 DEF Withdraw
  <2>2. CASE s # g
    BY <2>1, <2>2 DEF TypeOK
  <2>3. CASE s = g
    BY <2>1, <2>3 DEF TypeOK
  <2> QED
    BY <2>2, <2>3
<1>5. ASSUME NEW h \in Handlers, MuralExchange(h)
      PROVE  mural'[g] = mural[g]
  <2>1. handler[h].code # g
    BY <1>5 DEF MuralExchange, Bought
  <2> QED
    BY <1>5, <2>1 DEF MuralExchange, TypeOK
<1>6. ASSUME NEW h \in Handlers, MuralRefresh(h)
      PROVE  \/ mural'[g] = mural[g]
             \/ /\ handler[h].token.grant = g
                /\ mural'[g].code = mural[g].code
                /\ mural'[g].live = IF RefreshPolicy = "rotate"
                                    THEN {Len(mural[g].issued_at)} ELSE mural[g].live
                /\ mural'[g].issued_at = Append(mural[g].issued_at, clock)
  BY <1>6, MuralOfRefresh
<1>7. \/ UNCHANGED mural
      \/ \E k \in Grants : Withdraw(k) \/ \E u \in Users : Consent(u, k)
      \/ \E h \in Handlers : MuralExchange(h) \/ MuralRefresh(h)
  BY Writers
<1>8. CASE mural'[g] = mural[g]
  BY <1>2, <1>1, <1>8
<1>9. ASSUME NEW s \in Grants, Withdraw(s), mural'[g].code = "withdrawn"
      PROVE  /\ Len(mural'[g].issued_at) \in Nat
             /\ Len(mural'[g].issued_at) >= Len(mural[g].issued_at)
  BY <1>2, <1>4, <1>9
<1>10. ASSUME NEW h \in Handlers, handler[h].token.grant = g, MuralRefresh(h),
              mural'[g].code = mural[g].code,
              mural'[g].live = IF RefreshPolicy = "rotate"
                               THEN {Len(mural[g].issued_at)} ELSE mural[g].live,
              mural'[g].issued_at = Append(mural[g].issued_at, clock)
       PROVE  /\ Len(mural'[g].issued_at) \in Nat
              /\ Len(mural'[g].issued_at) >= Len(mural[g].issued_at)
              /\ \/ mural'[g].code = mural[g].code /\ mural'[g].live = mural[g].live
                 \/ RefreshPolicy = "rotate"
  <2>1. clock \in Times
    BY DEF TypeOK
  <2>2. Len(mural'[g].issued_at) = Len(mural[g].issued_at) + 1
    BY <1>1, <1>10, <2>1, AppendLast
  <2>3. RefreshPolicy # "rotate" => mural'[g].live = mural[g].live
    BY <1>10
  <2> QED
    BY <1>1, <1>10, <2>2, <2>3
<1> QED
  BY <1>1, <1>3, <1>4, <1>5, <1>6, <1>7, <1>8, <1>9, <1>10

\* A usable refresh token stays usable unless a refresh rotates it away.
LEMMA UsableStep ==
    ASSUME TypeOK, OneLive, [Next]_vars, NEW g \in Grants, Bought(g),
           NEW r \in Gens \cup {None}, Usable(g, r)
    PROVE  \/ Usable(g, r)'
           \/ \E h \in Handlers :
                 /\ MuralRefresh(h) /\ RefreshPolicy = "rotate"
                 /\ handler[h].token.grant = g /\ handler[h].token.refresh = r
<1>1. CASE mural'[g].code = "withdrawn"
  BY <1>1 DEF Usable
<1>2. CASE mural'[g].code = mural[g].code /\ mural'[g].live = mural[g].live
  BY <1>2 DEF Usable
<1>3. ASSUME NEW h \in Handlers, MuralRefresh(h), handler[h].token.grant = g,
             RefreshPolicy = "rotate"
      PROVE  Usable(g, r)' \/ handler[h].token.refresh = r
  <2>1. handler[h].token.refresh \in mural[g].live /\ mural'[g].code = mural[g].code
    BY <1>3, MuralOfRefresh DEF MuralRefresh
  <2>2. r \in mural[g].live => handler[h].token.refresh = r
    BY <1>3, <2>1 DEF OneLive
  <2> QED
    BY <2>1, <2>2 DEF Usable
<1> QED
  BY <1>1, <1>2, <1>3, MuralStep

\* A known refresh token stays known.
LEMMA KnownStep ==
    ASSUME TypeOK, [Next]_vars, NEW g \in Grants, Bought(g),
           NEW r \in Gens \cup {None}, Known(g, r)
    PROVE  Known(g, r)'
<1>1. r # None => r \in Nat
  BY Numbers
<1> QED
  BY <1>1, MuralStep DEF Known

\* What calls hold has its type, and is of a grant that Mural issued.
LEMMA HeldTyped ==
    ASSUME TypeOK, Ages
    PROVE  /\ \A u \in Users : tokens[u] # NoToken =>
                 /\ tokens[u].grant \in Grants /\ tokens[u].refresh \in Gens \cup {None}
                 /\ Bought(tokens[u].grant)
           /\ \A h \in Handlers : handler[h].pc = "refresh" =>
                 /\ handler[h].token.grant \in Grants
                 /\ handler[h].token.refresh \in Gens \cup {None}
                 /\ Bought(handler[h].token.grant)
           /\ \A h \in Handlers : Holding(h) =>
                 /\ HeldGrant(h) \in Grants /\ HeldRefresh(h) \in Gens \cup {None}
                 /\ Bought(HeldGrant(h))
<1>1. \A u \in Users : tokens[u] # NoToken => tokens[u] \in Token /\ Bought(tokens[u].grant)
  BY DEF TypeOK, Ages, StoredTimely, Timely, Issued
<1>2. \A h \in Handlers :
          /\ handler[h].pc \in {"refresh", "store"} =>
                handler[h].token \in Token /\ Bought(handler[h].token.grant)
          /\ handler[h].pc = "answered" =>
                /\ handler[h].grant \in Grants /\ Bought(handler[h].grant)
                /\ handler[h].sent \in Gens \cup {None}
                /\ handler[h].given \in Gens \cup {None}
  BY HandlerLocals DEF Ages, CallsTimely, Timely, Issued
<1> QED
  BY <1>1, <1>2 DEF Token, Holding, HeldGrant, HeldRefresh

\* Whatever a call is about to store after a step, it already held before, or
\* Mural has just answered it, and nothing else moved.
LEMMA HoldStep ==
    ASSUME TypeOK, [Next]_vars, NEW h \in Handlers, Holding(h)'
    PROVE  \/ /\ Holding(h) /\ HeldGrant(h)' = HeldGrant(h)
              /\ HeldRefresh(h)' = HeldRefresh(h)
           \/ /\ MuralExchange(h) \/ MuralRefresh(h)
              /\ UNCHANGED tokens
              /\ \A k \in Handlers \ {h} : handler'[k] = handler[k]
<1>1. CASE handler'[h] = handler[h]
  BY <1>1 DEF Holding, HeldGrant, HeldRefresh
<1>2. CASE ReceiveToken(h)
  <2>1. /\ handler[h].pc = "answered"
        /\ handler'[h] = Storing(handler[h].user, ToToken(handler[h]), handler[h].for_call)
    BY <1>2 DEF ReceiveToken, Step, TypeOK
  <2> QED
    BY <2>1 DEF Storing, ToToken, Holding, HeldGrant, HeldRefresh
<1>3. CASE MuralExchange(h) \/ MuralRefresh(h)
  <2>1. \E next : handler' = [handler EXCEPT ![h] = next]
    BY <1>3 DEF MuralExchange, MuralRefresh, Step
  <2>2. \A k \in Handlers \ {h} : handler'[k] = handler[k]
    BY <2>1 DEF TypeOK
  <2> QED
    BY <1>3, <2>2 DEF MuralExchange, MuralRefresh
<1>4. handler'[h].pc \in {"answered", "store"}
  BY DEF Holding
<1>5. CASE handler'[h].pc \in {"idle", "exchange", "refresh", "call"}
  BY <1>4, <1>5
<1>6. CallMoves(h)
  BY CallsStep
<1>7. ASSUME NEW u \in Users, NEW s \in StateIds, NEW c \in Codes,
             handler'[h] = Exchanging(u, s, c)
      PROVE  FALSE
  BY <1>4, <1>7 DEF Exchanging
<1>8. ASSUME handler'[h] = Calling(handler[h].user, handler[h].token)
      PROVE  FALSE
  BY <1>4, <1>8 DEF Calling
<1>9. ASSUME NEW u \in Users,
             handler'[h] = Refreshing(u, tokens[u]) \/ handler'[h] = Calling(u, tokens[u])
      PROVE  FALSE
  BY <1>4, <1>9 DEF Refreshing, Calling
<1> QED
  BY <1>1, <1>2, <1>3, <1>4, <1>5, <1>6, <1>7, <1>8, <1>9 DEF CallMoves

\* A refresh that is about to be sent was about to be before the step, or its
\* call has just read the stored token, and nothing else moved.
LEMMA RefreshStep ==
    ASSUME TypeOK, [Next]_vars, NEW h \in Handlers, handler'[h].pc = "refresh"
    PROVE  \/ handler'[h] = handler[h]
           \/ /\ UNCHANGED <<tokens, mural>>
              /\ \A k \in Handlers \ {h} : handler'[k] = handler[k]
              /\ \E u \in Users : tokens[u] # NoToken /\ handler'[h].token = tokens[u]
<1>1. ASSUME NEW u \in Users, GetValidToken(h, u), tokens[u] # NoToken,
             handler'[h] = IF IsExpired(tokens[u]) THEN Refreshing(u, tokens[u])
                           ELSE Calling(u, tokens[u])
      PROVE  /\ UNCHANGED <<tokens, mural>>
             /\ \A k \in Handlers \ {h} : handler'[k] = handler[k]
             /\ tokens[u] # NoToken /\ handler'[h].token = tokens[u]
  <2>1. UNCHANGED <<tokens, mural>>
    BY <1>1 DEF GetValidToken
  <2>2. \E next : handler' = [handler EXCEPT ![h] = next]
    BY <1>1 DEF GetValidToken, Step
  <2>3. \A k \in Handlers \ {h} : handler'[k] = handler[k]
    BY <2>2 DEF TypeOK
  <2> QED
    BY <1>1, <2>1, <2>3 DEF Refreshing, Calling
<1>2. ASSUME NEW u \in Users, NEW s \in StateIds, NEW c \in Codes,
             handler'[h] = Exchanging(u, s, c)
      PROVE  FALSE
  BY <1>2 DEF Exchanging
<1>3. ASSUME MuralExchange(h) \/ MuralRefresh(h) \/ ReceiveToken(h)
      PROVE  FALSE
  <2>1. ASSUME NEW next, Step(h, next)
        PROVE  handler'[h] = next
    BY <2>1 DEF Step, TypeOK
  <2>2. CASE MuralExchange(h) \/ MuralRefresh(h)
    <3>1. \E u, g, n, sent, given, for_call :
             Step(h, Answered(u, g, n, sent, given, for_call))
      BY <2>2 DEF MuralExchange, MuralRefresh
    <3> QED
      BY <2>1, <3>1 DEF Answered
  <2>3. CASE ReceiveToken(h)
    BY <2>1, <2>3 DEF ReceiveToken, Storing
  <2> QED
    BY <1>3, <2>2, <2>3
<1>4. ASSUME handler'[h] = Calling(handler[h].user, handler[h].token)
      PROVE  FALSE
  BY <1>4 DEF Calling
<1>5. CallMoves(h)
  BY CallsStep
<1> QED
  BY <1>1, <1>2, <1>3, <1>4, <1>5 DEF CallMoves

\* What Mural has just answered a call is usable, known to Mural, and under
\* rotation a refresh token that nothing of the grant had before.
LEMMA JustAnswered ==
    ASSUME TypeOK, Ages, AllKnown, KeptUsable, [Next]_vars, NEW h \in Handlers,
           MuralExchange(h) \/ MuralRefresh(h)
    PROVE  /\ handler'[h].pc = "answered"
           /\ Known(HeldGrant(h), HeldRefresh(h))'
           /\ Usable(HeldGrant(h), HeldRefresh(h))'
           /\ RefreshPolicy = "rotate" =>
                 /\ handler'[h].sent # None /\ HeldRefresh(h)' # None
                 /\ Bought(HeldGrant(h)') =>
                       HeldRefresh(h)' = Len(mural[HeldGrant(h)'].issued_at)
<1>1. CASE MuralExchange(h)
  <2> DEFINE s == handler[h].code
             refresh == IF RefreshPolicy = "none" THEN None ELSE 0
  <2>1. /\ s \in Grants /\ mural[s].code = "issued"
    BY <1>1, HandlerLocals DEF MuralExchange
  <2>2. /\ handler'[h].pc = "answered" /\ handler'[h].grant = s
        /\ handler'[h].sent = refresh /\ handler'[h].given = None
    BY <1>1 DEF MuralExchange, Step, Answered, TypeOK
  <2>3. mural'[s].live = {refresh} \ {None} /\ mural'[s].issued_at = <<clock>>
    BY <1>1, <2>1 DEF MuralExchange, TypeOK
  <2>4. Len(mural'[s].issued_at) = 1
    BY <2>3
  <2>5. refresh # None => refresh = 0
    OBVIOUS
  <2>6. RefreshPolicy = "rotate" => refresh # None
    BY Numbers
  <2>7. HeldGrant(h)' = s /\ HeldRefresh(h)' = refresh
    BY <2>2 DEF HeldGrant, HeldRefresh
  <2> HIDE DEF refresh, s
  <2>8. refresh # None => refresh < Len(mural'[s].issued_at)
    BY <2>4, <2>5
  <2>9. Known(HeldGrant(h), HeldRefresh(h))'
    BY <2>7, <2>8 DEF Known
  <2>10. Usable(HeldGrant(h), HeldRefresh(h))'
    BY <2>3, <2>7 DEF Usable
  <2> QED
    BY <2>1, <2>2, <2>6, <2>7, <2>9, <2>10 DEF Bought
<1>2. CASE MuralRefresh(h)
  <2> DEFINE t == handler[h].token
             g == t.grant
             n == Len(mural[g].issued_at)
             sent == IF RefreshPolicy = "rotate" THEN n ELSE None
  <2>1. handler[h].pc = "refresh" /\ t.refresh \in mural[g].live
    BY <1>2 DEF MuralRefresh
  <2>2. /\ handler'[h].pc = "answered" /\ handler'[h].grant = g
        /\ handler'[h].sent = sent /\ handler'[h].given = t.refresh
    BY <1>2 DEF MuralRefresh, Step, Answered, TypeOK
  <2>3. /\ g \in Grants /\ n \in Gens /\ mural'[g].code = mural[g].code
        /\ mural'[g].live = IF RefreshPolicy = "rotate" THEN {n} ELSE mural[g].live
        /\ mural'[g].issued_at = Append(mural[g].issued_at, clock)
    BY <1>2, MuralOfRefresh
  <2>4. Len(mural'[g].issued_at) = n + 1
    <3> DEFINE before == mural[g].issued_at
    <3>1. clock \in Times
      BY DEF TypeOK
    <3>2. before \in Seq(Times)
      BY <2>3 DEF TypeOK
    <3>3. mural'[g].issued_at = Append(before, clock)
      BY <2>3
    <3>4. Len(Append(before, clock)) = Len(before) + 1
      <4> HIDE DEF before
      <4> QED
        BY <3>1, <3>2, AppendLast
    <3> QED
      BY <3>3, <3>4
  <2>5. n # None /\ n \in Nat
    <3>1. n \in Gens
      BY <2>3
    <3> HIDE DEF n
    <3> QED
      BY <3>1, Numbers
  <2>6. Known(g, t.refresh) /\ t.refresh \in Gens \cup {None}
    BY <2>1, HeldTyped DEF AllKnown
  <2>7. HeldGrant(h)' = g
    BY <2>2 DEF HeldGrant
  <2>8. HeldRefresh(h)' = IF RefreshPolicy = "rotate" THEN n ELSE t.refresh
    BY <2>2, <2>5 DEF HeldRefresh
  <2>9. t.refresh # None => t.refresh < n
    BY <2>6 DEF Known
  <2>10. t.refresh # None => t.refresh \in Nat
    BY <2>6, Numbers
  <2> HIDE DEF n, g, t, sent
  <2>11. Known(HeldGrant(h), HeldRefresh(h))'
    BY <2>4, <2>5, <2>7, <2>8, <2>9, <2>10 DEF Known
  <2>12. Usable(HeldGrant(h), HeldRefresh(h))'
    BY <2>1, <2>3, <2>7, <2>8 DEF Usable, t
  <2>13. RefreshPolicy = "rotate" =>
            /\ handler'[h].sent # None /\ HeldRefresh(h)' # None
            /\ HeldRefresh(h)' = Len(mural[HeldGrant(h)'].issued_at)
    BY <2>2, <2>5, <2>7, <2>8 DEF n, sent
  <2> QED
    BY <2>2, <2>11, <2>12, <2>13
<1> QED
  BY <1>1, <1>2

\* A call that holds tokens keeps them until it stores them or is over.
LEMMA HoldMoves ==
    ASSUME TypeOK, [Next]_vars, NEW h \in Handlers, Holding(h)
    PROVE  \/ handler'[h] = handler[h]
           \/ ReceiveToken(h) \/ StoreTokens(h) \/ Unreachable(h) \/ Abandon(h)
<1>1. handler[h].pc \in {"answered", "store"}
  BY DEF Holding
<1>2. ASSUME NEW g \in Handlers, NEW next, handler' = [handler EXCEPT ![g] = next], g # h
      PROVE  handler'[h] = handler[h]
  BY <1>2 DEF TypeOK
<1>3. ASSUME NEW g \in Handlers, NEW u \in Users, NEW s \in StateIds,
             CompleteConnection(g, u, s)
      PROVE  handler'[h] = handler[h]
  <2>1. g # h
    BY <1>1, <1>3 DEF CompleteConnection
  <2>2. \E next : handler' = [handler EXCEPT ![g] = next]
    BY <1>3 DEF CompleteConnection, Step
  <2> QED
    BY <1>2, <2>1, <2>2
<1>4. ASSUME NEW g \in Handlers, g # h,
             ReceiveToken(g) \/ StoreTokens(g) \/ Unreachable(g) \/ Abandon(g)
      PROVE  handler'[h] = handler[h]
  BY <1>2, <1>4 DEF ReceiveToken, StoreTokens, Unreachable, Abandon, Step
<1>5. ASSUME NEW g \in Handlers, NEW u \in Users, GetValidToken(g, u) \/ Disconnect(g, u)
      PROVE  handler'[h] = handler[h]
  <2>1. g # h
    BY <1>1, <1>5 DEF GetValidToken, Disconnect
  <2>2. \E next : handler' = [handler EXCEPT ![g] = next]
    BY <1>5 DEF GetValidToken, Disconnect, Step
  <2> QED
    BY <1>2, <2>1, <2>2
<1>6. ASSUME NEW g \in Handlers,
             MuralExchange(g) \/ MuralRefresh(g) \/ MuralRefuses(g) \/ CallMural(g)
      PROVE  handler'[h] = handler[h]
  <2>1. g # h
    BY <1>1, <1>6 DEF MuralExchange, MuralRefresh, MuralRefuses, CallMural
  <2>2. \E next : handler' = [handler EXCEPT ![g] = next]
    BY <1>6 DEF MuralExchange, MuralRefresh, MuralRefuses, CallMural, Step
  <2> QED
    BY <1>2, <2>1, <2>2
<1>7. \/ UNCHANGED handler
      \/ \E g \in Handlers :
            \/ MuralExchange(g) \/ MuralRefresh(g) \/ MuralRefuses(g) \/ CallMural(g)
            \/ ReceiveToken(g) \/ StoreTokens(g) \/ Unreachable(g) \/ Abandon(g)
            \/ \E u \in Users :
                  \/ Disconnect(g, u) \/ GetValidToken(g, u)
                  \/ \E s \in StateIds : CompleteConnection(g, u, s)
  BY DEF Next, vars, SweepState, Consent, Withdraw, GetAuthorizationUrl, Tick
<1> QED
  BY <1>3, <1>4, <1>5, <1>6, <1>7

\* A stored document was stored before, or a call has just stored what it held.
LEMMA StoredStep ==
    ASSUME TypeOK, [Next]_vars, NEW u \in Users, tokens'[u] # NoToken
    PROVE  \/ tokens'[u] = tokens[u]
           \/ \E h \in Handlers :
                 /\ StoreTokens(h) /\ Holding(h) /\ ~Holding(h)'
                 /\ tokens'[u].grant = HeldGrant(h) /\ tokens'[u].refresh = HeldRefresh(h)
                 /\ UNCHANGED mural
<1>1. ASSUME NEW h \in Handlers, StoreTokens(h), tokens'[u] = handler[h].token
      PROVE  /\ Holding(h) /\ ~Holding(h)'
             /\ tokens'[u].grant = HeldGrant(h) /\ tokens'[u].refresh = HeldRefresh(h)
             /\ UNCHANGED mural
  <2>1. handler[h].pc = "store" /\ UNCHANGED mural
    BY <1>1 DEF StoreTokens
  <2>2. handler'[h].pc \in {"call", "idle"}
    BY <1>1 DEF StoreTokens, Step, Calling, Idle, TypeOK
  <2> QED
    BY <1>1, <2>1, <2>2 DEF Holding, HeldGrant, HeldRefresh
<1> QED
  BY <1>1, TokensStep

-----------------------------------------------------------------------------
(* Refresh tokens: the invariant, part by part.                              *)

\* The service starts with Refreshes.
LEMMA InitRefreshes == Init => Refreshes
BY DEF Init, Refreshes, OneLive, AllKnown, HeldUsable, KeptUsable, HeldUnique,
       RefreshTokenUsable, Holding, Idle

\* A grant keeps to one refresh token that Mural accepts.
LEMMA OneLiveStep ==
    ASSUME TypeOK, OneLive, [Next]_vars
    PROVE  OneLive'
<1> SUFFICES ASSUME RefreshPolicy = "rotate", NEW s \in Grants,
                    NEW a \in mural'[s].live, NEW b \in mural'[s].live
             PROVE  a = b
  BY DEF OneLive
<1>1. CASE mural'[s].live = mural[s].live
  BY <1>1 DEF OneLive
<1>2. ASSUME NEW g \in Grants, NEW u \in Users, Consent(u, g)
      PROVE  mural'[s].live = mural[s].live
  BY <1>2 DEF Consent, TypeOK
<1>3. ASSUME NEW g \in Grants, Withdraw(g)
      PROVE  mural'[s].live \in {mural[s].live, {}}
  BY <1>3 DEF Withdraw, TypeOK
<1>4. ASSUME NEW h \in Handlers, MuralExchange(h)
      PROVE  mural'[s].live \in {mural[s].live, {0} \ {None}}
  BY <1>4 DEF MuralExchange, TypeOK
<1>5. ASSUME NEW h \in Handlers, MuralRefresh(h)
      PROVE  \/ mural'[s].live = mural[s].live
             \/ mural'[s].live = {Len(mural[s].issued_at)}
  BY <1>5, MuralOfRefresh
<1>6. \/ UNCHANGED mural
      \/ \E k \in Grants : Withdraw(k) \/ \E u \in Users : Consent(u, k)
      \/ \E h \in Handlers : MuralExchange(h) \/ MuralRefresh(h)
  BY Writers
<1> QED
  BY <1>1, <1>2, <1>3, <1>4, <1>5, <1>6

\* Where that refresh token is stays known.
LEMMA AllKnownStep ==
    ASSUME TypeOK, Ages, AllKnown, KeptUsable, [Next]_vars
    PROVE  AllKnown'
<1>1. ASSUME NEW h \in Handlers, Holding(h)
      PROVE  Known(HeldGrant(h), HeldRefresh(h))
  BY <1>1 DEF AllKnown
<1>2. ASSUME NEW u \in Users, tokens'[u] # NoToken
      PROVE  Known(tokens[u].grant, tokens[u].refresh)'
  <2>1. CASE tokens'[u] = tokens[u]
    BY <1>2, <2>1, HeldTyped, KnownStep DEF AllKnown, Known
  <2>2. ASSUME NEW h \in Handlers, Holding(h), UNCHANGED mural,
               tokens'[u].grant = HeldGrant(h), tokens'[u].refresh = HeldRefresh(h)
        PROVE  Known(tokens[u].grant, tokens[u].refresh)'
    BY <1>1, <2>2 DEF Known
  <2> QED
    BY <1>2, <2>1, <2>2, StoredStep
<1>3. ASSUME NEW h \in Handlers, handler'[h].pc = "refresh"
      PROVE  Known(handler[h].token.grant, handler[h].token.refresh)'
  <2>1. CASE handler'[h] = handler[h]
    BY <1>3, <2>1, HeldTyped, KnownStep DEF AllKnown, Known
  <2>2. ASSUME NEW u \in Users, tokens[u] # NoToken, handler'[h].token = tokens[u],
               UNCHANGED mural
        PROVE  Known(handler[h].token.grant, handler[h].token.refresh)'
    BY <2>2 DEF AllKnown, Known
  <2> QED
    BY <1>3, <2>1, <2>2, RefreshStep
<1>4. ASSUME NEW h \in Handlers, Holding(h)'
      PROVE  Known(HeldGrant(h), HeldRefresh(h))'
  <2>1. CASE Holding(h) /\ HeldGrant(h)' = HeldGrant(h) /\ HeldRefresh(h)' = HeldRefresh(h)
    BY <1>1, <2>1, HeldTyped, KnownStep DEF Known
  <2>2. CASE MuralExchange(h) \/ MuralRefresh(h)
    BY <2>2, JustAnswered
  <2> QED
    BY <1>4, <2>1, <2>2, HoldStep
<1> QED
  BY <1>2, <1>3, <1>4 DEF AllKnown

\* The refresh tokens that calls hold stay usable.
LEMMA HeldUsableStep ==
    ASSUME TypeOK, Ages, Refreshes, [Next]_vars
    PROVE  HeldUsable'
<1> SUFFICES ASSUME NEW h \in Handlers, Holding(h)'
             PROVE  Usable(HeldGrant(h), HeldRefresh(h))'
  BY DEF HeldUsable
<1>1. CASE MuralExchange(h) \/ MuralRefresh(h)
  BY <1>1, JustAnswered DEF Refreshes
<1>2. CASE Holding(h) /\ HeldGrant(h)' = HeldGrant(h) /\ HeldRefresh(h)' = HeldRefresh(h)
  <2>1. /\ HeldGrant(h) \in Grants /\ HeldRefresh(h) \in Gens \cup {None}
        /\ Bought(HeldGrant(h))
    BY <1>2, HeldTyped
  <2>2. Usable(HeldGrant(h), HeldRefresh(h))
    BY <1>2 DEF Refreshes, HeldUsable
  <2>3. ASSUME NEW k \in Handlers, MuralRefresh(k), RefreshPolicy = "rotate",
               handler[k].token.grant = HeldGrant(h),
               handler[k].token.refresh = HeldRefresh(h)
        PROVE  FALSE
    BY <1>2, <2>3 DEF Refreshes, HeldUnique, MuralRefresh
  <2>4. \/ Usable(HeldGrant(h), HeldRefresh(h))'
        \/ \E k \in Handlers :
              /\ MuralRefresh(k) /\ RefreshPolicy = "rotate"
              /\ handler[k].token.grant = HeldGrant(h)
              /\ handler[k].token.refresh = HeldRefresh(h)
    <3> DEFINE g == HeldGrant(h)
               r == HeldRefresh(h)
    <3>1. /\ g \in Grants /\ r \in Gens \cup {None} /\ Bought(g) /\ Usable(g, r)
      BY <2>1, <2>2
    <3> HIDE DEF g, r
    <3>2. \/ r \in mural'[g].live \cup {None} \/ mural'[g].code = "withdrawn"
          \/ \E k \in Handlers :
                /\ MuralRefresh(k) /\ RefreshPolicy = "rotate"
                /\ handler[k].token.grant = g /\ handler[k].token.refresh = r
      BY <3>1, UsableStep DEF Refreshes, Usable
    <3> QED
      BY <1>2, <3>2 DEF Usable, g, r
  <2> QED
    BY <2>3, <2>4
<1> QED
  BY <1>1, <1>2, HoldStep

\* The refresh tokens that are stored stay usable.
LEMMA KeptUsableStep ==
    ASSUME TypeOK, Ages, Refreshes, [Next]_vars
    PROVE  KeptUsable'
<1> SUFFICES ASSUME RefreshPolicy # "rotate" PROVE KeptUsable'
  BY DEF KeptUsable
<1>1. ASSUME NEW u \in Users, tokens'[u] # NoToken
      PROVE  Usable(tokens[u].grant, tokens[u].refresh)'
  <2>1. CASE tokens'[u] = tokens[u]
    BY <1>1, <2>1, HeldTyped, UsableStep DEF Refreshes, KeptUsable, Usable
  <2>2. ASSUME NEW h \in Handlers, Holding(h), UNCHANGED mural,
               tokens'[u].grant = HeldGrant(h), tokens'[u].refresh = HeldRefresh(h)
        PROVE  Usable(tokens[u].grant, tokens[u].refresh)'
    BY <2>2 DEF Refreshes, HeldUsable, Usable
  <2> QED
    BY <1>1, <2>1, <2>2, StoredStep
<1>2. ASSUME NEW h \in Handlers, handler'[h].pc = "refresh"
      PROVE  Usable(handler[h].token.grant, handler[h].token.refresh)'
  <2>1. CASE handler'[h] = handler[h]
    BY <1>2, <2>1, HeldTyped, UsableStep DEF Refreshes, KeptUsable, Usable
  <2>2. ASSUME NEW u \in Users, tokens[u] # NoToken, handler'[h].token = tokens[u],
               UNCHANGED mural
        PROVE  Usable(handler[h].token.grant, handler[h].token.refresh)'
    BY <2>2 DEF Refreshes, KeptUsable, Usable
  <2> QED
    BY <1>2, <2>1, <2>2, RefreshStep
<1> QED
  BY <1>1, <1>2 DEF KeptUsable

\* Under rotation the refresh token that Mural has just answered a call is new,
\* and one that a call has held since before was not stored or sent meanwhile.
LEMMA HeldUniqueStep ==
    ASSUME TypeOK, Ages, Refreshes, [Next]_vars
    PROVE  HeldUnique'
<1> SUFFICES ASSUME RefreshPolicy = "rotate", NEW h \in Handlers, Holding(h)'
             PROVE  /\ HeldRefresh(h)' # None
                    /\ \A u \in Users :
                          tokens'[u] # NoToken /\ tokens'[u].grant = HeldGrant(h)' =>
                              tokens'[u].refresh # HeldRefresh(h)'
                    /\ \A k \in Handlers :
                          /\ handler'[k].pc = "refresh"
                          /\ handler'[k].token.grant = HeldGrant(h)'
                          => handler'[k].token.refresh # HeldRefresh(h)'
                    /\ \A k \in Handlers \ {h} :
                          Holding(k)' /\ HeldGrant(k)' = HeldGrant(h)' =>
                              HeldRefresh(k)' # HeldRefresh(h)'
  BY DEF HeldUnique
<1>1. ASSUME NEW g \in Grants, Bought(g), NEW r \in Gens \cup {None}, r # None, Known(g, r)
      PROVE  r # Len(mural[g].issued_at)
  <2>1. r \in Nat /\ r < Len(mural[g].issued_at)
    BY <1>1, Numbers DEF Known
  <2>2. Len(mural[g].issued_at) \in Nat
    BY <1>1, MuralStep
  <2> QED
    BY <2>1, <2>2
<1>2. ASSUME NEW k \in Handlers, MuralExchange(k) \/ MuralRefresh(k)
      PROVE  /\ handler'[k].pc = "answered" /\ HeldRefresh(k)' # None
             /\ Bought(HeldGrant(k)') =>
                   HeldRefresh(k)' = Len(mural[HeldGrant(k)'].issued_at)
  BY <1>2, JustAnswered DEF Refreshes
<1>3. CASE Holding(h) /\ HeldGrant(h)' = HeldGrant(h) /\ HeldRefresh(h)' = HeldRefresh(h)
  <2> DEFINE g == HeldGrant(h)
             r == HeldRefresh(h)
  <2>1. g \in Grants /\ r \in Gens \cup {None} /\ Bought(g) /\ Known(g, r)
    BY <1>3, HeldTyped DEF Refreshes, AllKnown
  <2>2. /\ r # None
        /\ \A u \in Users : tokens[u] # NoToken /\ tokens[u].grant = g => tokens[u].refresh # r
        /\ \A k \in Handlers :
              handler[k].pc = "refresh" /\ handler[k].token.grant = g =>
                  handler[k].token.refresh # r
        /\ \A k \in Handlers \ {h} : Holding(k) /\ HeldGrant(k) = g => HeldRefresh(k) # r
    BY <1>3 DEF Refreshes, HeldUnique
  <2>3. HeldGrant(h)' = g /\ HeldRefresh(h)' = r
    BY <1>3
  <2> HIDE DEF g, r
  <2>4. ASSUME NEW u \in Users, tokens'[u] # NoToken, tokens'[u].grant = g
        PROVE  tokens'[u].refresh # r
    <3>1. CASE tokens'[u] = tokens[u]
      BY <2>2, <2>4, <3>1
    <3>2. ASSUME NEW k \in Handlers, Holding(k), ~Holding(k)',
                 tokens'[u].grant = HeldGrant(k), tokens'[u].refresh = HeldRefresh(k)
          PROVE  tokens'[u].refresh # r
      <4>1. k # h
        BY <3>2
      <4> QED
        BY <2>2, <2>4, <3>2, <4>1
    <3> QED
      BY <2>4, <3>1, <3>2, StoredStep
  <2>5. ASSUME NEW k \in Handlers, handler'[k].pc = "refresh", handler'[k].token.grant = g
        PROVE  handler'[k].token.refresh # r
    <3>1. CASE handler'[k] = handler[k]
      BY <2>2, <2>5, <3>1
    <3>2. ASSUME NEW u \in Users, tokens[u] # NoToken, handler'[k].token = tokens[u]
          PROVE  handler'[k].token.refresh # r
      BY <2>2, <2>5, <3>2
    <3> QED
      BY <2>5, <3>1, <3>2, RefreshStep
  <2>6. ASSUME NEW k \in Handlers \ {h}, Holding(k)', HeldGrant(k)' = g
        PROVE  HeldRefresh(k)' # r
    <3>1. CASE Holding(k) /\ HeldGrant(k)' = HeldGrant(k) /\ HeldRefresh(k)' = HeldRefresh(k)
      BY <2>2, <2>6, <3>1
    <3>2. CASE MuralExchange(k) \/ MuralRefresh(k)
      <4>1. HeldRefresh(k)' = Len(mural[g].issued_at)
        BY <1>2, <2>1, <2>6, <3>2
      <4> QED
        BY <1>1, <2>1, <2>2, <4>1
    <3> QED
      BY <2>6, <3>1, <3>2, HoldStep
  <2> QED
    BY <2>2, <2>3, <2>4, <2>5, <2>6
<1>4. CASE /\ MuralExchange(h) \/ MuralRefresh(h)
           /\ UNCHANGED tokens
           /\ \A k \in Handlers \ {h} : handler'[k] = handler[k]
  <2> DEFINE g == HeldGrant(h)'
             r == HeldRefresh(h)'
             n == Len(mural[g].issued_at)
  <2>1. handler'[h].pc = "answered" /\ r # None /\ (Bought(g) => r = n)
    BY <1>2, <1>4
  <2>2. ASSUME NEW u \in Users, tokens[u] # NoToken, tokens[u].grant = g
        PROVE  tokens[u].refresh # r
    BY <1>1, <2>1, <2>2, HeldTyped DEF Refreshes, AllKnown
  <2>3. ASSUME NEW k \in Handlers, handler[k].pc = "refresh", handler[k].token.grant = g
        PROVE  handler[k].token.refresh # r
    BY <1>1, <2>1, <2>3, HeldTyped DEF Refreshes, AllKnown
  <2>4. ASSUME NEW k \in Handlers, Holding(k), HeldGrant(k) = g
        PROVE  HeldRefresh(k) # r
    BY <1>1, <2>1, <2>4, HeldTyped DEF Refreshes, AllKnown
  <2>5. ASSUME NEW k \in Handlers, handler'[k].pc = "refresh"
        PROVE  handler'[k] = handler[k]
    BY <1>4, <2>1, <2>5
  <2>6. ASSUME NEW k \in Handlers \ {h}
        PROVE  /\ Holding(k)' = Holding(k) /\ HeldGrant(k)' = HeldGrant(k)
               /\ HeldRefresh(k)' = HeldRefresh(k)
    BY <1>4, <2>6 DEF Holding, HeldGrant, HeldRefresh
  <2> HIDE DEF g, r, n
  <2> QED
    BY <1>4, <2>1, <2>2, <2>3, <2>4, <2>5, <2>6 DEF g, r
<1> QED
  BY <1>3, <1>4, HoldStep

\* A grant whose refreshed token was lost stays in the history of those.
LEMMA LostGrows ==
    ASSUME [Next]_vars
    PROVE  lost \subseteq lost'
<1>1. ASSUME NEW h \in Handlers, Lose(h)
      PROVE  lost \subseteq lost'
  BY <1>1 DEF Lose
<1>2. UNCHANGED lost \/ \E h \in Handlers : Unreachable(h) \/ Abandon(h)
  BY Writers
<1> QED
  BY <1>1, <1>2 DEF Unreachable, Abandon

\* Call h holds the successor of document t of user u.
Succeeds(h, u, t) ==
    /\ handler[h].pc \in {"answered", "store"} /\ handler[h].for_call
    /\ handler[h].user = u
    /\ \/ /\ handler[h].pc = "answered"
          /\ handler[h].grant = t.grant /\ handler[h].given = t.refresh
       \/ handler[h].pc = "store" /\ handler[h].token.grant = t.grant

\* The refresh that rotates a stored refresh token away is of a call of the
\* same user (a grant is bought for one), which holds the successor until it stores
\* it or loses it.
LEMMA RefreshTokenUsableStep ==
    ASSUME TypeOK, Ownership, Ages, Refreshes, [Next]_vars
    PROVE  RefreshTokenUsable'
<1> SUFFICES ASSUME NEW u \in Users, tokens'[u] # NoToken
             PROVE  \/ Usable(tokens[u].grant, tokens[u].refresh)'
                    \/ tokens'[u].grant \in lost'
                    \/ \E h \in Handlers : Succeeds(h, u, tokens[u])'
  BY DEF RefreshTokenUsable, Usable, Succeeds
<1>1. ASSUME NEW h \in Handlers, Holding(h), UNCHANGED mural,
             tokens'[u].grant = HeldGrant(h), tokens'[u].refresh = HeldRefresh(h)
      PROVE  Usable(tokens[u].grant, tokens[u].refresh)'
  BY <1>1 DEF Refreshes, HeldUsable, Usable
<1>2. CASE tokens'[u] = tokens[u]
  <2> DEFINE t == tokens[u]
  <2>1. /\ t # NoToken /\ t.grant \in Grants /\ t.refresh \in Gens \cup {None}
        /\ Bought(t.grant) /\ Own(u, t.grant)
    BY <1>2, HeldTyped DEF Ownership, StoredOwn
  <2>2. \/ Usable(t.grant, t.refresh) \/ t.grant \in lost
        \/ \E h \in Handlers : Succeeds(h, u, t)
    BY <2>1 DEF Refreshes, RefreshTokenUsable, Usable, Succeeds
  <2>3. ASSUME Usable(t.grant, t.refresh)
        PROVE  \/ Usable(t.grant, t.refresh)'
               \/ \E h \in Handlers : Succeeds(h, u, tokens[u])'
    <3>1. ASSUME NEW h \in Handlers, MuralRefresh(h), handler[h].token.grant = t.grant,
                 handler[h].token.refresh = t.refresh
          PROVE  Succeeds(h, u, tokens[u])'
      <4>1. handler[h].user = u
        <5>1. handler[h].pc = "refresh"
          BY <3>1 DEF MuralRefresh
        <5>2. bought[t.grant].user = handler[h].user /\ bought[t.grant].user = u
          BY <2>1, <3>1, <5>1 DEF Ownership, CallsOwn, Own, Completed
        <5> QED
          BY <5>2
      <4>2. /\ handler'[h].pc = "answered" /\ handler'[h].for_call
            /\ handler'[h].user = handler[h].user
            /\ handler'[h].grant = handler[h].token.grant
            /\ handler'[h].given = handler[h].token.refresh
        BY <3>1 DEF MuralRefresh, Step, Answered, TypeOK
      <4> QED
        BY <1>2, <3>1, <4>1, <4>2 DEF Succeeds
    <3>2. \/ tokens[u].refresh \in mural'[tokens[u].grant].live \cup {None}
          \/ mural'[tokens[u].grant].code = "withdrawn"
          \/ \E h \in Handlers : /\ MuralRefresh(h) /\ handler[h].token.grant = t.grant
                                 /\ handler[h].token.refresh = t.refresh
      BY <2>1, <2>3, UsableStep DEF Refreshes, Usable
    <3> QED
      BY <1>2, <3>1, <3>2 DEF Usable
  <2>4. ASSUME t.grant \in lost
        PROVE  tokens'[u].grant \in lost'
    BY <1>2, <2>4, LostGrows
  <2>5. ASSUME NEW h \in Handlers, Succeeds(h, u, t)
        PROVE  \/ Usable(t.grant, t.refresh)' \/ tokens'[u].grant \in lost'
               \/ Succeeds(h, u, tokens[u])'
    <3>1. /\ Holding(h) /\ HeldGrant(h) = t.grant /\ handler[h].user = u
          /\ handler[h].for_call
      BY <2>5 DEF Succeeds, Holding, HeldGrant
    <3>2. CASE handler'[h] = handler[h]
      BY <1>2, <2>5, <3>2 DEF Succeeds
    <3>3. CASE ReceiveToken(h)
      <4>1. /\ handler[h].pc = "answered"
            /\ handler'[h] = Storing(handler[h].user, ToToken(handler[h]), handler[h].for_call)
        BY <3>3 DEF ReceiveToken, Step, TypeOK
      <4>2. handler'[h].token.grant = handler[h].grant /\ handler[h].grant = t.grant
        BY <2>5, <4>1 DEF Storing, ToToken, Succeeds
      <4> QED
        BY <1>2, <3>1, <4>1, <4>2 DEF Succeeds, Storing
    <3>4. CASE StoreTokens(h)
      <4>1. /\ handler[h].pc = "store" /\ UNCHANGED mural
            /\ tokens' = [tokens EXCEPT ![handler[h].user] = handler[h].token]
        BY <3>4 DEF StoreTokens
      <4>2. tokens'[u] = handler[h].token
        BY <3>1, <4>1 DEF TypeOK
      <4> QED
        BY <1>1, <1>2, <3>1, <4>1, <4>2 DEF HeldGrant, HeldRefresh
    <3>5. CASE Unreachable(h) \/ Abandon(h)
      <4>1. HeldGrant(h) \in lost'
        BY <3>1, <3>5 DEF Unreachable, Abandon, Lose, Holding, HeldGrant
      <4> QED
        BY <1>2, <3>1, <4>1
    <3> QED
      BY <3>1, <3>2, <3>3, <3>4, <3>5, HoldMoves
  <2> QED
    BY <1>2, <2>2, <2>3, <2>4, <2>5 DEF Usable
<1> QED
  BY <1>1, <1>2, StoredStep

\* Every step keeps Refreshes.
LEMMA StepRefreshes ==
    TypeOK /\ Ownership /\ Ages /\ Refreshes /\ [Next]_vars => Refreshes'
<1> SUFFICES ASSUME TypeOK, Ownership, Ages, Refreshes, [Next]_vars
             PROVE  Refreshes'
  OBVIOUS
<1>1. OneLive' /\ AllKnown'
  BY OneLiveStep, AllKnownStep DEF Refreshes
<1> QED
  BY <1>1, HeldUsableStep, KeptUsableStep, HeldUniqueStep, RefreshTokenUsableStep
     DEF Refreshes

\* What calls hold and what is stored is as Refreshes says, in every behaviour.
THEOREM RefreshesAreKept == Spec => []Refreshes
BY InitRefreshes, StepRefreshes, TypeCorrect, GrantsAreOwned, TokensAreTimely, PTL DEF Spec

\* Concurrent refreshes never leave a user with a refresh token that Mural has
\* replaced, unless the answer with its successor was lost.
THEOREM RefreshTokensStayUsable == Spec => []RefreshTokenUsable
<1>1. Refreshes => RefreshTokenUsable
  BY DEF Refreshes
<1> QED
  BY <1>1, RefreshesAreKept, PTL

=============================================================================
