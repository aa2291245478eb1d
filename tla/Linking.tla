------------------------------ MODULE Linking -------------------------------
(* Linking a user to Mural and keeping the link's access token usable.       *)
(* Models LinkingService, OAuthClient and their two Mongo collections, the   *)
(* callback and test-connection routes, and Mural's token endpoint as the    *)
(* code uses it (external).                                                  *)
(*                                                                           *)
(* One action is the code of a handler from one await to the next.  Calls to *)
(* Mural have two halves: Mural acts on the request, and the handler acts on *)
(* the answer; either half may be lost.  Time is discrete; one unit is the   *)
(* 30 second request timeout.                                                *)
EXTENDS Integers, FiniteSets, Sequences

CONSTANTS
    Users,          \* principals
    StateIds,       \* the supply of uuid4 OAuth states
    Grants,         \* the supply of consents at Mural, each with a code of its own
    Handlers,       \* calls in progress at a time
    StateTtl,       \* lifetime of an OAuth state (ttl, 10 minutes)
    Leeway,         \* _LEEWAY, 60 seconds
    Lifetime,       \* expires_in of an access token
    SendsExpiry,    \* does Mural's answer have expires_in
    RefreshPolicy,  \* "rotate": every answer has a refresh token and a refresh
                    \*   invalidates the one it used;
                    \* "keep": only the answer to a code has one, and it lasts;
                    \* "none": no answer has one
    Delay,          \* bound: an answer, or a token handed out, is used within it
    MaxClock,       \* bound: the clock
    MaxGen,         \* bound: refreshes of one grant
    None            \* null: no document, no expiry, no refresh token, no such code

Times == 0..MaxClock
Gens == 0..MaxGen

ASSUME LinkingAssumption ==
    /\ {StateTtl, Leeway, Lifetime, Delay, MaxClock, MaxGen} \subseteq Nat
    /\ SendsExpiry \in BOOLEAN
    /\ RefreshPolicy \in {"rotate", "keep", "none"}
    /\ None \notin Users /\ None \notin Grants /\ None \notin Int

\* An answer and the request that follows it together take no longer than the
\* leeway, and a token outlives the three waits of the call that obtained it.
ASSUME TimingAssumption == 2 * Delay <= Leeway /\ 3 * Delay < Lifetime

\* The document of a user in the token store.  A grant is one consent at Mural,
\* and its code buys tokens of it; its access and refresh tokens are numbered by
\* generation.
Token == [grant: Grants, access: Gens, refresh: Gens \cup {None},
          expires_at: (0..(MaxClock + Lifetime)) \cup {None}]
NoToken == [grant |-> None]

OAuthState == [user_id: Users, expires_at: 0..(MaxClock + StateTtl)]
NoState == [user_id |-> None]

\* What a code was exchanged for: the caller, and the state brought beside it.
Record == [user: Users, state: StateIds]
NoRecord == [user |-> None]

VARIABLES
    clock,      \* the time, in units of the request timeout
    states,     \* the oauth_states collection
    tokens,     \* the tokens collection: user -> document
    handler,    \* handler -> where its call stands, and its locals
    mural,      \* external: what Mural knows of each grant
    issued_to,  \* history: the user a state was issued to
    exchanged,  \* history: per state, the callers for whom a code is exchanged
    consent,    \* history: who gave a grant
    bought,     \* history: for whom a grant's code was exchanged, with which state
    lost,       \* history: grants of which a refreshed token was never stored
    overlapped  \* history: users whose calls in progress overlap, or one now over

vars == <<clock, states, tokens, handler, mural, issued_to, exchanged, consent, bought,
          lost, overlapped>>

-----------------------------------------------------------------------------
(* Handlers.  A code exchange and a token refresh share their second half:   *)
(* for_call says whether the token is wanted for a vendor call.              *)

Answers == {"none", "ok", "OAuthStateError", "LinkMismatchError",
            "MuralTokenError", "MuralApiError", "MuralUnavailableError"}

Idle(answer) == [pc |-> "idle", answer |-> answer]

\* The state was accepted, the code is about to be sent.
Exchanging(u, s, c) == [pc |-> "exchange", user |-> u, state |-> s, code |-> c]

\* The stored token has expired, its refresh token is about to be sent.
Refreshing(u, t) == [pc |-> "refresh", user |-> u, token |-> t]

\* Mural has answered with tokens of generation n; given is the refresh token
\* the handler falls back to, sent the one in the answer.
Answered(u, g, n, sent, given, for_call) ==
    [pc |-> "answered", user |-> u, grant |-> g, gen |-> n, sent |-> sent,
     given |-> given, for_call |-> for_call, due |-> clock + Delay]

Storing(u, t, for_call) ==
    [pc |-> "store", user |-> u, token |-> t, for_call |-> for_call,
     due |-> clock + Delay]

Calling(u, t) == [pc |-> "call", user |-> u, token |-> t, due |-> clock + Delay]

HandlerState ==
    LET Due == 0..(MaxClock + Delay) IN
    [pc: {"idle"}, answer: Answers]
    \cup [pc: {"exchange"}, user: Users, state: StateIds, code: Grants \cup {None}]
    \cup [pc: {"refresh"}, user: Users, token: Token]
    \cup [pc: {"answered"}, user: Users, grant: Grants, gen: Gens,
          sent: Gens \cup {None}, given: Gens \cup {None}, for_call: BOOLEAN, due: Due]
    \cup [pc: {"store"}, user: Users, token: Token, for_call: BOOLEAN, due: Due]
    \cup [pc: {"call"}, user: Users, token: Token, due: Due]

InProgress(h, u) == handler[h].pc # "idle" /\ handler[h].user = u

\* A user's calls overlap from when two are in progress until none is.
Step(h, next) ==
    /\ handler' = [handler EXCEPT ![h] = next]
    /\ overlapped' = {u \in Users :
          \E g \in Handlers :
             /\ InProgress(g, u)'
             /\ u \in overlapped \/ \E k \in Handlers \ {g} : InProgress(k, u)'}

-----------------------------------------------------------------------------
(* The OAuth state.                                                          *)

\* get_authorization_url: insert a fresh state for the user.
GetAuthorizationUrl(u, s) ==
    /\ issued_to[s] = None
    /\ states' = [states EXCEPT ![s] = [user_id |-> u, expires_at |-> clock + StateTtl]]
    /\ issued_to' = [issued_to EXCEPT ![s] = u]
    /\ UNCHANGED <<clock, tokens, handler, mural, exchanged, consent, bought, lost, overlapped>>

\* The TTL index removes a document once its date has passed.
SweepState(s) ==
    /\ states[s] # NoState
    /\ states[s].expires_at <= clock
    /\ states' = [states EXCEPT ![s] = NoState]
    /\ UNCHANGED <<clock, tokens, handler, mural, issued_to, exchanged, consent, bought, lost, overlapped>>

\* Person u follows an authorization URL, of whichever state, and consents; Mural
\* gives out a new code.  The redirect, and what comes of it, is any callback.
Consent(u, g) ==
    /\ \E s \in StateIds : issued_to[s] # None
    /\ mural[g].code = "none"
    /\ mural' = [mural EXCEPT ![g].code = "issued"]
    /\ consent' = [consent EXCEPT ![g] = u]
    /\ UNCHANGED <<clock, states, tokens, handler, issued_to, exchanged, bought, lost, overlapped>>

\* The codes a callback may bring: any that Mural has given to anyone, and None
\* for one that is not Mural's.
Codes == {g \in Grants : mural[g].code # "none"} \cup {None}

\* Mutation: the state is read, and deleted when the exchange is under way.
CompleteConnectionReading(h, u, s) ==
    /\ handler[h].pc = "idle"
    /\ states[s].user_id = u /\ states[s].expires_at >= clock
    /\ \E c \in Codes : Step(h, Exchanging(u, s, c))
    /\ exchanged' = [exchanged EXCEPT ![s] = Append(@, u)]
    /\ UNCHANGED <<clock, states, tokens, mural, issued_to, consent, bought, lost>>

\* Mutation: the state's user is not compared with the caller.
CompleteConnectionForCaller(h, u, s) ==
    /\ handler[h].pc = "idle"
    /\ states[s] # NoState /\ states[s].expires_at >= clock
    /\ states' = [states EXCEPT ![s] = NoState]
    /\ \E c \in Codes : Step(h, Exchanging(u, s, c))
    /\ exchanged' = [exchanged EXCEPT ![s] = Append(@, u)]
    /\ UNCHANGED <<clock, tokens, mural, issued_to, consent, bought, lost>>

\* The callback by user u with state s and some code c, up to find_one_and_delete
\* and the checks on its result.  The document is gone whatever the checks say,
\* and nothing compares the code with the state or with the user.
CompleteConnection(h, u, s) ==
    /\ handler[h].pc = "idle"
    /\ states' = [states EXCEPT ![s] = NoState]
    /\ \/ /\ states[s] = NoState
          /\ Step(h, Idle("OAuthStateError"))
       \/ /\ states[s] # NoState
          /\ states[s].expires_at < clock
          /\ Step(h, Idle("OAuthStateError"))
       \/ /\ states[s] # NoState
          /\ states[s].expires_at >= clock
          /\ states[s].user_id # u
          /\ Step(h, Idle("LinkMismatchError"))
       \/ /\ states[s] # NoState
          /\ states[s].expires_at >= clock
          /\ states[s].user_id = u
          /\ \E c \in Codes : Step(h, Exchanging(u, s, c))
    /\ exchanged' = [exchanged EXCEPT ![s] =
          IF handler'[h].pc = "exchange" THEN Append(@, u) ELSE @]
    /\ UNCHANGED <<clock, tokens, mural, issued_to, consent, bought, lost>>

-----------------------------------------------------------------------------
(* Mural's token endpoint and the client's half of it.                       *)

\* exchange_code is sent: a code buys its grant, once, whoever brings it.
MuralExchange(h) ==
    /\ handler[h].pc = "exchange"
    /\ handler[h].code # None
    /\ LET g == handler[h].code
           u == handler[h].user
           refresh == IF RefreshPolicy = "none" THEN None ELSE 0
       IN /\ mural[g].code = "issued"
          /\ mural' = [mural EXCEPT ![g] =
                [code |-> "used", live |-> {refresh} \ {None}, issued_at |-> <<clock>>]]
          /\ bought' = [bought EXCEPT ![g] = [user |-> u, state |-> handler[h].state]]
          /\ Step(h, Answered(u, g, 0, refresh, None, FALSE))
    /\ UNCHANGED <<clock, states, tokens, issued_to, exchanged, consent, lost>>

\* refresh is sent: a live refresh token buys the next generation.
MuralRefresh(h) ==
    /\ handler[h].pc = "refresh"
    /\ LET t == handler[h].token
           g == t.grant
           n == Len(mural[g].issued_at)
           sent == IF RefreshPolicy = "rotate" THEN n ELSE None
       IN /\ t.refresh \in mural[g].live
          /\ n \in Gens
          /\ mural' = [mural EXCEPT
                ![g].live = IF sent = None THEN @ ELSE {sent},
                ![g].issued_at = Append(@, clock)]
          /\ Step(h, Answered(handler[h].user, g, n, sent, t.refresh, TRUE))
    /\ UNCHANGED <<clock, states, tokens, issued_to, exchanged, consent, bought, lost>>

\* Mural answers the token request with an error status: the code or the
\* refresh token is not valid, or Mural has a fault of its own.
MuralRefuses(h) ==
    /\ handler[h].pc \in {"exchange", "refresh"}
    /\ Step(h, Idle("MuralApiError"))
    /\ UNCHANGED <<clock, states, tokens, mural, issued_to, exchanged, consent, bought, lost>>

\* Mutation: the refresh token in hand wins over the one in the answer.
ToTokenKeepingGiven(a) ==
    [grant |-> a.grant, access |-> a.gen,
     refresh |-> IF a.given # None THEN a.given ELSE a.sent,
     expires_at |-> IF SendsExpiry THEN clock + Lifetime ELSE None]

\* _to_token: expiry counts from the receipt of the answer, and an answer
\* without a refresh token leaves the given one in place.
ToToken(a) ==
    [grant |-> a.grant, access |-> a.gen,
     refresh |-> IF a.sent # None THEN a.sent ELSE a.given,
     expires_at |-> IF SendsExpiry THEN clock + Lifetime ELSE None]

ReceiveToken(h) ==
    /\ handler[h].pc = "answered"
    /\ Step(h, Storing(handler[h].user, ToToken(handler[h]), handler[h].for_call))
    /\ UNCHANGED <<clock, states, tokens, mural, issued_to, exchanged, consent, bought, lost>>

\* store_tokens: replace_one upsert, whatever the document has become since.
StoreTokens(h) ==
    /\ handler[h].pc = "store"
    /\ tokens' = [tokens EXCEPT ![handler[h].user] = handler[h].token]
    /\ Step(h, IF handler[h].for_call THEN Calling(handler[h].user, handler[h].token)
               ELSE Idle("ok"))
    /\ UNCHANGED <<clock, states, mural, issued_to, exchanged, consent, bought, lost>>

-----------------------------------------------------------------------------
(* Using and removing the stored token.                                      *)

\* Mutation: a token that expires exactly at the leeway is still used.
IsExpiredLate(t) == t.expires_at # None /\ t.expires_at < clock + Leeway

\* is_expired of get_valid_token.
IsExpired(t) == t.expires_at # None /\ t.expires_at <= clock + Leeway

\* Mutation: a user without tokens is served from another user's document.
GetValidTokenOfAny(h, u) ==
    /\ handler[h].pc = "idle"
    /\ \E v \in Users :
          /\ tokens[v] # NoToken
          /\ Step(h, IF IsExpired(tokens[v]) THEN Refreshing(u, tokens[v])
                     ELSE Calling(u, tokens[v]))
    /\ UNCHANGED <<clock, states, tokens, mural, issued_to, exchanged, consent, bought, lost>>

\* get_valid_token up to its decision.
GetValidToken(h, u) ==
    /\ handler[h].pc = "idle"
    /\ \/ /\ tokens[u] = NoToken
          /\ Step(h, Idle("MuralTokenError"))
       \/ /\ tokens[u] # NoToken
          /\ IsExpired(tokens[u])
          /\ Step(h, Refreshing(u, tokens[u]))
       \/ /\ tokens[u] # NoToken
          /\ ~IsExpired(tokens[u])
          /\ Step(h, Calling(u, tokens[u]))
    /\ UNCHANGED <<clock, states, tokens, mural, issued_to, exchanged, consent, bought, lost>>

\* Mural accepts an access token that has not expired, of a grant in force.
Accepted(t) ==
    /\ clock < mural[t.grant].issued_at[t.access + 1] + Lifetime
    /\ mural[t.grant].code = "used"

\* GET /users/me, or any vendor call, with the access token.
CallMural(h) ==
    /\ handler[h].pc = "call"
    /\ Step(h, Idle(IF Accepted(handler[h].token) THEN "ok" ELSE "MuralApiError"))
    /\ UNCHANGED <<clock, states, tokens, mural, issued_to, exchanged, consent, bought, lost>>

\* Mutation: the document is emptied, not deleted.
DisconnectEmptying(h, u) ==
    /\ handler[h].pc = "idle"
    /\ tokens' = [tokens EXCEPT ![u] = [refresh |-> None, expires_at |-> None]]
    /\ handler' = [handler EXCEPT ![h] = Idle("ok")]
    /\ overlapped' = overlapped \cup {v \in {u} : \E g \in Handlers : InProgress(g, u)}
    /\ UNCHANGED <<clock, states, mural, issued_to, exchanged, consent, bought, lost>>

\* disconnect: delete_one.
Disconnect(h, u) ==
    /\ handler[h].pc = "idle"
    /\ tokens' = [tokens EXCEPT ![u] = NoToken]
    /\ handler' = [handler EXCEPT ![h] = Idle("ok")]
    /\ overlapped' = overlapped \cup {v \in {u} : \E g \in Handlers : InProgress(g, u)}
    /\ UNCHANGED <<clock, states, mural, issued_to, exchanged, consent, bought, lost>>

-----------------------------------------------------------------------------
(* Failures and time.                                                        *)

\* The tokens a handler has been answered, or that are under way to it, are
\* gone with it.
Lose(h) ==
    lost' = IF handler[h].pc \in {"answered", "store"} /\ handler[h].for_call
            THEN lost \cup {IF handler[h].pc = "store" THEN handler[h].token.grant
                            ELSE handler[h].grant}
            ELSE lost

\* No response: the request or the answer is lost, or the time-out fires.
Unreachable(h) ==
    /\ handler[h].pc \in {"exchange", "refresh", "answered", "call"}
    /\ Step(h, Idle("MuralUnavailableError"))
    /\ Lose(h)
    /\ UNCHANGED <<clock, states, tokens, mural, issued_to, exchanged, consent, bought>>

\* The call ends without an answer: the process stopped, the client went away,
\* or Mongo did not answer.
Abandon(h) ==
    /\ handler[h].pc # "idle"
    /\ Step(h, Idle("none"))
    /\ Lose(h)
    /\ UNCHANGED <<clock, states, tokens, mural, issued_to, exchanged, consent, bought>>

\* The user withdraws the grant at Mural.
Withdraw(g) ==
    /\ mural[g].code = "used"
    /\ mural' = [mural EXCEPT ![g].code = "withdrawn", ![g].live = {}]
    /\ UNCHANGED <<clock, states, tokens, handler, issued_to, exchanged, consent, bought, lost, overlapped>>

\* Time passes, but an answer on its way and a token handed out do not wait
\* longer than Delay (the request would have timed out: Unreachable).
Tick ==
    /\ clock < MaxClock
    /\ \A h \in Handlers :
          handler[h].pc \in {"answered", "store", "call"} => clock < handler[h].due
    /\ clock' = clock + 1
    /\ UNCHANGED <<states, tokens, handler, mural, issued_to, exchanged, consent, bought, lost, overlapped>>

-----------------------------------------------------------------------------
Init ==
    /\ clock = 0
    /\ states = [s \in StateIds |-> NoState]
    /\ tokens = [u \in Users |-> NoToken]
    /\ handler = [h \in Handlers |-> Idle("none")]
    /\ mural = [g \in Grants |-> [code |-> "none", live |-> {}, issued_at |-> <<>>]]
    /\ issued_to = [s \in StateIds |-> None]
    /\ exchanged = [s \in StateIds |-> <<>>]
    /\ consent = [g \in Grants |-> None]
    /\ bought = [g \in Grants |-> NoRecord]
    /\ lost = {}
    /\ overlapped = {}

Next ==
    \/ \E s \in StateIds :
          \/ SweepState(s)
          \/ \E u \in Users : GetAuthorizationUrl(u, s)
    \/ \E g \in Grants :
          \/ Withdraw(g)
          \/ \E u \in Users : Consent(u, g)
    \/ \E h \in Handlers :
          \/ \E u \in Users :
                \/ GetValidToken(h, u) \/ Disconnect(h, u)
                \/ \E s \in StateIds : CompleteConnection(h, u, s)
          \/ MuralExchange(h) \/ MuralRefresh(h) \/ MuralRefuses(h)
          \/ ReceiveToken(h) \/ StoreTokens(h) \/ CallMural(h)
          \/ Unreachable(h) \/ Abandon(h)
    \/ Tick

Spec == Init /\ [][Next]_vars

-----------------------------------------------------------------------------
(* Properties.                                                               *)

\* The collections hold documents of the models' shapes and the handlers the
\* locals of the call they serve.
TypeOK ==
    /\ clock \in Times
    /\ states \in [StateIds -> OAuthState \cup {NoState}]
    /\ tokens \in [Users -> Token \cup {NoToken}]
    /\ handler \in [Handlers -> HandlerState]
    /\ mural \in [Grants -> [code: {"none", "issued", "used", "withdrawn"},
                            live: SUBSET Gens, issued_at: Seq(Times)]]
    /\ issued_to \in [StateIds -> Users \cup {None}]
    /\ exchanged \in [StateIds -> Seq(Users)]
    /\ consent \in [Grants -> Users \cup {None}]
    /\ bought \in [Grants -> Record \cup {NoRecord}]
    /\ lost \subseteq Grants
    /\ overlapped \subseteq Users

\* A state completes at most one connection: however often and by whomever the
\* callback is called, in whatever overlap, one of the calls at most goes on to
\* exchange the code (consume is find_one_and_delete).
StateUsedOnce == \A s \in StateIds : Len(exchanged[s]) <= 1

\* Grant g was bought for u, in the one callback that used up a state that had
\* been issued to u and that u brought back.
Completed(u, g) ==
    LET b == bought[g] IN
    b.user = u /\ issued_to[b.state] = u /\ exchanged[b.state] = <<u>>

\* The code of g came back beside a state of the user who gave g.  Mural and the
\* browser see to that, not the program: Mural's redirect has the state of the
\* URL that was followed, and users follow their own.
AsGiven(g) == consent[g] = issued_to[bought[g].state]

\* Grant g is u's to use: bought for u with u's own state, from which it follows, by
\* AsGiven alone, that u gave it.  Of a code that came back beside another state nothing
\* is said of who gave it, and the program does not know either.
Own(u, g) == Completed(u, g) /\ (AsGiven(g) => consent[g] = u)

\* The tokens stored for a user, and those a handler holds for one, are of a
\* grant bought in a callback of this very user with a state issued to this user,
\* so that no two users hold tokens of one grant; and where the code came back as
\* it was given, of a grant that this user gave: a redirect that ends in another
\* user's session links neither of the two.
TokensOfOwnGrant ==
    /\ \A u \in Users : tokens[u] # NoToken => Own(u, tokens[u].grant)
    /\ \A h \in Handlers :
          /\ handler[h].pc = "answered" => Own(handler[h].user, handler[h].grant)
          /\ handler[h].pc \in {"store", "call"} =>
                Own(handler[h].user, handler[h].token.grant)

\* The leeway does its work: an access token that get_valid_token returned is
\* not yet expired at Mural when the vendor call that uses it arrives there,
\* although the stored expiry counts from the receipt of Mural's answer and so
\* is late by that answer's delay.
TokenOutlivesCall ==
    SendsExpiry =>
        \A h \in Handlers :
            handler[h].pc = "call" =>
                LET t == handler[h].token
                IN clock < mural[t.grant].issued_at[t.access + 1] + Lifetime

\* Concurrent refreshes never leave a user with a refresh token that Mural has
\* replaced: when the stored one is dead although the grant is in force, the
\* call that used it still holds its successor, unless that answer was lost.
RefreshTokenUsable ==
    \A u \in Users :
        LET t == tokens[u] IN
        t # NoToken =>
            \/ t.refresh \in mural[t.grant].live \cup {None}
            \/ mural[t.grant].code = "withdrawn"
            \/ t.grant \in lost
            \/ \E h \in Handlers :
                  /\ handler[h].pc \in {"answered", "store"} /\ handler[h].for_call
                  /\ handler[h].user = u
                  /\ \/ /\ handler[h].pc = "answered"
                        /\ handler[h].grant = t.grant /\ handler[h].given = t.refresh
                     \/ handler[h].pc = "store" /\ handler[h].token.grant = t.grant

\* The stored tokens of u, or their absence, change hands by a callback of u.
ByCallback(u) ==
    \E h \in Handlers :
        /\ handler[h].pc = "store" /\ ~handler[h].for_call
        /\ handler[h].user = u /\ handler[h].token = tokens'[u]

\* A completed connection is persisted: the stored tokens pass to another grant
\* only when a callback stores it, never when a refresh of the earlier grant
\* does.  Overlapping calls break it.
LinkPersists ==
    [][\A u \in Users :
          tokens[u] # NoToken /\ tokens'[u].grant \notin {tokens[u].grant, None} =>
              ByCallback(u)]_vars

\* What a user last did, link or disconnect, is what the collection says until
\* the user's next word: no refresh, failed exchange or late answer brings an
\* earlier grant back, whatever the calls of other users do meanwhile, except
\* from when two calls of this user overlap until none of them is left.
LastWordStands ==
    [][\A u \in Users \ overlapped :
          tokens'[u].grant \notin {tokens[u].grant, None} => ByCallback(u)]_vars

=============================================================================
