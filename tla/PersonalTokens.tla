--------------------------- MODULE PersonalTokens ---------------------------
(* Personal access tokens: minted and revoked through the portal, verified   *)
(* on every call that presents one.  Models PersonalTokenService over its    *)
(* Mongo collection and the verifier and resolver that turn a presented      *)
(* token into a principal.                                                   *)
(*                                                                           *)
(* One action is the code of a call from one await to the next.  A secret    *)
(* determines its document (it is looked up by its hash), so it is           *)
(* identified with the token's id; a secret nobody was given matches no      *)
(* document and only ever changes its caller's answer.                       *)
EXTENDS Integers, FiniteSets

CONSTANTS
    Users,       \* owners: the e-mail addresses the portal asserts
    TokenIds,    \* the supply of minted tokens
    Handlers,    \* calls in progress at a time
    TtlRequests, \* what payloads ask for (ttl_days), None when absent
    DefaultTtl,  \* DEFAULT_TTL_DAYS
    MaxTtl,      \* MAX_TTL_DAYS
    Throttle,    \* LAST_USED_THROTTLE_SECONDS
    WriteDelay,  \* bound: how long a write to the collection takes
    MaxClock,    \* bound: the clock
    None         \* null

Times == 0..MaxClock

ASSUME TokensAssumption ==
    /\ {DefaultTtl, MaxTtl, Throttle, WriteDelay, MaxClock} \subseteq Nat
    /\ 0 < DefaultTtl /\ DefaultTtl <= MaxTtl
    /\ TtlRequests \subseteq Int \cup {None}
    /\ None \notin Int

Record == [user_id: Users, created_at: Times, expires_at: Int,
           last_used_at: Times \cup {None}, revoked_at: Times \cup {None}]
NoRecord == [user_id |-> None]

VARIABLES
    clock,
    tokens,         \* the personal_tokens collection: id -> document
    handler,        \* handler -> where its call stands, and its locals
    first_revoked,  \* history: when a token was first revoked
    last_accepted   \* history: per token, the latest time an accepting call read
                    \* the clock (at) and the latest time one began (since)

vars == <<clock, tokens, handler, first_revoked, last_accepted>>

-----------------------------------------------------------------------------
(* Handlers.  since is when a verifying call began.                          *)

Idle == [pc |-> "idle"]
Read(t) == [pc |-> "read", id |-> t, record |-> tokens[t], since |-> clock]
Touching(t, since) == [pc |-> "touch", id |-> t, now |-> clock, since |-> since]
Revoking(u, t) == [pc |-> "revoke", id |-> t, caller |-> u]

HandlerState ==
    {Idle}
    \cup [pc: {"read"}, id: TokenIds, record: Record, since: Times]
    \cup [pc: {"touch"}, id: TokenIds, now: Times, since: Times]
    \cup [pc: {"revoke"}, id: TokenIds, caller: Users]

Step(h, next) == handler' = [handler EXCEPT ![h] = next]

-----------------------------------------------------------------------------
(* Minting.                                                                  *)

\* Mutation: the maximum is not applied.
UncappedDays(ttl) == IF ttl \in {None, 0} THEN DefaultTtl ELSE ttl

\* min(ttl_days or default, max): absent and 0 both mean the default.
Days(ttl) ==
    LET wanted == IF ttl \in {None, 0} THEN DefaultTtl ELSE ttl
    IN IF wanted <= MaxTtl THEN wanted ELSE MaxTtl

\* mint: the secret leaves the process only after the document is stored.
Mint(u, t, ttl) ==
    /\ tokens[t] = NoRecord
    /\ tokens' = [tokens EXCEPT ![t] =
          [user_id |-> u, created_at |-> clock, expires_at |-> clock + Days(ttl),
           last_used_at |-> None, revoked_at |-> None]]
    /\ UNCHANGED <<clock, handler, first_revoked, last_accepted>>

-----------------------------------------------------------------------------
(* Verifying a presented token.                                              *)

\* verify up to the answer of get_by_hash.
VerifyRead(h, t) ==
    /\ handler[h] = Idle
    /\ tokens[t] # NoRecord
    /\ Step(h, Read(t))
    /\ UNCHANGED <<clock, tokens, first_revoked, last_accepted>>

\* Mutation: only the expiry is looked at.
NotExpired(record) == clock < record.expires_at

\* The checks of verify on the record it read, at the time it reads the clock.
IsActive(record) == record.revoked_at = None /\ clock < record.expires_at

\* Mutation: only the first use is recorded.
NeverUsed(record) == record.last_used_at = None

\* Whether last_used_at is due for a write.
Stale(record) ==
    record.last_used_at # None => clock - record.last_used_at > Throttle

Later(a, b) == IF a > b THEN a ELSE b

\* The call is answered with the token's owner as principal.
Accept(t, now, since) ==
    last_accepted' = [last_accepted EXCEPT
        ![t] = [at |-> Later(@.at, now), since |-> Later(@.since, since)]]

Never == [at |-> -1, since |-> -1]

\* verify from the record to its answer, or to the write of last_used_at.
VerifyCheck(h) ==
    /\ handler[h].pc = "read"
    /\ LET t == handler[h].id
           record == handler[h].record
       IN \/ /\ ~IsActive(record)
             /\ Step(h, Idle)
             /\ UNCHANGED last_accepted
          \/ /\ IsActive(record) /\ Stale(record)
             /\ Step(h, Touching(t, handler[h].since))
             /\ UNCHANGED last_accepted
          \/ /\ IsActive(record) /\ ~Stale(record)
             /\ Accept(t, clock, handler[h].since)
             /\ Step(h, Idle)
    /\ UNCHANGED <<clock, tokens, first_revoked>>

\* Mutation: the document is written back as it was when it was read.
TouchDocument(h) ==
    /\ handler[h].pc = "touch"
    /\ LET t == handler[h].id IN
          /\ tokens' = [tokens EXCEPT
                ![t].last_used_at = handler[h].now, ![t].revoked_at = None]
          /\ Accept(t, handler[h].now, handler[h].since)
    /\ Step(h, Idle)
    /\ UNCHANGED <<clock, first_revoked>>

\* touch_last_used: $set of last_used_at alone, then the token is accepted.
TouchLastUsed(h) ==
    /\ handler[h].pc = "touch"
    /\ LET t == handler[h].id IN
          /\ tokens' = [tokens EXCEPT ![t].last_used_at = handler[h].now]
          /\ Accept(t, handler[h].now, handler[h].since)
    /\ Step(h, Idle)
    /\ UNCHANGED <<clock, first_revoked>>

-----------------------------------------------------------------------------
(* Revoking.                                                                 *)

\* Mutation: whoever knows the id may revoke.
RevokeAnyones(h, u, t) ==
    /\ handler[h] = Idle
    /\ tokens[t] # NoRecord
    /\ Step(h, Revoking(u, t))
    /\ UNCHANGED <<clock, tokens, first_revoked, last_accepted>>

\* revoke up to the owner check on what get returned; another user's token is
\* answered as an unknown one (404).
RevokeRead(h, u, t) ==
    /\ handler[h] = Idle
    /\ tokens[t] # NoRecord
    /\ tokens[t].user_id = u
    /\ Step(h, Revoking(u, t))
    /\ UNCHANGED <<clock, tokens, first_revoked, last_accepted>>

\* Mutation: without $set the document is replaced by the one field.
RevokeReplacing(h) ==
    /\ handler[h].pc = "revoke"
    /\ tokens' = [tokens EXCEPT ![handler[h].id] = [revoked_at |-> clock]]
    /\ Step(h, Idle)
    /\ UNCHANGED <<clock, first_revoked, last_accepted>>

\* store.revoke: $set of revoked_at alone, also on a revoked token.
RevokeWrite(h) ==
    /\ handler[h].pc = "revoke"
    /\ LET t == handler[h].id IN
          /\ tokens' = [tokens EXCEPT ![t].revoked_at = clock]
          /\ first_revoked' = [first_revoked EXCEPT ![t] = IF @ = None THEN clock ELSE @]
    /\ Step(h, Idle)
    /\ UNCHANGED <<clock, last_accepted>>

-----------------------------------------------------------------------------
\* The call ends before its next step, unanswered.
Abandon(h) ==
    /\ handler[h] # Idle
    /\ Step(h, Idle)
    /\ UNCHANGED <<clock, tokens, first_revoked, last_accepted>>

\* Time passes; a write under way does not take longer than WriteDelay.
Tick ==
    /\ clock < MaxClock
    /\ \A h \in Handlers :
          handler[h].pc = "touch" => clock < handler[h].now + WriteDelay
    /\ clock' = clock + 1
    /\ UNCHANGED <<tokens, handler, first_revoked, last_accepted>>

Init ==
    /\ clock = 0
    /\ tokens = [t \in TokenIds |-> NoRecord]
    /\ handler = [h \in Handlers |-> Idle]
    /\ first_revoked = [t \in TokenIds |-> None]
    /\ last_accepted = [t \in TokenIds |-> Never]

Next ==
    \/ \E t \in TokenIds, u \in Users :
          \/ \E ttl \in TtlRequests : Mint(u, t, ttl)
          \/ \E h \in Handlers : RevokeRead(h, u, t)
    \/ \E h \in Handlers :
          \/ \E t \in TokenIds : VerifyRead(h, t)
          \/ VerifyCheck(h) \/ TouchLastUsed(h) \/ RevokeWrite(h) \/ Abandon(h)
    \/ Tick

Spec == Init /\ [][Next]_vars

-----------------------------------------------------------------------------
(* Properties.                                                               *)

\* Documents and locals keep their shape.
TypeOK ==
    /\ clock \in Times
    /\ tokens \in [TokenIds -> Record \cup {NoRecord}]
    /\ handler \in [Handlers -> HandlerState]
    /\ first_revoked \in [TokenIds -> Times \cup {None}]
    /\ last_accepted \in [TokenIds -> [at: Times \cup {-1}, since: Times \cup {-1}]]

\* Revocation is for good: no write that was under way when the token was
\* revoked (a touch of last_used_at, a second revoke) makes it active again, so
\* the stored document is revoked exactly when a revoke was ever stored.
RevocationSticks ==
    \A t \in TokenIds :
        tokens[t] # NoRecord =>
            (tokens[t].revoked_at # None <=> first_revoked[t] # None)

\* A call that begins after a token was revoked does not have it accepted, on
\* whichever path: every call that had it accepted began before the first revoke
\* or at the same time.
RevokedIsRefused ==
    \A t \in TokenIds :
        first_revoked[t] # None => last_accepted[t].since <= first_revoked[t]

\* Whatever lifetime a payload asks for, a token is accepted only before the
\* expiry its holder was told, and that is no later than the maximum lifetime
\* after its minting.
AcceptedWithinLifetime ==
    \A t \in TokenIds :
        last_accepted[t] # Never =>
            /\ last_accepted[t].at < tokens[t].expires_at
            /\ last_accepted[t].at < tokens[t].created_at + MaxTtl

\* The throttle loses no more than it may: the last_used_at that the portal
\* lists is older than the last accepted use by the throttle and one write at
\* most.  The write counts because two calls may store their dates in the wrong
\* order, and a third may have read the later one in between.
LastUsedIsRecent ==
    \A t \in TokenIds :
        last_accepted[t] # Never =>
            /\ tokens[t].last_used_at # None
            /\ last_accepted[t].at - tokens[t].last_used_at <= Throttle + WriteDelay

\* Only its owner ends a token's life: a revoke under way is of its caller's
\* own token, and a date of revocation appears by such a revoke only.
OnlyOwnerRevokes ==
    [][\A t \in TokenIds :
          tokens[t] # NoRecord /\ tokens'[t].revoked_at # tokens[t].revoked_at =>
              \E h \in Handlers :
                  /\ handler[h].pc = "revoke" /\ handler[h].id = t
                  /\ handler[h].caller = tokens[t].user_id]_vars

=============================================================================
