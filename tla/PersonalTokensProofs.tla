------------------------ MODULE PersonalTokensProofs ------------------------
(* Proofs about PersonalTokens for every number of owners, tokens and        *)
(* overlapping calls, and for every lifetime, throttle and write delay.      *)
EXTENDS PersonalTokens, TLAPS

(* The inductive invariant.  The properties speak of the collection and of   *)
(* what was accepted; a call accepts by the copy it read, so what has to be  *)
(* added is how old a copy may be and what it still has in common with the   *)
(* document.                                                                 *)

\* Nothing is revoked or accepted before its document is stored.
HistoryOfStored ==
    \A t \in TokenIds :
        tokens[t] = NoRecord => first_revoked[t] = None /\ last_accepted[t] = Never

\* No date is in the future.
NothingFromFuture ==
    \A t \in TokenIds :
        /\ last_accepted[t].at <= clock /\ last_accepted[t].since <= clock
        /\ first_revoked[t] # None => first_revoked[t] <= clock
        /\ tokens[t] # NoRecord /\ tokens[t].last_used_at # None =>
              tokens[t].last_used_at <= clock

\* No document outlives the maximum lifetime.
LifetimeCapped ==
    \A t \in TokenIds :
        tokens[t] # NoRecord => tokens[t].expires_at <= tokens[t].created_at + MaxTtl

\* A copy agrees with its document in what no call changes.  If it shows no
\* revocation, the call began before the first one; and the document's
\* last_used_at is at most one write older than the copy's.
ReadingOK ==
    \A h \in Handlers :
        handler[h].pc = "read" =>
            LET t == handler[h].id
                copy == handler[h].record
                since == handler[h].since
            IN  /\ tokens[t] # NoRecord
                /\ copy.expires_at = tokens[t].expires_at
                /\ since <= clock
                /\ copy.revoked_at = None /\ first_revoked[t] # None =>
                      since <= first_revoked[t]
                /\ copy.last_used_at # None =>
                      /\ copy.last_used_at <= since
                      /\ tokens[t].last_used_at # None
                      /\ copy.last_used_at - tokens[t].last_used_at <= WriteDelay

\* A write of last_used_at under way has a date before the expiry, at most
\* WriteDelay old, and belongs to a call that began before any revocation.
TouchingOK ==
    \A h \in Handlers :
        handler[h].pc = "touch" =>
            LET t == handler[h].id
                now == handler[h].now
                since == handler[h].since
            IN  /\ tokens[t] # NoRecord
                /\ now < tokens[t].expires_at
                /\ since <= now /\ now <= clock /\ clock <= now + WriteDelay
                /\ first_revoked[t] # None => since <= first_revoked[t]

\* A revoke under way is of its caller's own token.
RevokingOK ==
    \A h \in Handlers :
        handler[h].pc = "revoke" =>
            LET t == handler[h].id
            IN  tokens[t] # NoRecord /\ tokens[t].user_id = handler[h].caller

IInv ==
    /\ TypeOK
    /\ RevocationSticks
    /\ RevokedIsRefused
    /\ AcceptedWithinLifetime
    /\ LastUsedIsRecent
    /\ HistoryOfStored
    /\ NothingFromFuture
    /\ LifetimeCapped
    /\ ReadingOK
    /\ TouchingOK
    /\ RevokingOK

-----------------------------------------------------------------------------
(* Lemmas.                                                                   *)

\* "No document" is not a document.
LEMMA NoRecordIsNone == NoRecord \notin Record
<1> SUFFICES ASSUME NoRecord \in Record PROVE FALSE
  OBVIOUS
<1>1. DOMAIN NoRecord =
          {"user_id", "created_at", "expires_at", "last_used_at", "revoked_at"}
  BY DEF Record
<1> QED
  BY <1>1 DEF NoRecord

\* A point of the clock is an integer and not None (from TokensAssumption).
LEMMA TimesAreNumbers == None \notin Times /\ Times \subseteq Int /\ 0 \in Times
BY TokensAssumption DEF Times

\* The clock shows a number.
LEMMA ClockIsNumber ==
    ASSUME TypeOK
    PROVE  clock \in Times /\ clock \in Int /\ clock <= clock
BY TimesAreNumbers DEF TypeOK

\* A call past its first await has the locals of its position.
LEMMA HandlerLocals ==
    ASSUME TypeOK, NEW h \in Handlers
    PROVE  /\ handler[h].pc \in {"idle", "read", "touch", "revoke"}
           /\ handler[h].pc # "idle" => handler[h].id \in TokenIds
           /\ handler[h].pc = "read" =>
                  handler[h].record \in Record /\ handler[h].since \in Times
           /\ handler[h].pc = "touch" =>
                  handler[h].now \in Times /\ handler[h].since \in Times
           /\ handler[h].pc = "revoke" => handler[h].caller \in Users
BY DEF TypeOK, HandlerState, Idle

\* A stored token has a document, whose dates are numbers.
LEMMA StoredDocument ==
    ASSUME TypeOK, NEW t \in TokenIds, tokens[t] # NoRecord
    PROVE  /\ tokens[t] \in Record
           /\ tokens[t].created_at \in Int /\ tokens[t].expires_at \in Int
           /\ tokens[t].last_used_at # None => tokens[t].last_used_at \in Int
BY TimesAreNumbers DEF TypeOK, Record

\* The dates of the history are numbers or absent.
LEMMA HistoryDates ==
    ASSUME TypeOK, NEW t \in TokenIds
    PROVE  /\ first_revoked[t] # None => first_revoked[t] \in Int
           /\ last_accepted[t].at \in Int
           /\ last_accepted[t].since \in Int
<1>1. last_accepted[t] \in [at: Times \cup {-1}, since: Times \cup {-1}]
  BY DEF TypeOK
<1>2. Times \cup {-1} \subseteq Int
  BY TimesAreNumbers
<1> QED
  BY <1>1, <1>2, TimesAreNumbers DEF TypeOK

\* Whatever lifetime is asked for, a token gets no more than the maximum.
LEMMA DaysAreCapped ==
    ASSUME NEW ttl \in TtlRequests
    PROVE  Days(ttl) \in Int /\ Days(ttl) <= MaxTtl
BY TokensAssumption DEF Days

\* The later of two dates is one of them and no earlier than the other.
LEMMA LaterOfTwo ==
    ASSUME NEW a \in Int, NEW b \in Int
    PROVE  /\ Later(a, b) \in {a, b}
           /\ a <= Later(a, b) /\ b <= Later(a, b)
BY DEF Later

-----------------------------------------------------------------------------
(* The invariant is inductive.                                               *)

\* The service starts with IInv.
LEMMA InitIInv == Init => IInv
<1> SUFFICES ASSUME Init PROVE IInv
  OBVIOUS
<1> USE DEF Init
<1>1. TypeOK
  BY TimesAreNumbers DEF TypeOK, HandlerState, Never
<1>2. RevocationSticks /\ RevokedIsRefused /\ AcceptedWithinLifetime /\ LastUsedIsRecent
  BY DEF RevocationSticks, RevokedIsRefused, AcceptedWithinLifetime, LastUsedIsRecent
<1>3. HistoryOfStored /\ NothingFromFuture /\ LifetimeCapped
  BY DEF HistoryOfStored, NothingFromFuture, LifetimeCapped, Never
<1>4. ReadingOK /\ TouchingOK /\ RevokingOK
  BY DEF ReadingOK, TouchingOK, RevokingOK, Idle
<1> QED
  BY <1>1, <1>2, <1>3, <1>4 DEF IInv

\* What is said of the collection and the history survives a step that leaves
\* both alone, also one of the clock.
LEMMA CollectionUntouched ==
    ASSUME IInv, UNCHANGED <<tokens, first_revoked, last_accepted>>,
           clock' \in Times, clock <= clock'
    PROVE  /\ RevocationSticks' /\ RevokedIsRefused' /\ AcceptedWithinLifetime'
           /\ LastUsedIsRecent' /\ HistoryOfStored' /\ NothingFromFuture'
           /\ LifetimeCapped'
<1> USE DEF IInv
<1>1. RevocationSticks' /\ RevokedIsRefused'
  BY DEF RevocationSticks, RevokedIsRefused
<1>2. AcceptedWithinLifetime' /\ LastUsedIsRecent'
  BY DEF AcceptedWithinLifetime, LastUsedIsRecent
<1>3. HistoryOfStored' /\ LifetimeCapped'
  BY DEF HistoryOfStored, LifetimeCapped
<1>4. NothingFromFuture'
  <2> SUFFICES ASSUME NEW t \in TokenIds
               PROVE  /\ last_accepted[t].at <= clock' /\ last_accepted[t].since <= clock'
                      /\ first_revoked[t] # None => first_revoked[t] <= clock'
                      /\ tokens[t] # NoRecord /\ tokens[t].last_used_at # None =>
                            tokens[t].last_used_at <= clock'
    BY DEF NothingFromFuture
  <2>1. clock \in Int /\ clock' \in Int
    BY TimesAreNumbers DEF TypeOK
  <2> QED
    BY <2>1, HistoryDates, StoredDocument DEF NothingFromFuture
<1> QED
  BY <1>1, <1>2, <1>3, <1>4

\* So does what is said of the calls when one of them goes back to idle.
LEMMA CallEnds ==
    ASSUME IInv, NEW h \in Handlers, Step(h, Idle),
           UNCHANGED <<clock, tokens, first_revoked>>
    PROVE  /\ handler' \in [Handlers -> HandlerState]
           /\ ReadingOK' /\ TouchingOK' /\ RevokingOK'
<1> USE DEF IInv, Step
<1>1. handler' \in [Handlers -> HandlerState]
  BY DEF TypeOK, HandlerState
<1>2. \A g \in Handlers : handler'[g].pc # "idle" => handler'[g] = handler[g]
  BY DEF TypeOK, Idle
<1>3. ReadingOK'
  BY <1>2 DEF ReadingOK
<1>4. TouchingOK'
  BY <1>2 DEF TouchingOK
<1>5. RevokingOK'
  BY <1>2 DEF RevokingOK
<1> QED
  BY <1>1, <1>3, <1>4, <1>5

\* IInv survives a call that ends unanswered.
LEMMA AbandonStep ==
    ASSUME IInv, NEW h \in Handlers, Abandon(h)
    PROVE  IInv'
<1>1. Step(h, Idle) /\ UNCHANGED <<clock, tokens, first_revoked, last_accepted>>
  BY DEF Abandon
<1>2. clock' \in Times /\ clock <= clock'
  BY <1>1, TimesAreNumbers DEF IInv, TypeOK
<1>3. TypeOK'
  BY <1>1, CallEnds DEF TypeOK, IInv
<1> QED
  BY <1>1, <1>2, <1>3, CallEnds, CollectionUntouched DEF IInv

\* IInv survives the passing of time.
LEMMA TickStep == ASSUME IInv, Tick PROVE IInv'
<1> USE DEF IInv, Tick
<1>1. clock \in Int /\ clock' = clock + 1 /\ clock' \in Times /\ clock <= clock'
  BY TokensAssumption DEF TypeOK, Times
<1>2. TypeOK'
  BY <1>1 DEF TypeOK
<1>3. ReadingOK'
  <2>1. \A h \in Handlers : handler[h].pc = "read" => handler[h].since \in Int
    BY HandlerLocals, TimesAreNumbers
  <2> QED
    BY <1>1, <2>1 DEF ReadingOK
<1>4. TouchingOK'
  <2>1. \A h \in Handlers :
            handler[h].pc = "touch" => handler[h].since \in Int /\ handler[h].now \in Int
    BY HandlerLocals, TimesAreNumbers
  <2> QED
    BY <1>1, <2>1, TokensAssumption DEF TouchingOK
<1>5. RevokingOK'
  BY DEF RevokingOK
<1> QED
  BY <1>1, <1>2, <1>3, <1>4, <1>5, CollectionUntouched

\* IInv survives a token that is minted.
LEMMA MintStep ==
    ASSUME IInv, NEW u \in Users, NEW t \in TokenIds, NEW ttl \in TtlRequests,
           Mint(u, t, ttl)
    PROVE  IInv'
<1> DEFINE minted == [user_id |-> u, created_at |-> clock, expires_at |-> clock + Days(ttl),
                      last_used_at |-> None, revoked_at |-> None]
<1>1. /\ tokens[t] = NoRecord /\ tokens' = [tokens EXCEPT ![t] = minted]
      /\ UNCHANGED <<clock, handler, first_revoked, last_accepted>>
  BY DEF Mint
<1>2. clock \in Times /\ clock \in Int
  BY ClockIsNumber DEF IInv
<1>3. minted \in Record
  BY <1>2, DaysAreCapped DEF Record
<1>4. /\ minted.last_used_at = None /\ minted.revoked_at = None
      /\ minted.expires_at <= minted.created_at + MaxTtl
  BY <1>2, DaysAreCapped, TokensAssumption
<1> HIDE DEF minted
<1>5. tokens'[t] = minted /\ minted # NoRecord
  BY <1>1, <1>3, NoRecordIsNone DEF IInv, TypeOK
<1>6. \A s \in TokenIds : s # t => tokens'[s] = tokens[s]
  BY <1>1 DEF IInv, TypeOK
<1>7. first_revoked[t] = None /\ last_accepted[t] = Never
  BY <1>1 DEF IInv, HistoryOfStored
<1>8. TypeOK'
  BY <1>1, <1>3 DEF IInv, TypeOK
<1>9. RevocationSticks' /\ RevokedIsRefused' /\ HistoryOfStored'
  BY <1>1, <1>4, <1>5, <1>6, <1>7
  DEF IInv, RevocationSticks, RevokedIsRefused, HistoryOfStored
<1>10. AcceptedWithinLifetime' /\ LastUsedIsRecent'
  BY <1>1, <1>6, <1>7 DEF IInv, AcceptedWithinLifetime, LastUsedIsRecent
<1>11. NothingFromFuture' /\ LifetimeCapped'
  BY <1>1, <1>4, <1>5, <1>6 DEF IInv, NothingFromFuture, LifetimeCapped
<1>12. \A h \in Handlers : handler[h].pc # "idle" /\ tokens[handler[h].id] # NoRecord =>
                               tokens'[handler[h].id] = tokens[handler[h].id]
  BY <1>1, <1>6, HandlerLocals DEF IInv
<1>13. ReadingOK' /\ TouchingOK' /\ RevokingOK'
  BY <1>1, <1>12 DEF IInv, ReadingOK, TouchingOK, RevokingOK
<1> QED
  BY <1>8, <1>9, <1>10, <1>11, <1>13 DEF IInv

\* IInv survives the look at the token of a call.
LEMMA VerifyReadStep ==
    ASSUME IInv, NEW h \in Handlers, NEW t \in TokenIds, VerifyRead(h, t)
    PROVE  IInv'
<1>1. /\ tokens[t] # NoRecord
      /\ handler' = [handler EXCEPT ![h] = Read(t)]
      /\ UNCHANGED <<clock, tokens, first_revoked, last_accepted>>
  BY DEF VerifyRead, Step
<1>2. clock \in Times /\ clock \in Int /\ clock <= clock
  BY ClockIsNumber DEF IInv
<1>3. tokens[t] \in Record
  BY <1>1, StoredDocument DEF IInv
<1>4. TypeOK'
  BY <1>1, <1>2, <1>3 DEF IInv, TypeOK, HandlerState, Read
<1>5. ReadingOK'
  <2> SUFFICES ASSUME NEW g \in Handlers, handler'[g].pc = "read"
               PROVE  LET s == handler'[g].id
                          copy == handler'[g].record
                          since == handler'[g].since
                      IN  /\ tokens[s] # NoRecord
                          /\ copy.expires_at = tokens[s].expires_at
                          /\ since <= clock
                          /\ copy.revoked_at = None /\ first_revoked[s] # None =>
                                since <= first_revoked[s]
                          /\ copy.last_used_at # None =>
                                /\ copy.last_used_at <= since
                                /\ tokens[s].last_used_at # None
                                /\ copy.last_used_at - tokens[s].last_used_at <= WriteDelay
    BY <1>1 DEF ReadingOK
  <2>1. CASE g = h
    <3>1. handler'[g] = Read(t)
      BY <1>1, <2>1 DEF IInv, TypeOK
    <3>2. tokens[t].revoked_at = None => first_revoked[t] = None
      BY <1>1 DEF IInv, RevocationSticks
    <3>3. tokens[t].last_used_at # None =>
              /\ tokens[t].last_used_at <= clock
              /\ tokens[t].last_used_at - tokens[t].last_used_at <= WriteDelay
      BY <1>1, StoredDocument, TokensAssumption DEF IInv, NothingFromFuture
    <3> QED
      BY <1>1, <1>2, <3>1, <3>2, <3>3 DEF Read
  <2>2. CASE g # h
    BY <1>1, <2>2 DEF IInv, TypeOK, ReadingOK
  <2> QED
    BY <2>1, <2>2
<1>6. TouchingOK' /\ RevokingOK'
  BY <1>1 DEF IInv, TypeOK, TouchingOK, RevokingOK, Read
<1> QED
  BY <1>1, <1>2, <1>4, <1>5, <1>6, CollectionUntouched DEF IInv

\* IInv survives the look at a token that is to be revoked.
LEMMA RevokeReadStep ==
    ASSUME IInv, NEW h \in Handlers, NEW u \in Users, NEW t \in TokenIds,
           RevokeRead(h, u, t)
    PROVE  IInv'
<1>1. /\ tokens[t] # NoRecord /\ tokens[t].user_id = u
      /\ handler' = [handler EXCEPT ![h] = Revoking(u, t)]
      /\ UNCHANGED <<clock, tokens, first_revoked, last_accepted>>
  BY DEF RevokeRead, Step
<1>2. clock \in Times /\ clock <= clock
  BY ClockIsNumber DEF IInv
<1>3. TypeOK'
  BY <1>1 DEF IInv, TypeOK, HandlerState, Revoking
<1>4. ReadingOK' /\ TouchingOK' /\ RevokingOK'
  BY <1>1 DEF IInv, TypeOK, ReadingOK, TouchingOK, RevokingOK, Revoking
<1> QED
  BY <1>1, <1>2, <1>3, <1>4, CollectionUntouched DEF IInv

\* Accepting a token moves its two latest dates forward and no other's.
LEMMA AcceptDates ==
    ASSUME TypeOK, NEW t \in TokenIds, NEW now \in Times, NEW since \in Times,
           Accept(t, now, since)
    PROVE  /\ last_accepted' \in
                  [TokenIds -> [at: Times \cup {-1}, since: Times \cup {-1}]]
           /\ last_accepted'[t].at \in {last_accepted[t].at, now}
           /\ last_accepted'[t].at >= now
           /\ last_accepted'[t].since \in {last_accepted[t].since, since}
           /\ \A s \in TokenIds \ {t} : last_accepted'[s] = last_accepted[s]
<1> DEFINE new == [at |-> Later(last_accepted[t].at, now),
                   since |-> Later(last_accepted[t].since, since)]
<1>1. last_accepted' = [last_accepted EXCEPT ![t] = new]
  BY DEF Accept
<1>2. now \in Int /\ since \in Int
  BY TimesAreNumbers
<1>3. /\ new.at \in {last_accepted[t].at, now} /\ new.at >= now
      /\ new.since \in {last_accepted[t].since, since}
  BY <1>2, HistoryDates, LaterOfTwo
<1>4. last_accepted[t] \in [at: Times \cup {-1}, since: Times \cup {-1}]
  BY DEF TypeOK
<1>5. new \in [at: Times \cup {-1}, since: Times \cup {-1}]
  BY <1>3, <1>4
<1> HIDE DEF new
<1> QED
  BY <1>1, <1>3, <1>5 DEF TypeOK

\* A call that began before any revocation and whose date is before the expiry
\* may have its token accepted.
LEMMA AcceptKeepsPromises ==
    ASSUME IInv, NEW t \in TokenIds, NEW now \in Times, NEW since \in Times,
           Accept(t, now, since), UNCHANGED <<clock, first_revoked>>,
           tokens[t] # NoRecord,
           \A s \in TokenIds :
              /\ tokens'[s] = NoRecord <=> tokens[s] = NoRecord
              /\ tokens[s] # NoRecord =>
                    /\ tokens'[s].revoked_at = tokens[s].revoked_at
                    /\ tokens'[s].expires_at = tokens[s].expires_at
                    /\ tokens'[s].created_at = tokens[s].created_at,
           now < tokens[t].expires_at, since <= now, now <= clock,
           first_revoked[t] # None => since <= first_revoked[t]
    PROVE  /\ RevocationSticks' /\ RevokedIsRefused' /\ AcceptedWithinLifetime'
           /\ HistoryOfStored' /\ LifetimeCapped'
           /\ \A s \in TokenIds :
                 last_accepted'[s].at <= clock /\ last_accepted'[s].since <= clock
<1> USE DEF IInv
<1>1. now \in Int /\ since \in Int /\ clock \in Int
  BY TimesAreNumbers DEF TypeOK
<1>2. RevocationSticks'
  BY DEF RevocationSticks
<1>3. RevokedIsRefused'
  BY AcceptDates DEF RevokedIsRefused
<1>4. LifetimeCapped'
  BY DEF LifetimeCapped
<1>5. AcceptedWithinLifetime'
  <2> SUFFICES ASSUME NEW s \in TokenIds, last_accepted'[s] # Never
               PROVE  /\ last_accepted'[s].at < tokens'[s].expires_at
                      /\ last_accepted'[s].at < tokens'[s].created_at + MaxTtl
    BY DEF AcceptedWithinLifetime
  <2>1. CASE s # t
    <3>1. last_accepted'[s] = last_accepted[s]
      BY <2>1, AcceptDates
    <3>2. tokens[s] # NoRecord
      BY <3>1 DEF HistoryOfStored
    <3> QED
      BY <3>1, <3>2 DEF AcceptedWithinLifetime
  <2>2. CASE s = t
    <3>1. tokens[t].expires_at <= tokens[t].created_at + MaxTtl
      BY DEF LifetimeCapped
    <3>2. tokens[t].expires_at \in Int /\ tokens[t].created_at \in Int
      BY StoredDocument
    <3>3. now < tokens[t].created_at + MaxTtl
      BY <1>1, <3>1, <3>2, TokensAssumption
    <3>4. last_accepted[t] # Never =>
              /\ last_accepted[t].at < tokens[t].expires_at
              /\ last_accepted[t].at < tokens[t].created_at + MaxTtl
      BY DEF AcceptedWithinLifetime
    <3>5. last_accepted'[t].at \in {last_accepted[t].at, now} /\ last_accepted'[t].at >= now
      BY AcceptDates
    <3>6. last_accepted[t] = Never => last_accepted[t].at < now
      BY <1>1, TokensAssumption DEF Never, Times
    <3>7. CASE last_accepted'[t].at = now
      BY <2>2, <3>3, <3>7
    <3>8. CASE last_accepted'[t].at = last_accepted[t].at /\ last_accepted[t] # Never
      BY <2>2, <3>4, <3>8
    <3>9. CASE last_accepted'[t].at = last_accepted[t].at /\ last_accepted[t] = Never
      BY <1>1, <3>5, <3>6, <3>9, HistoryDates
    <3> QED
      BY <3>5, <3>7, <3>8, <3>9
  <2> QED
    BY <2>1, <2>2
<1>6. HistoryOfStored'
  BY AcceptDates DEF HistoryOfStored
<1>7. \A s \in TokenIds : last_accepted'[s].at <= clock /\ last_accepted'[s].since <= clock
  BY <1>1, AcceptDates DEF NothingFromFuture
<1> QED
  BY <1>2, <1>3, <1>4, <1>5, <1>6, <1>7

\* IInv survives the verdict on a token.
LEMMA VerifyCheckStep ==
    ASSUME IInv, NEW h \in Handlers, VerifyCheck(h)
    PROVE  IInv'
<1> DEFINE t == handler[h].id
           copy == handler[h].record
           since == handler[h].since
<1>1. handler[h].pc = "read" /\ UNCHANGED <<clock, tokens, first_revoked>>
  BY DEF VerifyCheck
<1>2. /\ t \in TokenIds /\ copy \in Record /\ since \in Times /\ since \in Int
      /\ clock \in Times /\ clock \in Int /\ clock <= clock
  BY <1>1, HandlerLocals, ClockIsNumber, TimesAreNumbers DEF IInv
<1>3. /\ tokens[t] # NoRecord /\ copy.expires_at = tokens[t].expires_at
      /\ since <= clock
      /\ copy.revoked_at = None /\ first_revoked[t] # None => since <= first_revoked[t]
      /\ copy.last_used_at # None =>
            /\ copy.last_used_at <= since
            /\ tokens[t].last_used_at # None
            /\ copy.last_used_at - tokens[t].last_used_at <= WriteDelay
  BY <1>1 DEF IInv, ReadingOK
<1>4. IsActive(copy) =>
          clock < tokens[t].expires_at /\ (first_revoked[t] # None => since <= first_revoked[t])
  BY <1>3 DEF IsActive
<1>5. CASE ~IsActive(copy) /\ Step(h, Idle) /\ UNCHANGED last_accepted
  <2>1. TypeOK'
    BY <1>1, <1>5, CallEnds DEF IInv, TypeOK
  <2> QED
    BY <1>1, <1>2, <1>5, <2>1, CallEnds, CollectionUntouched DEF IInv
<1>6. CASE IsActive(copy) /\ Step(h, Touching(t, since)) /\ UNCHANGED last_accepted
  <2>1. handler' = [handler EXCEPT ![h] = Touching(t, since)]
    BY <1>6 DEF Step
  <2>2. TypeOK'
    BY <1>1, <1>2, <1>6, <2>1 DEF IInv, TypeOK, HandlerState, Touching
  <2>3. ReadingOK' /\ RevokingOK'
    BY <1>1, <2>1 DEF IInv, TypeOK, ReadingOK, RevokingOK, Touching
  <2>4. clock <= clock + WriteDelay
    BY <1>2, TokensAssumption
  <2>5. handler'[h] = Touching(t, since)
    BY <2>1 DEF IInv, TypeOK
  <2>6. \A g \in Handlers : g # h => handler'[g] = handler[g]
    BY <2>1 DEF IInv, TypeOK
  <2>7. TouchingOK'
    BY <1>1, <1>2, <1>3, <1>4, <1>6, <2>4, <2>5, <2>6 DEF IInv, TouchingOK, Touching
  <2> QED
    BY <1>1, <1>2, <1>6, <2>2, <2>3, <2>7, CollectionUntouched DEF IInv
<1>7. CASE IsActive(copy) /\ ~Stale(copy) /\ Accept(t, clock, since) /\ Step(h, Idle)
  <2>1. TypeOK'
    BY <1>1, <1>2, <1>7, CallEnds, AcceptDates DEF IInv, TypeOK
  <2>2. /\ RevocationSticks' /\ RevokedIsRefused' /\ AcceptedWithinLifetime'
        /\ HistoryOfStored' /\ LifetimeCapped'
        /\ \A s \in TokenIds :
              last_accepted'[s].at <= clock /\ last_accepted'[s].since <= clock
    BY <1>1, <1>2, <1>3, <1>4, <1>7, AcceptKeepsPromises
  <2>3. NothingFromFuture'
    BY <1>1, <2>2 DEF IInv, NothingFromFuture
  <2>4. LastUsedIsRecent'
    <3>1. copy.last_used_at # None /\ ~(clock - copy.last_used_at > Throttle)
      BY <1>7 DEF Stale
    <3>2. /\ tokens[t].last_used_at # None
          /\ copy.last_used_at - tokens[t].last_used_at <= WriteDelay
      BY <1>3, <3>1
    <3>3. copy.last_used_at \in Int
      BY <1>2, <3>1, TimesAreNumbers DEF Record
    <3>4. tokens[t].last_used_at \in Int
      BY <1>2, <1>3, <3>2, StoredDocument DEF IInv
    <3>5. clock - tokens[t].last_used_at <= Throttle + WriteDelay
      BY <1>2, <3>1, <3>2, <3>3, <3>4, TokensAssumption
    <3>6. last_accepted'[t].at = clock
      <4>1. last_accepted'[t].at \in {last_accepted[t].at, clock} /\ last_accepted'[t].at >= clock
        BY <1>2, <1>7, AcceptDates DEF IInv
      <4>2. last_accepted[t].at <= clock /\ last_accepted[t].at \in Int
        BY <1>2, HistoryDates DEF IInv, NothingFromFuture
      <4> QED
        BY <1>2, <4>1, <4>2
    <3>7. \A s \in TokenIds \ {t} : last_accepted'[s] = last_accepted[s]
      BY <1>2, <1>7, AcceptDates DEF IInv
    <3> QED
      BY <1>1, <1>2, <3>2, <3>5, <3>6, <3>7 DEF IInv, LastUsedIsRecent
  <2> QED
    BY <1>1, <1>7, <2>1, <2>2, <2>3, <2>4, CallEnds DEF IInv
<1> QED
  BY <1>5, <1>6, <1>7 DEF VerifyCheck

\* IInv survives the write of last_used_at.
LEMMA TouchLastUsedStep ==
    ASSUME IInv, NEW h \in Handlers, TouchLastUsed(h)
    PROVE  IInv'
<1> DEFINE t == handler[h].id
           now == handler[h].now
           since == handler[h].since
<1>1. /\ handler[h].pc = "touch" /\ UNCHANGED <<clock, first_revoked>>
      /\ tokens' = [tokens EXCEPT ![t].last_used_at = now]
      /\ Accept(t, now, since) /\ Step(h, Idle)
  BY DEF TouchLastUsed
<1>2. /\ t \in TokenIds /\ now \in Times /\ now \in Int /\ since \in Times /\ since \in Int
      /\ clock \in Times /\ clock \in Int
  BY <1>1, HandlerLocals, ClockIsNumber, TimesAreNumbers DEF IInv
<1>3. /\ tokens[t] # NoRecord /\ now < tokens[t].expires_at
      /\ since <= now /\ now <= clock /\ clock <= now + WriteDelay
      /\ first_revoked[t] # None => since <= first_revoked[t]
  BY <1>1 DEF IInv, TouchingOK
<1>4. tokens[t] \in Record /\ now # None
  BY <1>2, <1>3, StoredDocument, TimesAreNumbers DEF IInv
<1>5. /\ tokens'[t] \in Record
      /\ tokens'[t].last_used_at = now /\ tokens'[t].revoked_at = tokens[t].revoked_at
      /\ tokens'[t].expires_at = tokens[t].expires_at
      /\ tokens'[t].created_at = tokens[t].created_at
      /\ tokens'[t].user_id = tokens[t].user_id
  BY <1>1, <1>2, <1>4 DEF IInv, TypeOK, Record
<1>6. \A s \in TokenIds : s # t => tokens'[s] = tokens[s]
  BY <1>1 DEF IInv, TypeOK
<1>7. tokens'[t] # NoRecord
  BY <1>5, NoRecordIsNone
<1>8. \A s \in TokenIds :
          /\ tokens'[s] = NoRecord <=> tokens[s] = NoRecord
          /\ tokens[s] # NoRecord =>
                /\ tokens'[s].revoked_at = tokens[s].revoked_at
                /\ tokens'[s].expires_at = tokens[s].expires_at
                /\ tokens'[s].created_at = tokens[s].created_at
  BY <1>3, <1>5, <1>6, <1>7
<1>9. TypeOK'
  <2>1. tokens' \in [TokenIds -> Record \cup {NoRecord}]
    BY <1>1, <1>5, <1>6 DEF IInv, TypeOK
  <2>2. last_accepted' \in [TokenIds -> [at: Times \cup {-1}, since: Times \cup {-1}]]
    BY <1>1, <1>2, AcceptDates DEF IInv
  <2>3. handler' \in [Handlers -> HandlerState]
    BY <1>1 DEF IInv, TypeOK, Step, HandlerState
  <2> QED
    BY <1>1, <2>1, <2>2, <2>3 DEF IInv, TypeOK
<1> HIDE DEF t, now, since
<1>10. /\ RevocationSticks' /\ RevokedIsRefused' /\ AcceptedWithinLifetime'
       /\ HistoryOfStored' /\ LifetimeCapped'
       /\ \A s \in TokenIds :
             last_accepted'[s].at <= clock /\ last_accepted'[s].since <= clock
  BY <1>1, <1>2, <1>3, <1>8, AcceptKeepsPromises
<1>11. NothingFromFuture'
  BY <1>1, <1>3, <1>5, <1>6, <1>10 DEF IInv, NothingFromFuture
<1>12. LastUsedIsRecent'
  <2>1. last_accepted'[t].at \in Int /\ last_accepted'[t].at <= clock
    <3>1. last_accepted'[t].at \in {last_accepted[t].at, now}
      BY <1>1, <1>2, AcceptDates DEF IInv
    <3> QED
      BY <1>2, <1>10, <3>1, HistoryDates DEF IInv
  <2>2. last_accepted'[t].at - now <= Throttle + WriteDelay
    BY <1>2, <1>3, <2>1, TokensAssumption
  <2>3. \A s \in TokenIds \ {t} : last_accepted'[s] = last_accepted[s]
    BY <1>1, <1>2, AcceptDates DEF IInv
  <2> QED
    BY <1>4, <1>5, <1>6, <2>2, <2>3 DEF IInv, LastUsedIsRecent
<1>13. \A g \in Handlers : handler'[g].pc # "idle" =>
           handler'[g] = handler[g] /\ handler[g].id \in TokenIds
  BY <1>1, HandlerLocals DEF IInv, TypeOK, Step, Idle
<1>14. ReadingOK'
  <2> SUFFICES ASSUME NEW g \in Handlers, handler'[g].pc = "read"
               PROVE  LET s == handler'[g].id
                          copy == handler'[g].record
                          began == handler'[g].since
                      IN  /\ tokens'[s] # NoRecord
                          /\ copy.expires_at = tokens'[s].expires_at
                          /\ began <= clock
                          /\ copy.revoked_at = None /\ first_revoked[s] # None =>
                                began <= first_revoked[s]
                          /\ copy.last_used_at # None =>
                                /\ copy.last_used_at <= began
                                /\ tokens'[s].last_used_at # None
                                /\ copy.last_used_at - tokens'[s].last_used_at <= WriteDelay
    BY <1>1 DEF ReadingOK
  <2> DEFINE copy == handler[g].record
             began == handler[g].since
  <2>1. /\ handler'[g] = handler[g] /\ handler[g].pc = "read" /\ handler[g].id \in TokenIds
        /\ copy \in Record /\ began \in Int
    BY <1>13, HandlerLocals, TimesAreNumbers DEF IInv
  <2>2. CASE handler[g].id # t
    BY <1>6, <2>1, <2>2 DEF IInv, ReadingOK
  <2>3. CASE handler[g].id = t
    <3>1. copy.last_used_at # None => copy.last_used_at \in Int
      BY <2>1, TimesAreNumbers DEF Record
    <3>2. copy.last_used_at # None => copy.last_used_at <= clock
      BY <1>2, <2>1, <3>1 DEF IInv, ReadingOK
    <3>3. copy.last_used_at # None => copy.last_used_at - now <= WriteDelay
      BY <1>2, <1>3, <3>1, <3>2, TokensAssumption
    <3> QED
      BY <1>4, <1>5, <1>7, <2>1, <2>3, <3>3 DEF IInv, ReadingOK
  <2> QED
    BY <2>2, <2>3
<1>15. TouchingOK' /\ RevokingOK'
  BY <1>1, <1>5, <1>6, <1>7, <1>13 DEF IInv, TouchingOK, RevokingOK
<1> QED
  BY <1>9, <1>10, <1>11, <1>12, <1>14, <1>15 DEF IInv

\* IInv survives the write of revoked_at.
LEMMA RevokeWriteStep ==
    ASSUME IInv, NEW h \in Handlers, RevokeWrite(h)
    PROVE  IInv'
<1> DEFINE t == handler[h].id
           was == first_revoked[t]
<1>1. /\ handler[h].pc = "revoke" /\ UNCHANGED <<clock, last_accepted>> /\ Step(h, Idle)
      /\ tokens' = [tokens EXCEPT ![t].revoked_at = clock]
      /\ first_revoked' = [first_revoked EXCEPT ![t] = IF was = None THEN clock ELSE was]
  BY DEF RevokeWrite
<1>2. t \in TokenIds /\ tokens[t] # NoRecord
  BY <1>1, HandlerLocals DEF IInv, RevokingOK
<1>3. clock \in Times /\ clock \in Int /\ clock # None /\ tokens[t] \in Record
  BY <1>2, ClockIsNumber, StoredDocument, TimesAreNumbers DEF IInv
<1>4. /\ tokens'[t] \in Record /\ tokens'[t].revoked_at = clock
      /\ tokens'[t].last_used_at = tokens[t].last_used_at
      /\ tokens'[t].expires_at = tokens[t].expires_at
      /\ tokens'[t].created_at = tokens[t].created_at
      /\ tokens'[t].user_id = tokens[t].user_id
  BY <1>1, <1>2, <1>3 DEF IInv, TypeOK, Record
<1>5. tokens'[t] # NoRecord
  BY <1>4, NoRecordIsNone
<1>6. \A s \in TokenIds : s # t => tokens'[s] = tokens[s] /\ first_revoked'[s] = first_revoked[s]
  BY <1>1 DEF IInv, TypeOK
<1>7. first_revoked'[t] = IF was = None THEN clock ELSE was
  BY <1>1, <1>2 DEF IInv, TypeOK
<1>8. \A g \in Handlers : handler'[g].pc # "idle" =>
          handler'[g] = handler[g] /\ handler[g].id \in TokenIds
  BY <1>1, HandlerLocals DEF IInv, TypeOK, Step, Idle
<1>9. TypeOK'
  <2>1. tokens' \in [TokenIds -> Record \cup {NoRecord}]
    BY <1>1, <1>4, <1>6 DEF IInv, TypeOK
  <2>2. first_revoked' \in [TokenIds -> Times \cup {None}]
    BY <1>1, <1>3 DEF IInv, TypeOK
  <2>3. handler' \in [Handlers -> HandlerState]
    BY <1>1 DEF IInv, TypeOK, Step, HandlerState
  <2> QED
    BY <1>1, <2>1, <2>2, <2>3 DEF IInv, TypeOK
<1> HIDE DEF t, was
<1>10. RevocationSticks'
  BY <1>3, <1>4, <1>5, <1>6, <1>7 DEF IInv, RevocationSticks
<1>11. RevokedIsRefused'
  BY <1>1, <1>2, <1>3, <1>6, <1>7 DEF IInv, RevokedIsRefused, NothingFromFuture, was
<1>12. AcceptedWithinLifetime' /\ LastUsedIsRecent'
  BY <1>1, <1>4, <1>6 DEF IInv, AcceptedWithinLifetime, LastUsedIsRecent
<1>13. HistoryOfStored' /\ LifetimeCapped'
  BY <1>1, <1>2, <1>4, <1>5, <1>6 DEF IInv, HistoryOfStored, LifetimeCapped
<1>14. NothingFromFuture'
  BY <1>1, <1>2, <1>3, <1>4, <1>5, <1>6, <1>7 DEF IInv, NothingFromFuture, was
<1>15. \A g \in Handlers : handler'[g].pc \in {"read", "touch"} =>
           LET s == handler[g].id
           IN  /\ first_revoked'[s] # None /\ first_revoked'[s] # first_revoked[s] =>
                     handler[g].since <= first_revoked'[s]
               /\ tokens[s] # NoRecord =>
                     /\ tokens'[s] # NoRecord
                     /\ tokens'[s].expires_at = tokens[s].expires_at
                     /\ tokens'[s].last_used_at = tokens[s].last_used_at
  <2> SUFFICES ASSUME NEW g \in Handlers, handler'[g].pc \in {"read", "touch"}
               PROVE  LET s == handler[g].id
                      IN  /\ first_revoked'[s] # None /\ first_revoked'[s] # first_revoked[s] =>
                                handler[g].since <= first_revoked'[s]
                          /\ tokens[s] # NoRecord =>
                                /\ tokens'[s] # NoRecord
                                /\ tokens'[s].expires_at = tokens[s].expires_at
                                /\ tokens'[s].last_used_at = tokens[s].last_used_at
    OBVIOUS
  <2>1. handler'[g] = handler[g] /\ handler[g].id \in TokenIds
    BY <1>8
  <2>2. handler[g].since <= clock
    <3>1. CASE handler[g].pc = "read"
      BY <3>1 DEF IInv, ReadingOK
    <3>2. CASE handler[g].pc = "touch"
      <4>1. handler[g].since \in Int /\ handler[g].now \in Int
        BY <3>2, HandlerLocals, TimesAreNumbers DEF IInv
      <4> QED
        BY <1>3, <3>2, <4>1 DEF IInv, TouchingOK
    <3> QED
      BY <2>1, <3>1, <3>2
  <2> QED
    BY <1>4, <1>5, <1>6, <1>7, <2>1, <2>2 DEF was
<1>16. ReadingOK'
  BY <1>1, <1>8, <1>15 DEF IInv, ReadingOK
<1>17. TouchingOK'
  BY <1>1, <1>8, <1>15 DEF IInv, TouchingOK
<1>18. RevokingOK'
  BY <1>4, <1>5, <1>6, <1>8 DEF IInv, RevokingOK
<1> QED
  BY <1>9, <1>10, <1>11, <1>12, <1>13, <1>14, <1>16, <1>17, <1>18 DEF IInv

\* Every step keeps IInv.
LEMMA StepIInv == IInv /\ [Next]_vars => IInv'
<1> SUFFICES ASSUME IInv, [Next]_vars PROVE IInv'
  OBVIOUS
<1>1. CASE UNCHANGED vars
  <2>1. TypeOK'
    BY <1>1 DEF vars, IInv, TypeOK
  <2>2. ReadingOK' /\ TouchingOK' /\ RevokingOK'
    BY <1>1 DEF vars, IInv, ReadingOK, TouchingOK, RevokingOK
  <2>3. clock' \in Times /\ clock <= clock'
    BY <1>1, ClockIsNumber DEF vars, IInv
  <2> QED
    BY <1>1, <2>1, <2>2, <2>3, CollectionUntouched DEF vars, IInv
<1>2. ASSUME NEW u \in Users, NEW t \in TokenIds, NEW ttl \in TtlRequests, Mint(u, t, ttl)
      PROVE  IInv'
  BY <1>2, MintStep
<1>3. ASSUME NEW h \in Handlers, NEW u \in Users, NEW t \in TokenIds, RevokeRead(h, u, t)
      PROVE  IInv'
  BY <1>3, RevokeReadStep
<1>4. ASSUME NEW h \in Handlers, NEW t \in TokenIds, VerifyRead(h, t)
      PROVE  IInv'
  BY <1>4, VerifyReadStep
<1>5. ASSUME NEW h \in Handlers, VerifyCheck(h)
      PROVE  IInv'
  BY <1>5, VerifyCheckStep
<1>6. ASSUME NEW h \in Handlers, TouchLastUsed(h)
      PROVE  IInv'
  BY <1>6, TouchLastUsedStep
<1>7. ASSUME NEW h \in Handlers, RevokeWrite(h)
      PROVE  IInv'
  BY <1>7, RevokeWriteStep
<1>8. ASSUME NEW h \in Handlers, Abandon(h)
      PROVE  IInv'
  BY <1>8, AbandonStep
<1>9. CASE Tick
  BY <1>9, TickStep
<1> QED
  BY <1>1, <1>2, <1>3, <1>4, <1>5, <1>6, <1>7, <1>8, <1>9 DEF Next

\* IInv holds in every reachable state.
THEOREM Invariant == Spec => []IInv
BY InitIInv, StepIInv, PTL DEF Spec

-----------------------------------------------------------------------------
(* What the run checks on a small instance, for every instance.              *)

\* Documents and the locals of calls keep their types.
THEOREM TypeCorrect == Spec => []TypeOK
<1>1. IInv => TypeOK
  BY DEF IInv
<1> QED
  BY <1>1, Invariant, PTL

\* A token that a revoke was stored for stays revoked, whatever write was under
\* way meanwhile.
THEOREM RevocationIsForGood == Spec => []RevocationSticks
<1>1. IInv => RevocationSticks
  BY DEF IInv
<1> QED
  BY <1>1, Invariant, PTL

\* A call that begins after a revocation does not have the token accepted.
THEOREM RevokedTokensAreRefused == Spec => []RevokedIsRefused
<1>1. IInv => RevokedIsRefused
  BY DEF IInv
<1> QED
  BY <1>1, Invariant, PTL

\* A token is accepted before its expiry and within the maximum lifetime only,
\* whatever lifetime the payload asked for.
THEOREM LifetimeIsKept == Spec => []AcceptedWithinLifetime
<1>1. IInv => AcceptedWithinLifetime
  BY DEF IInv
<1> QED
  BY <1>1, Invariant, PTL

\* The listed last_used_at lags behind the last accepted use by the throttle
\* and one write at most, in whatever order overlapping calls store it.
THEOREM LastUseIsRecorded == Spec => []LastUsedIsRecent
<1>1. IInv => LastUsedIsRecent
  BY DEF IInv
<1> QED
  BY <1>1, Invariant, PTL

\* A date of revocation is stored only by a revoke of the token's owner.
THEOREM OwnersRevoke == Spec => OnlyOwnerRevokes
<1> DEFINE ByOwner(t) ==
              tokens[t] # NoRecord /\ tokens'[t].revoked_at # tokens[t].revoked_at =>
                  \E h \in Handlers :
                      /\ handler[h].pc = "revoke" /\ handler[h].id = t
                      /\ handler[h].caller = tokens[t].user_id
<1>1. ASSUME IInv, [Next]_vars, NEW t \in TokenIds
      PROVE  ByOwner(t)
  <2>1. CASE UNCHANGED tokens
    BY <2>1
  <2>2. ASSUME NEW u \in Users, NEW s \in TokenIds, NEW ttl \in TtlRequests, Mint(u, s, ttl)
        PROVE  ByOwner(t)
    BY <1>1, <2>2 DEF Mint, IInv, TypeOK
  <2>3. ASSUME NEW h \in Handlers, TouchLastUsed(h)
        PROVE  ByOwner(t)
    <3>1. CASE tokens[t] # NoRecord
      <4>1. tokens[t] \in Record
        BY <1>1, <3>1, StoredDocument DEF IInv
      <4>2. tokens' = [tokens EXCEPT ![handler[h].id].last_used_at = handler[h].now]
        BY <2>3 DEF TouchLastUsed
      <4>3. tokens'[t].revoked_at = tokens[t].revoked_at
        BY <1>1, <4>1, <4>2 DEF IInv, TypeOK, Record
      <4> QED
        BY <4>3
    <3> QED
      BY <3>1
  <2>4. ASSUME NEW h \in Handlers, RevokeWrite(h)
        PROVE  ByOwner(t)
    <3>1. handler[h].pc = "revoke"
          /\ tokens' = [tokens EXCEPT ![handler[h].id].revoked_at = clock]
      BY <2>4 DEF RevokeWrite
    <3>2. tokens[handler[h].id].user_id = handler[h].caller
      BY <1>1, <3>1 DEF IInv, RevokingOK
    <3>3. handler[h].id # t => tokens'[t] = tokens[t]
      BY <1>1, <3>1 DEF IInv, TypeOK
    <3> QED
      BY <3>1, <3>2, <3>3
  <2>5. \/ UNCHANGED tokens
        \/ \E u \in Users, s \in TokenIds, ttl \in TtlRequests : Mint(u, s, ttl)
        \/ \E h \in Handlers : TouchLastUsed(h) \/ RevokeWrite(h)
    BY <1>1 DEF Next, vars, RevokeRead, VerifyRead, VerifyCheck, Abandon, Tick
  <2> QED
    BY <2>1, <2>2, <2>3, <2>4, <2>5
<1>2. IInv /\ [Next]_vars => [\A t \in TokenIds : ByOwner(t)]_vars
  BY <1>1
<1> QED
  BY <1>2, Invariant, PTL DEF Spec, OnlyOwnerRevokes

=============================================================================
