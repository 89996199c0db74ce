----------------------------- MODULE ClientProofs -----------------------------
(***************************************************************************)
(* Proofs about Client, for any sets of accounts, homes and callers, any   *)
(* logins, any answers and any intervals: type correctness, single flight, *)
(* that no waiter is lost, that results are recorded in the order they     *)
(* were measured, that requests are paced, and that Client implements      *)
(* QuotaGate.                                                              *)
(***************************************************************************)
EXTENDS ClientGate, ReadingProofs

LEMMA SlackInNat ==
    ASSUME NEW interval \in Nat
    PROVE  MinIntervalSlack(interval) \in Nat
<1>1. interval \div SlackDivisor \in Nat
  BY BackoffAssumption
<1>2. QED
  BY <1>1, BackoffAssumption DEF MinIntervalSlack

LEMMA WaitsInNat ==
    ASSUME NEW failures \in Nat, NEW retryAfter \in Nat,
           NEW w \in Waits(failures, retryAfter)
    PROVE  w \in Nat /\ w >= retryAfter
  BY BackoffAssumption DEF Waits, Jittered

LEMMA FromCacheType ==
    ASSUME NEW e \in Entries
    PROVE  /\ FromCache(e) \in Readings
           /\ \A f \in Readings : StaleOr(e, f) \in Readings
<1>1. e.last \in Readings /\ e.lastGood \in Readings
  BY DEF Entries
<1>2. ASSUME NEW f \in Readings PROVE StaleOr(e, f) \in Readings
  BY <1>1 DEF StaleOr, Readings
<1>3. QED
  BY <1>1, <1>2 DEF FromCache

LEMMA RecordedType ==
    ASSUME NEW e \in Entries, NEW r \in Readings, NEW k \in Accounts,
           NEW t \in Nat, NEW new \in Recorded(e, r, k, t)
    PROVE  new \in Entries
<1>1. MinInterval[k] \in Nat
  BY ClientAssumption
<1>2. e.lastGood \in Readings /\ e.failures \in Nat
  BY DEF Entries
<1>3. r.retryAfter \in Nat
  BY DEF Readings
<1>4. CASE r.transient
  <2>1. PICK w \in Waits(e.failures + 1, r.retryAfter) :
               new = RecordFailure(e, r, k, t, w)
    BY <1>4 DEF Recorded
  <2>2. w \in Nat
    BY <1>2, <1>3, WaitsInNat
  <2> DEFINE next == t + FailureWait(r, k, w)
  <2>3. next \in Nat
    BY <1>1, <2>2 DEF FailureWait
  <2>4. [r EXCEPT !.retryAt = next] \in Readings
    BY <2>3 DEF Readings
  <2> HIDE DEF next
  <2>5. QED
    BY <1>2, <2>1, <2>3, <2>4 DEF RecordFailure, Entries, next
<1>5. CASE ~r.transient
  <2>1. new = RecordAnswer(e, r, k, t)
    BY <1>5 DEF Recorded
  <2>2. MinIntervalSlack(MinInterval[k]) \in Nat
    BY <1>1, SlackInNat
  <2>3. QED
    BY <1>1, <1>2, <2>1, <2>2 DEF RecordAnswer, Entries
<1>6. QED
  BY <1>4, <1>5

-----------------------------------------------------------------------------
(***************************************************************************)
(* Type correctness is inductive as it stands.                             *)
(***************************************************************************)

LEMMA InitTypeOK == Init => TypeOK
  BY ClientAssumption, NoReadingType
  DEF Init, TypeOK, Steps, Entries, NoEntry, NoTime

\* What Return leaves behind.
LEMMA ReturnType ==
    ASSUME TypeOK, NEW c \in Callers, NEW r \in Readings, Return(c, r)
    PROVE  /\ pc' \in [Callers -> Steps]
           /\ pc'[c] = "idle"
           /\ \A d \in Callers \ {c} :
                 /\ pc'[d] = pc[d] /\ key'[d] = key[d] /\ src'[d] = src[d]
                 /\ ident'[d] = ident[d]
           /\ src' \in [Callers -> Homes \cup {NoHome}]
           /\ key' \in [Callers -> Accounts \cup {NoAccount}]
           /\ ident' \in [Callers -> Accounts \cup {NoAccount}]
           /\ box' \in [Callers -> Readings]
           /\ res' \in [Callers -> Readings]
           /\ ctxDone' \in [Callers -> BOOLEAN]
  BY NoReadingType DEF Return, Goto, TypeOK, Steps

\* What Probe ends with before it asks anything.
LEMMA UnaskedFacts ==
    ASSUME now \in Nat, NEW l \in Logins, NEW r \in UnaskedReadings(l)
    PROVE  /\ r \in Readings /\ r.fetched = now
           /\ r.state \in States /\ ~HasQuota(r.state) /\ r.cause # Unset
           /\ r.account = l.account /\ r.retryAt = NoTime
<1>1. CASE Usable(l)
  <2>1. PICK cause \in Unasked : r = Finish(Fail("error", cause), l.account, now)
    BY <1>1 DEF UnaskedReadings
  <2> DEFINE f == Fail("error", cause)
  <2>2. cause \in Causes /\ cause # Unset /\ "error" \in States
    BY UnaskedAssumption DEF States
  <2>3. /\ f \in Readings /\ f.state = "error" /\ f.cause = cause
        /\ f.fetched = NoTime /\ f.account = NoAccount
        /\ f.retryAt = NoTime /\ f.retryAfter = 0
    BY <2>2, FailType, FailFacts, FailPlain
  <2> HIDE DEF f
  <2>4. r = Finish(f, l.account, now) /\ l.account \in Accounts
    BY <1>1, <2>1 DEF f, Usable, Logins
  <2>5. QED
    BY <2>2, <2>3, <2>4, FinishType, FinishFacts, FinishPlain DEF HasQuota, QuotaStates
<1>2. CASE ~Usable(l)
  BY <1>2, LocalReadingType, LocalReadingFacts, LocalReadingPlain DEF UnaskedReadings
<1>3. QED
  BY <1>1, <1>2

\* A caller inside Get has resolved its home and its account.
LEMMA InsideType ==
    ASSUME TypeOK, NEW c \in Callers, NEW step \in Steps, At(c, step),
           step # "idle"
    PROVE  /\ key[c] \in Accounts /\ src[c] \in Homes
           /\ entries[key[c]] \in Entries
           /\ inflight[key[c]] \in Callers \cup {NoCaller}
           /\ login[src[c]] \in Logins
<1>1. pc[c] # "idle"
  BY DEF At
<1>2. key[c] \in Accounts /\ src[c] \in Homes
  BY <1>1, Zenon DEF TypeOK
<1>3. QED
  BY <1>2 DEF TypeOK

\* Every step of Get leaves its variables well formed.
LEMMA TypeOKStep == TypeOK /\ [Next]_vars => TypeOK'
<1> SUFFICES ASSUME TypeOK, [Next]_vars
             PROVE  TypeOK'
  OBVIOUS
<1> USE DEF TypeOK, At, Goto
<1>1. ASSUME NEW c \in Callers, NEW s \in Homes, CallUsable(c, s)
      PROVE  TypeOK'
  <2>1. login[s].account \in Accounts
    BY <1>1 DEF CallUsable, Usable, Logins
  <2>2. QED
    BY <1>1, <2>1, NoReadingType
    DEF CallUsable, Steps, clientVars, worldVars
<1>2. ASSUME NEW c \in Callers, NEW s \in Homes, CallExpired(c, s)
      PROVE  TypeOK'
  <2>1. login[s].account \in Accounts
    BY <1>2 DEF CallExpired, Logins
  <2>2. LocalReading(login[s], now) \in Readings
    BY LocalReadingType
  <2>3. QED
    BY <1>2, <2>1, <2>2, NoReadingType
    DEF CallExpired, Steps, clientVars, worldVars
<1>3. ASSUME NEW c \in Callers, NEW s \in Homes, CallTerminal(c, s)
      PROVE  TypeOK'
  <2>1. LocalReading(login[s], now) \in Readings
    BY LocalReadingType
  <2>2. QED
    BY <1>3, <2>1, ReturnType DEF CallTerminal, clientVars, worldVars
<1>4. ASSUME NEW c \in Callers, LocalAnswer(c)
      PROVE  TypeOK'
  <2>1. entries[key[c]] \in Entries
    BY <1>4, InsideType DEF LocalAnswer, Steps
  <2>2. StaleOr(entries[key[c]], box[c]) \in Readings
    BY <2>1, FromCacheType
  <2>3. QED
    BY <1>4, <2>2, ReturnType DEF LocalAnswer, clientVars, worldVars
<1>5. ASSUME NEW c \in Callers, Cached(c)
      PROVE  TypeOK'
  <2>1. entries[key[c]] \in Entries
    BY <1>5, InsideType DEF Cached, Steps
  <2>2. FromCache(entries[key[c]]) \in Readings
    BY <2>1, FromCacheType
  <2>3. QED
    BY <1>5, <2>2, ReturnType DEF Cached, clientVars, worldVars
<1>6. ASSUME NEW c \in Callers, Join(c)
      PROVE  TypeOK'
  <2>1. inflight[key[c]] \in Callers
    BY <1>6, InsideType DEF Join, Steps
  <2>2. QED
    BY <1>6, <2>1 DEF Join, Steps, clientVars, worldVars
<1>7. ASSUME NEW c \in Callers, Lead(c)
      PROVE  TypeOK'
  BY <1>7 DEF Lead, Steps, worldVars
<1>8. ASSUME NEW c \in Callers, ProbeIdentify(c)
      PROVE  TypeOK'
  <2>1. login[src[c]] \in Logins
    BY <1>8, InsideType DEF ProbeIdentify, Steps
  <2>2. login[src[c]].account \in Accounts
    BY <1>8, <2>1 DEF ProbeIdentify, Usable, Logins
  <2>3. QED
    BY <1>8, <2>2 DEF ProbeIdentify, Steps, clientVars
<1>9. ASSUME NEW c \in Callers, ProbeUnasked(c)
      PROVE  TypeOK'
  <2>1. login[src[c]] \in Logins
    BY <1>9, InsideType DEF ProbeUnasked, Steps
  <2>2. PICK r \in UnaskedReadings(login[src[c]]) : box' = [box EXCEPT ![c] = r]
    BY <1>9 DEF ProbeUnasked
  <2>3. r \in Readings
    BY <2>1, <2>2, UnaskedFacts
  <2>4. QED
    BY <1>9, <2>2, <2>3 DEF ProbeUnasked, Steps, clientVars, worldVars
<1>10. ASSUME NEW c \in Callers, Fetch(c)
       PROVE  TypeOK'
  <2>1. PICK r \in Answers :
          /\ box' = [box EXCEPT ![c] = Finish(r, ident[c], now)]
          /\ measured' = IF HasQuota(r.state)
                         THEN [measured EXCEPT ![ident[c]] = @ \cup {now}]
                         ELSE measured
    BY <1>10 DEF Fetch
  <2>2. Finish(r, ident[c], now) \in Readings
    BY AnswersAssumption, FinishType DEF IsAnswer
  <2>3. measured' \in [Accounts -> SUBSET Nat]
    BY <2>1
  <2>4. QED
    BY <1>10, <2>1, <2>2, <2>3 DEF Fetch, Steps, clientVars
<1>11. ASSUME NEW c \in Callers, Abort(c)
       PROVE  TypeOK'
  <2>1. Fail("error", "network") \in Readings
    BY FailType DEF States, Causes
  <2>2. Finish(Fail("error", "network"), ident[c], now) \in Readings
    BY <2>1, FinishType
  <2>3. QED
    BY <1>11, <2>2 DEF Abort, Steps, clientVars, worldVars
<1>12. ASSUME NEW c \in Callers, Record(c)
       PROVE  TypeOK'
  <2>1. PICK e \in Recorded(entries[key[c]], box[c], key[c], now) :
          /\ entries' = [entries EXCEPT ![key[c]] = e]
          /\ box' = [box EXCEPT ![c] = FromCache(e)]
    BY <1>12 DEF Record
  <2>2. key[c] \in Accounts /\ entries[key[c]] \in Entries
    BY <1>12, InsideType DEF Record, Steps
  <2>3. e \in Entries
    BY <2>2, RecordedType
  <2>4. FromCache(e) \in Readings
    BY <2>3, FromCacheType
  <2>5. QED
    BY <1>12, <2>1, <2>2, <2>3, <2>4 DEF Record, Steps, worldVars
<1>13. ASSUME NEW c \in Callers, Close(c)
       PROVE  TypeOK'
  BY <1>13 DEF Close, Steps, clientVars, worldVars
<1>14. ASSUME NEW c \in Callers, Hook(c)
       PROVE  TypeOK'
  <2>1. key[c] \in Accounts /\ box[c] \in Readings
    BY <1>14, InsideType DEF Hook, Steps
  <2>2. Return(c, box[c]) /\ reported' = [reported EXCEPT ![key[c]] = @ + 1]
    BY <1>14 DEF Hook
  <2>3. reported' \in [Accounts -> Nat]
    BY <2>1, <2>2
  <2>4. UNCHANGED <<now, cl, entries, inflight, upstream, login, requests, measured>>
    BY <1>14 DEF Hook, worldVars
  <2>5. QED
    BY <2>1, <2>2, <2>3, <2>4, ReturnType
<1>15. ASSUME NEW c \in Callers, WaitDone(c)
       PROVE  TypeOK'
  BY <1>15, ReturnType DEF WaitDone, clientVars, worldVars
<1>16. ASSUME NEW c \in Callers, WaitTimeout(c)
       PROVE  TypeOK'
  <2>1. Fail("error", "timeout") \in Readings
    BY FailType DEF States, Causes
  <2>2. [Fail("error", "timeout") EXCEPT !.account = key[c]] \in Readings
    BY <2>1 DEF Readings
  <2>3. QED
    BY <1>16, <2>2, ReturnType DEF WaitTimeout, clientVars, worldVars
<1>17. ASSUME NEW c \in Callers, Cancel(c)
       PROVE  TypeOK'
  BY <1>17 DEF Cancel, clientVars, worldVars
<1>18. ASSUME NEW s \in Homes, Relogin(s)
       PROVE  TypeOK'
  BY <1>18, ClientAssumption DEF Relogin, callerVars, clientVars
<1>19. CASE Tick
  BY <1>19 DEF Tick, callerVars, clientVars, worldVars
<1>20. CASE UNCHANGED vars
  BY <1>20 DEF vars, callerVars, clientVars, worldVars
<1>21. QED
  BY <1>1, <1>2, <1>3, <1>4, <1>5, <1>6, <1>7, <1>8, <1>9, <1>10, <1>11,
     <1>12, <1>13, <1>14, <1>15, <1>16, <1>17, <1>18, <1>19, <1>20
  DEF Next, Continue

\* Get never works on a nil entry, call, account or reading (client.go:155-228).
THEOREM TypeCorrect == Spec => []TypeOK
  BY InitTypeOK, TypeOKStep, PTL DEF Spec

-----------------------------------------------------------------------------
(***************************************************************************)
(* Single flight and waiters.  SingleFlight says nothing of Client.calls,  *)
(* which is what keeps a second leader away: the invariant ties the two    *)
(* together both ways, and every waiter to a leader that will close.       *)
(***************************************************************************)

CallsInv ==
    /\ \A c \in Callers : pc[c] \in Probing => inflight[key[c]] = c
    /\ \A k \in Accounts : inflight[k] # NoCaller =>
          pc[inflight[k]] \in Probing /\ key[inflight[k]] = k
    /\ \A c \in Callers : cl[c] # NoCaller =>
          pc[c] = "wait" /\ pc[cl[c]] \in Probing \cup {"close"}

LEMMA CallsInvStep == TypeOK /\ CallsInv /\ [Next]_vars => CallsInv'
  <1> SUFFICES ASSUME TypeOK, CallsInv, [Next]_vars
               PROVE  CallsInv'
    OBVIOUS
  <1> USE ClientAssumption DEF CallsInv, At, Goto, Probing
  <1>0. /\ inflight \in [Accounts -> Callers \cup {NoCaller}]
        /\ pc \in [Callers -> Steps]
        /\ key \in [Callers -> Accounts \cup {NoAccount}]
        /\ ident \in [Callers -> Accounts \cup {NoAccount}]
        /\ cl \in [Callers -> Callers \cup {NoCaller}]
        /\ \A c \in Callers : pc[c] # "idle" => key[c] \in Accounts
    BY DEF TypeOK
  <1>1. ASSUME NEW c \in Callers, NEW s \in Homes, CallUsable(c, s)
        PROVE  CallsInv'
    BY <1>0, <1>1 DEF CallUsable, clientVars
  <1>2. ASSUME NEW c \in Callers, NEW s \in Homes, CallExpired(c, s)
        PROVE  CallsInv'
    BY <1>0, <1>2 DEF CallExpired, clientVars
  <1>3. ASSUME NEW c \in Callers, NEW s \in Homes, CallTerminal(c, s)
        PROVE  CallsInv'
    BY <1>0, <1>3 DEF CallTerminal, Return, clientVars
  <1>4. ASSUME NEW c \in Callers, LocalAnswer(c)
        PROVE  CallsInv'
    BY <1>0, <1>4 DEF LocalAnswer, Return, clientVars
  <1>5. ASSUME NEW c \in Callers, Cached(c)
        PROVE  CallsInv'
    BY <1>0, <1>5 DEF Cached, Return, clientVars
  <1>6. ASSUME NEW c \in Callers, Join(c)
        PROVE  CallsInv'
    BY <1>0, <1>6 DEF Join, clientVars
  <1>7. ASSUME NEW c \in Callers, Lead(c)
        PROVE  CallsInv'
    BY <1>0, <1>7 DEF Lead
  <1>8. ASSUME NEW c \in Callers, ProbeIdentify(c)
        PROVE  CallsInv'
    BY <1>0, <1>8 DEF ProbeIdentify, clientVars
  <1>9. ASSUME NEW c \in Callers, ProbeUnasked(c)
        PROVE  CallsInv'
    BY <1>0, <1>9 DEF ProbeUnasked, clientVars
  <1>10. ASSUME NEW c \in Callers, Fetch(c)
         PROVE  CallsInv'
    BY <1>0, <1>10 DEF Fetch, clientVars
  <1>11. ASSUME NEW c \in Callers, Abort(c)
         PROVE  CallsInv'
    BY <1>0, <1>11 DEF Abort, clientVars
  <1>12. ASSUME NEW c \in Callers, Record(c)
         PROVE  CallsInv'
    BY <1>0, <1>12 DEF Record
  <1>13. ASSUME NEW c \in Callers, Close(c)
         PROVE  CallsInv'
    BY <1>0, <1>13 DEF Close, clientVars
  <1>14. ASSUME NEW c \in Callers, Hook(c)
         PROVE  CallsInv'
    BY <1>0, <1>14 DEF Hook, Return
  <1>15. ASSUME NEW c \in Callers, WaitDone(c)
         PROVE  CallsInv'
    BY <1>0, <1>15 DEF WaitDone, Return, clientVars
  <1>16. ASSUME NEW c \in Callers, WaitTimeout(c)
         PROVE  CallsInv'
    BY <1>0, <1>16 DEF WaitTimeout, Return, clientVars
  <1>17. ASSUME NEW c \in Callers, Cancel(c)
         PROVE  CallsInv'
    BY <1>17 DEF Cancel, clientVars
  <1>18. ASSUME NEW s \in Homes, Relogin(s)
         PROVE  CallsInv'
    BY <1>18 DEF Relogin, callerVars, clientVars
  <1>19. CASE Tick
    BY <1>19 DEF Tick, callerVars, clientVars
  <1>20. CASE UNCHANGED vars
    BY <1>20 DEF vars, callerVars, clientVars
  <1>21. QED
    BY <1>1, <1>2, <1>3, <1>4, <1>5, <1>6, <1>7, <1>8, <1>9, <1>10, <1>11,
       <1>12, <1>13, <1>14, <1>15, <1>16, <1>17, <1>18, <1>19, <1>20
    DEF Next, Continue

\* Client.calls names exactly the callers that probe, each under its account, and
\* whoever waits does so on a call that has still to be closed.
THEOREM CallsInvariant == Spec => []CallsInv
<1>1. Init => CallsInv
  BY DEF Init, CallsInv, Probing
<1>2. QED
  BY <1>1, TypeCorrect, CallsInvStep, PTL DEF Spec

\* No two goroutines ever probe for the same account.
THEOREM SingleFlightHolds == Spec => []SingleFlight
<1>1. CallsInv => SingleFlight
  BY DEF CallsInv, SingleFlight
<1>2. QED
  BY <1>1, CallsInvariant, PTL

\* Every joined caller has a leader that will close its call, or finds it closed.
THEOREM NoLostWaiterHolds == Spec => []NoLostWaiter
<1>1. CallsInv => NoLostWaiter
  BY DEF CallsInv, NoLostWaiter
<1>2. QED
  BY <1>1, CallsInvariant, PTL

-----------------------------------------------------------------------------
\* What record leaves behind, in the terms the invariants need.
LEMMA RecordedFacts ==
    ASSUME NEW e \in Entries, NEW r \in Readings, NEW k \in Accounts,
           NEW t \in Nat, NEW new \in Recorded(e, r, k, t)
    PROVE  /\ new.last.fetched = r.fetched
           /\ new.last.state = r.state
           /\ new.last.cause = r.cause
           /\ new.last.stale = r.stale
           /\ new.last.account = r.account
           /\ new.last.transient = r.transient
           /\ new.last.retryAfter = r.retryAfter
           /\ new.lastGood = IF ~r.transient /\ HasQuota(r.state)
                             THEN r ELSE e.lastGood
<1>1. CASE r.transient
  <2>1. PICK w \in Waits(e.failures + 1, r.retryAfter) :
               new = RecordFailure(e, r, k, t, w)
    BY <1>1 DEF Recorded
  <2> DEFINE next == t + FailureWait(r, k, w)
  <2>2. new.last = [r EXCEPT !.retryAt = next] /\ new.lastGood = e.lastGood
    BY <2>1 DEF RecordFailure
  <2> HIDE DEF next
  <2>3. QED
    BY <1>1, <2>2 DEF Readings
<1>2. CASE ~r.transient
  BY <1>2 DEF Recorded, RecordAnswer
<1>3. QED
  BY <1>1, <1>2

-----------------------------------------------------------------------------
(***************************************************************************)
(* Order.  A result is stamped when it is measured and recorded later; it  *)
(* can overtake no other because only the leader of the account's call     *)
(* records, and it measured after the record it found.                     *)
(***************************************************************************)

OrderInv ==
    /\ \A k \in Accounts : entries[k].lastGood.fetched <= entries[k].last.fetched
    /\ \A k \in Accounts : entries[k].last.fetched <= now
    /\ \A c \in Callers : pc[c] = "record" =>
          /\ entries[key[c]].last.fetched <= box[c].fetched
          /\ box[c].fetched <= now
          /\ box[c].state # Unset

\* The steps that touch neither the entries nor a result on its way to them.
LEMMA OrderKept ==
    ASSUME TypeOK, OrderInv, UNCHANGED <<now, entries>>,
           \A c \in Callers : pc'[c] = "record" =>
              pc[c] = "record" /\ key'[c] = key[c] /\ box'[c] = box[c]
    PROVE  OrderInv'
  BY DEF OrderInv

LEMMA NewResult ==
    ASSUME TypeOK, OrderInv, NEW c \in Callers, pc[c] # "idle",
           NEW r \in Readings, r.fetched = now, r.state # Unset,
           pc' = [pc EXCEPT ![c] = "record"], box' = [box EXCEPT ![c] = r],
           UNCHANGED <<now, entries, key>>
    PROVE  OrderInv'
<1>1. key[c] \in Accounts /\ now \in Nat
  BY Zenon DEF TypeOK
<1>2. pc \in [Callers -> Steps] /\ box \in [Callers -> Readings]
  BY DEF TypeOK
<1>3. box'[c] = r /\ \A d \in Callers \ {c} : pc'[d] = pc[d] /\ box'[d] = box[d]
  BY <1>2
<1>4. entries[key[c]].last.fetched <= now
  BY <1>1, Zenon DEF OrderInv
<1>5. now <= now
  BY <1>1
<1>6. QED
  BY <1>3, <1>4, <1>5 DEF OrderInv

LEMMA OrderInvStep == TypeOK /\ CallsInv /\ OrderInv /\ [Next]_vars => OrderInv'
  <1> SUFFICES ASSUME TypeOK, CallsInv, OrderInv, [Next]_vars
               PROVE  OrderInv'
    OBVIOUS
  <1> USE DEF At, Goto
  <1>0. /\ pc \in [Callers -> Steps]
        /\ key \in [Callers -> Accounts \cup {NoAccount}]
        /\ box \in [Callers -> Readings]
        /\ entries \in [Accounts -> Entries]
        /\ now \in Nat
    BY DEF TypeOK
  <1>1. ASSUME NEW c \in Callers, NEW s \in Homes, CallUsable(c, s)
        PROVE  OrderInv'
    BY <1>0, <1>1, OrderKept DEF CallUsable, clientVars
  <1>2. ASSUME NEW c \in Callers, NEW s \in Homes, CallExpired(c, s)
        PROVE  OrderInv'
    BY <1>0, <1>2, OrderKept DEF CallExpired, clientVars
  <1>3. ASSUME NEW c \in Callers, NEW s \in Homes, CallTerminal(c, s)
        PROVE  OrderInv'
    BY <1>0, <1>3, OrderKept DEF CallTerminal, Return, clientVars
  <1>4. ASSUME NEW c \in Callers, LocalAnswer(c)
        PROVE  OrderInv'
    BY <1>0, <1>4, OrderKept DEF LocalAnswer, Return, clientVars
  <1>5. ASSUME NEW c \in Callers, Cached(c)
        PROVE  OrderInv'
    BY <1>0, <1>5, OrderKept DEF Cached, Return, clientVars
  <1>6. ASSUME NEW c \in Callers, Join(c)
        PROVE  OrderInv'
    BY <1>0, <1>6, OrderKept DEF Join, clientVars
  <1>7. ASSUME NEW c \in Callers, Lead(c)
        PROVE  OrderInv'
    BY <1>0, <1>7, OrderKept DEF Lead
  <1>8. ASSUME NEW c \in Callers, ProbeIdentify(c)
        PROVE  OrderInv'
    BY <1>0, <1>8, OrderKept DEF ProbeIdentify, clientVars
  <1>9. ASSUME NEW c \in Callers, ProbeUnasked(c)
        PROVE  OrderInv'
    <2>1. login[src[c]] \in Logins
      BY <1>9, InsideType DEF ProbeUnasked, Steps
    <2>2. PICK r \in UnaskedReadings(login[src[c]]) : box' = [box EXCEPT ![c] = r]
      BY <1>9 DEF ProbeUnasked
    <2>3. /\ r \in Readings /\ r.fetched = now /\ r.state # Unset
      BY <1>0, <2>1, <2>2, UnaskedFacts DEF States, QuotaStates, Unset
    <2>4. QED
      BY <1>9, <2>2, <2>3, NewResult DEF ProbeUnasked, clientVars
  <1>10. ASSUME NEW c \in Callers, Fetch(c)
         PROVE  OrderInv'
    <2>1. PICK r \in Answers : box' = [box EXCEPT ![c] = Finish(r, ident[c], now)]
      BY <1>10 DEF Fetch
    <2>2. r \in Readings /\ r.fetched = NoTime /\ r.state # Unset
      BY AnswersAssumption DEF IsAnswer
    <2>3. ident[c] \in Accounts \cup {NoAccount}
      BY DEF TypeOK
    <2>4. Finish(r, ident[c], now) \in Readings
      BY <1>0, <2>2, <2>3, FinishType
    <2>5. /\ Finish(r, ident[c], now).fetched = now
          /\ Finish(r, ident[c], now).state # Unset
      BY <2>2, FinishFacts
    <2>6. QED
      BY <1>10, <2>1, <2>4, <2>5, NewResult DEF Fetch, clientVars
  <1>11. ASSUME NEW c \in Callers, Abort(c)
         PROVE  OrderInv'
    <2> DEFINE f == Fail("error", "network")
    <2>1. f \in Readings /\ f.fetched = NoTime /\ f.state # Unset
      BY FailType, FailFacts DEF States, Causes, Unset
    <2> HIDE DEF f
    <2>2. ident[c] \in Accounts \cup {NoAccount}
      BY DEF TypeOK
    <2>3. Finish(f, ident[c], now) \in Readings
      BY <1>0, <2>1, <2>2, FinishType
    <2>4. /\ Finish(f, ident[c], now).fetched = now
          /\ Finish(f, ident[c], now).state # Unset
      BY <2>1, FinishFacts
    <2>5. QED
      BY <1>11, <2>3, <2>4, NewResult DEF Abort, clientVars, f
  <1>12. ASSUME NEW c \in Callers, Record(c)
         PROVE  OrderInv'
    <2> DEFINE k == key[c]
    <2>1. PICK e \in Recorded(entries[k], box[c], k, now) :
            entries' = [entries EXCEPT ![k] = e]
      BY <1>12 DEF Record
    <2>2. k \in Accounts /\ entries[k] \in Entries /\ box[c] \in Readings
      BY <1>0, <1>12, InsideType DEF Record, Steps
    <2>3. /\ e.last.fetched = box[c].fetched
          /\ e.lastGood = box[c] \/ e.lastGood = entries[k].lastGood
      BY <1>0, <2>2, RecordedFacts
    <2>4. /\ entries[k].lastGood.fetched \in Nat
          /\ entries[k].last.fetched \in Nat
          /\ box[c].fetched \in Nat
      BY <2>2 DEF Entries, Readings
    <2>5. /\ entries[k].last.fetched <= box[c].fetched
          /\ box[c].fetched <= now
          /\ entries[k].lastGood.fetched <= entries[k].last.fetched
      BY <1>12, <2>2 DEF Record, OrderInv
    <2>6. e.lastGood.fetched <= e.last.fetched /\ e.last.fetched <= now
      BY <2>3, <2>4, <2>5
    <2>7. \A d \in Callers : pc'[d] = "record" =>
             d # c /\ pc[d] = "record" /\ key[d] # k /\ box'[d] = box[d]
                   /\ key[d] \in Accounts
      <3>1. SUFFICES ASSUME NEW d \in Callers, pc'[d] = "record"
                     PROVE  d # c /\ pc[d] = "record" /\ key[d] # k
                            /\ box'[d] = box[d] /\ key[d] \in Accounts
        OBVIOUS
      <3>2. d # c /\ pc[d] = "record" /\ box'[d] = box[d]
        BY <1>0, <1>12, <3>1 DEF Record
      <3>3. key[d] \in Accounts
        BY <3>2, InsideType DEF Steps
      <3>4. key[d] # k
        BY <1>12, <3>2 DEF Record, CallsInv, Probing
      <3>5. QED
        BY <3>2, <3>3, <3>4
    <2>8. /\ entries'[k] = e
          /\ \A j \in Accounts \ {k} : entries'[j] = entries[j]
          /\ now' = now /\ key' = key
      BY <1>0, <1>12, <2>1, <2>2 DEF Record
    <2>9. QED
      BY <2>6, <2>7, <2>8 DEF OrderInv
  <1>13. ASSUME NEW c \in Callers, Close(c)
         PROVE  OrderInv'
    <2>1. \A d \in Callers : pc'[d] = "record" =>
             pc[d] = "record" /\ key'[d] = key[d] /\ box'[d] = box[d]
      BY <1>0, <1>13, ClientAssumption DEF Close, CallsInv
    <2>2. QED
      BY <1>13, <2>1, OrderKept DEF Close, clientVars
  <1>14. ASSUME NEW c \in Callers, Hook(c)
         PROVE  OrderInv'
    BY <1>0, <1>14, OrderKept DEF Hook, Return
  <1>15. ASSUME NEW c \in Callers, WaitDone(c)
         PROVE  OrderInv'
    BY <1>0, <1>15, OrderKept DEF WaitDone, Return, clientVars
  <1>16. ASSUME NEW c \in Callers, WaitTimeout(c)
         PROVE  OrderInv'
    BY <1>0, <1>16, OrderKept DEF WaitTimeout, Return, clientVars
  <1>17. ASSUME NEW c \in Callers, Cancel(c)
         PROVE  OrderInv'
    BY <1>17, OrderKept DEF Cancel, clientVars
  <1>18. ASSUME NEW s \in Homes, Relogin(s)
         PROVE  OrderInv'
    BY <1>18, OrderKept DEF Relogin, callerVars, clientVars
  <1>19. CASE Tick
    <2>1. now' = now + 1 /\ UNCHANGED <<entries, pc, key, box>>
      BY <1>19 DEF Tick, callerVars, clientVars
    <2>2. ASSUME NEW k \in Accounts PROVE entries[k].last.fetched <= now + 1
      BY <1>0 DEF OrderInv, Entries, Readings
    <2>3. ASSUME NEW c \in Callers, pc[c] = "record" PROVE box[c].fetched <= now + 1
      BY <1>0, <2>3 DEF OrderInv, Readings
    <2>4. QED
      BY <2>1, <2>2, <2>3 DEF OrderInv
  <1>20. CASE UNCHANGED vars
    BY <1>20, OrderKept DEF vars, callerVars, clientVars
  <1>21. QED
    BY <1>1, <1>2, <1>3, <1>4, <1>5, <1>6, <1>7, <1>8, <1>9, <1>10, <1>11,
       <1>12, <1>13, <1>14, <1>15, <1>16, <1>17, <1>18, <1>19, <1>20
    DEF Next, Continue

\* What a leader is about to record is never older than the entry it records to.
THEOREM OrderInvariant == Spec => []OrderInv
<1>1. Init => OrderInv
  BY DEF Init, OrderInv, NoEntry, NoReading, NoTime
<1>2. QED
  BY <1>1, TypeCorrect, CallsInvariant, OrderInvStep, PTL DEF Spec

\* Only a leader's second locked section writes an entry.
LEMMA EntriesStep ==
    ASSUME [Next]_vars
    PROVE  UNCHANGED entries \/ \E c \in Callers : Record(c)
<1>1. CASE UNCHANGED vars
  BY <1>1 DEF vars, callerVars, clientVars
<1>2. CASE Tick
  BY <1>2 DEF Tick, callerVars, clientVars
<1>3. ASSUME NEW s \in Homes, Relogin(s)
      PROVE  UNCHANGED entries
  BY <1>3 DEF Relogin, callerVars, clientVars
<1>4. ASSUME NEW c \in Callers, NEW s \in Homes,
             CallUsable(c, s) \/ CallExpired(c, s) \/ CallTerminal(c, s)
      PROVE  UNCHANGED entries
  BY <1>4 DEF CallUsable, CallExpired, CallTerminal, clientVars, worldVars
<1>5. ASSUME NEW c \in Callers,
             LocalAnswer(c) \/ Cached(c) \/ Join(c) \/ Lead(c) \/ ProbeIdentify(c)
               \/ ProbeUnasked(c)
      PROVE  UNCHANGED entries
  BY <1>5 DEF LocalAnswer, Cached, Join, Lead, ProbeIdentify, ProbeUnasked, clientVars,
              worldVars
<1>6. ASSUME NEW c \in Callers,
             Fetch(c) \/ Abort(c) \/ Close(c) \/ Hook(c) \/ WaitDone(c)
               \/ WaitTimeout(c) \/ Cancel(c)
      PROVE  UNCHANGED entries
  BY <1>6 DEF Fetch, Abort, Close, Hook, WaitDone, WaitTimeout, Cancel, clientVars,
              worldVars
<1>7. QED
  BY <1>1, <1>2, <1>3, <1>4, <1>5, <1>6 DEF Next, Continue

\* Only a leader's two locked sections change who leads.
LEMMA InflightStep ==
    ASSUME [Next]_vars
    PROVE  UNCHANGED inflight \/ \E c \in Callers : Lead(c) \/ Record(c)
<1>1. CASE UNCHANGED vars
  BY <1>1 DEF vars, callerVars, clientVars
<1>2. CASE Tick
  BY <1>2 DEF Tick, callerVars, clientVars
<1>3. ASSUME NEW s \in Homes, Relogin(s)
      PROVE  UNCHANGED inflight
  BY <1>3 DEF Relogin, callerVars, clientVars
<1>4. ASSUME NEW c \in Callers, NEW s \in Homes,
             CallUsable(c, s) \/ CallExpired(c, s) \/ CallTerminal(c, s)
      PROVE  UNCHANGED inflight
  BY <1>4 DEF CallUsable, CallExpired, CallTerminal, clientVars, worldVars
<1>5. ASSUME NEW c \in Callers,
             LocalAnswer(c) \/ Cached(c) \/ Join(c) \/ ProbeIdentify(c)
               \/ ProbeUnasked(c)
      PROVE  UNCHANGED inflight
  BY <1>5 DEF LocalAnswer, Cached, Join, ProbeIdentify, ProbeUnasked, clientVars,
              worldVars
<1>6. ASSUME NEW c \in Callers,
             Fetch(c) \/ Abort(c) \/ Close(c) \/ Hook(c) \/ WaitDone(c)
               \/ WaitTimeout(c) \/ Cancel(c)
      PROVE  UNCHANGED inflight
  BY <1>6 DEF Fetch, Abort, Close, Hook, WaitDone, WaitTimeout, Cancel, clientVars,
              worldVars
<1>7. QED
  BY <1>1, <1>2, <1>3, <1>4, <1>5, <1>6 DEF Next, Continue

\* Only the clock moves the clock.
LEMMA NowStep ==
    ASSUME [Next]_vars
    PROVE  UNCHANGED now \/ Tick
<1>1. CASE UNCHANGED vars
  BY <1>1 DEF vars
<1>2. ASSUME NEW s \in Homes, Relogin(s)
      PROVE  UNCHANGED now
  BY <1>2 DEF Relogin
<1>3. ASSUME NEW c \in Callers, NEW s \in Homes,
             CallUsable(c, s) \/ CallExpired(c, s) \/ CallTerminal(c, s)
      PROVE  UNCHANGED now
  BY <1>3 DEF CallUsable, CallExpired, CallTerminal
<1>4. ASSUME NEW c \in Callers,
             LocalAnswer(c) \/ Cached(c) \/ Join(c) \/ Lead(c) \/ ProbeIdentify(c)
               \/ ProbeUnasked(c)
      PROVE  UNCHANGED now
  BY <1>4 DEF LocalAnswer, Cached, Join, Lead, ProbeIdentify, ProbeUnasked
<1>5. ASSUME NEW c \in Callers,
             Fetch(c) \/ Abort(c) \/ Record(c) \/ Close(c) \/ Hook(c) \/ WaitDone(c)
               \/ WaitTimeout(c) \/ Cancel(c)
      PROVE  UNCHANGED now
  BY <1>5 DEF Fetch, Abort, Record, Close, Hook, WaitDone, WaitTimeout, Cancel
<1>6. QED
  BY <1>1, <1>2, <1>3, <1>4, <1>5 DEF Next, Continue

\* What a step does to the times of an entry.
LEMMA EntriesGrow ==
    ASSUME TypeOK, OrderInv, [Next]_vars, NEW j \in Accounts
    PROVE  /\ entries'[j].last.fetched >= entries[j].last.fetched
           /\ entries'[j].lastGood.fetched >= entries[j].lastGood.fetched
<1>1. CASE UNCHANGED entries
  <2>1. entries[j].lastGood.fetched \in Nat /\ entries[j].last.fetched \in Nat
    BY DEF TypeOK, Entries, Readings
  <2>2. QED
    BY <1>1, <2>1
<1>2. ASSUME NEW c \in Callers, Record(c)
      PROVE  /\ entries'[j].last.fetched >= entries[j].last.fetched
             /\ entries'[j].lastGood.fetched >= entries[j].lastGood.fetched
  <2> DEFINE k == key[c]
  <2>1. k \in Accounts /\ entries[k] \in Entries /\ box[c] \in Readings
    BY <1>2, InsideType DEF Record, Steps, TypeOK
  <2>2. /\ entries \in [Accounts -> Entries] /\ now \in Nat
        /\ entries[j] \in Entries
    BY DEF TypeOK
  <2>3. PICK e \in Recorded(entries[k], box[c], k, now) :
          entries' = [entries EXCEPT ![k] = e]
    BY <1>2 DEF Record
  <2>4. /\ e.last.fetched = box[c].fetched
        /\ e.lastGood = box[c] \/ e.lastGood = entries[k].lastGood
    BY <2>1, <2>2, RecordedFacts
  <2>5. /\ entries[k].last.fetched <= box[c].fetched
        /\ entries[k].lastGood.fetched <= entries[k].last.fetched
    BY <1>2, <2>1 DEF OrderInv, Record, At
  <2>6. /\ entries[k].lastGood.fetched \in Nat /\ entries[k].last.fetched \in Nat
        /\ box[c].fetched \in Nat
        /\ entries[j].lastGood.fetched \in Nat /\ entries[j].last.fetched \in Nat
    BY <2>1, <2>2 DEF Entries, Readings
  <2>7. CASE j = k
    <3>1. entries'[j] = e
      BY <2>1, <2>2, <2>3, <2>7
    <3>2. QED
      BY <2>4, <2>5, <2>6, <2>7, <3>1
  <2>8. CASE j # k
    <3>1. entries'[j] = entries[j]
      BY <2>2, <2>3, <2>8
    <3>2. QED
      BY <2>6, <3>1
  <2>9. QED
    BY <2>7, <2>8
<1>3. QED
  BY <1>1, <1>2, EntriesStep

\* An entry's last and last-good readings are never replaced by older ones.
THEOREM RecordsInOrderHold == Spec => RecordsInOrder
<1> DEFINE Ordered(k) ==
             /\ entries'[k].last.fetched >= entries[k].last.fetched
             /\ entries'[k].lastGood.fetched >= entries[k].lastGood.fetched
<1>1. TypeOK /\ OrderInv /\ [Next]_vars => [\A k \in Accounts : Ordered(k)]_entries
  BY EntriesGrow
<1>2. QED
  BY <1>1, TypeCorrect, OrderInvariant, PTL DEF Spec, RecordsInOrder

-----------------------------------------------------------------------------
(***************************************************************************)
(* Pace.  The gate compares the clock with nextAllowed and slack; the      *)
(* invariant says what these two numbers are worth in terms of the last    *)
(* recorded result.                                                        *)
(***************************************************************************)

Paced(e, k) ==
    \/ e.last = NoReading
    \/ /\ e.last.state # Unset
       /\ e.last.transient
       /\ e.slack = 0
       /\ e.last.state = "rate_limited" =>
             e.nextAllowed >= e.last.fetched + MinInterval[k]
       /\ \E w \in Waits(e.failures, e.last.retryAfter) :
             e.nextAllowed >= e.last.fetched + w
    \/ /\ e.last.state # Unset
       /\ ~e.last.transient
       /\ e.slack = MinIntervalSlack(MinInterval[k])
       /\ e.nextAllowed >= e.last.fetched + MinInterval[k]

PacedInv == \A k \in Accounts : Paced(entries[k], k)

LEMMA RecordedPaced ==
    ASSUME NEW e \in Entries, NEW r \in Readings, NEW k \in Accounts,
           NEW t \in Nat, r.fetched <= t, r.state # Unset,
           NEW new \in Recorded(e, r, k, t)
    PROVE  Paced(new, k)
<1>1. MinInterval[k] \in Nat /\ r.fetched \in Nat /\ r.retryAfter \in Nat
      /\ e.failures \in Nat
  BY ClientAssumption DEF Entries, Readings
<1>2. CASE r.transient
  <2>1. PICK w \in Waits(e.failures + 1, r.retryAfter) :
               new = RecordFailure(e, r, k, t, w)
    BY <1>2 DEF Recorded
  <2>2. w \in Nat
    BY <1>1, WaitsInNat
  <2> DEFINE wait == FailureWait(r, k, w)
  <2>3. /\ wait \in Nat /\ wait >= w
        /\ r.state = "rate_limited" => wait >= MinInterval[k]
    BY <1>1, <2>2 DEF FailureWait
  <2>4. /\ new.last = [r EXCEPT !.retryAt = t + wait]
        /\ new.failures = e.failures + 1
        /\ new.nextAllowed = t + wait
        /\ new.slack = 0
    BY <2>1 DEF RecordFailure
  <2> HIDE DEF wait
  <2>5. /\ new.last.state = r.state /\ new.last.transient = r.transient
        /\ new.last.fetched = r.fetched /\ new.last.retryAfter = r.retryAfter
    BY <2>4 DEF Readings
  <2>6. /\ t + wait >= r.fetched + w
        /\ r.state = "rate_limited" => t + wait >= r.fetched + MinInterval[k]
    BY <1>1, <2>2, <2>3
  <2>7. QED
    BY <1>2, <2>1, <2>4, <2>5, <2>6 DEF Paced
<1>3. CASE ~r.transient
  <2>1. new = RecordAnswer(e, r, k, t)
    BY <1>3 DEF Recorded
  <2>2. t + MinInterval[k] >= r.fetched + MinInterval[k]
    BY <1>1
  <2>3. QED
    BY <1>3, <2>1, <2>2 DEF RecordAnswer, Paced
<1>4. QED
  BY <1>2, <1>3

\* An entry keeps the gate shut for as long as its last reading asks.
THEOREM PacedInvariant == Spec => []PacedInv
<1>1. Init => PacedInv
  <2>0. Init => entries = [k \in Accounts |-> NoEntry]
    BY Zenon DEF Init
  <2>1. Init => \A k \in Accounts : entries[k] = NoEntry
    BY <2>0
  <2>2. NoEntry.last = NoReading
    BY DEF NoEntry
  <2>3. ASSUME NEW k \in Accounts PROVE Paced(NoEntry, k)
    BY <2>2, Zenon DEF Paced
  <2>4. QED
    BY <2>1, <2>3 DEF PacedInv
<1>2. TypeOK /\ OrderInv /\ PacedInv /\ [Next]_vars => PacedInv'
  <2> SUFFICES ASSUME TypeOK, OrderInv, PacedInv, [Next]_vars
               PROVE  PacedInv'
    OBVIOUS
  <2>1. CASE UNCHANGED entries
    BY <2>1 DEF PacedInv
  <2>2. ASSUME NEW c \in Callers, Record(c)
        PROVE  PacedInv'
    <3> DEFINE k == key[c]
    <3>1. k \in Accounts /\ entries[k] \in Entries /\ box[c] \in Readings
      BY <2>2, InsideType DEF Record, Steps, TypeOK
    <3>2. entries \in [Accounts -> Entries] /\ now \in Nat
      BY DEF TypeOK
    <3>3. PICK e \in Recorded(entries[k], box[c], k, now) :
            entries' = [entries EXCEPT ![k] = e]
      BY <2>2 DEF Record
    <3>4. box[c].fetched <= now /\ box[c].state # Unset
      BY <2>2 DEF OrderInv, Record, At
    <3>5. Paced(e, k)
      BY <3>1, <3>2, <3>4, RecordedPaced
    <3>6. entries'[k] = e /\ \A j \in Accounts \ {k} : entries'[j] = entries[j]
      BY <3>1, <3>2, <3>3
    <3>7. QED
      BY <3>5, <3>6 DEF PacedInv
  <2>3. QED
    BY <2>1, <2>2, EntriesStep
<1>3. QED
  BY <1>1, <1>2, TypeCorrect, OrderInvariant, PTL DEF Spec

\* A new call is led only past the gate.
LEMMA LeadStep ==
    ASSUME TypeOK, [Next]_vars, NEW k \in Accounts,
           inflight[k] = NoCaller, inflight'[k] # NoCaller
    PROVE  /\ ~Gated(entries[k], now)
           /\ \E c \in Callers : Lead(c) /\ key[c] = k
<1>1. inflight \in [Accounts -> Callers \cup {NoCaller}]
  BY DEF TypeOK
<1>2. PICK c \in Callers : Lead(c) \/ Record(c)
  BY InflightStep
<1>3. ~Record(c)
  BY <1>1 DEF Record
<1>4. Lead(c) /\ key[c] = k
  BY <1>1, <1>2, <1>3 DEF Lead
<1>5. QED
  BY <1>4 DEF Lead

\* However Get's callers interleave, no call is led sooner than the account's
\* last outcome allows.
THEOREM PacedRequestsHold == Spec => PacedRequests
<1> DEFINE Pace(k) ==
             LET e == entries[k]
             IN  /\ inflight[k] = NoCaller
                 /\ inflight'[k] # NoCaller
                 /\ e.last # NoReading
                 => IF e.last.transient
                    THEN \E w \in Waits(e.failures, e.last.retryAfter) :
                            /\ now >= e.last.fetched + w
                            /\ e.last.state = "rate_limited" =>
                                  now >= e.last.fetched + MinInterval[k]
                    ELSE now + MinIntervalSlack(MinInterval[k])
                           >= e.last.fetched + MinInterval[k]
<1>1. TypeOK /\ PacedInv /\ [Next]_vars => [\A k \in Accounts : Pace(k)]_vars
  <2> SUFFICES ASSUME TypeOK, PacedInv, [Next]_vars, NEW k \in Accounts,
                      inflight[k] = NoCaller, inflight'[k] # NoCaller,
                      entries[k].last # NoReading
               PROVE  Pace(k)
    BY DEF vars
  <2> DEFINE e == entries[k]
  <2>1. ~Gated(e, now) /\ Paced(e, k)
    BY LeadStep DEF PacedInv
  <2>2. /\ now \in Nat /\ e.slack \in Nat /\ e.nextAllowed \in Nat
        /\ e.failures \in Nat /\ e.last.fetched \in Nat /\ e.last.retryAfter \in Nat
    BY DEF TypeOK, Entries, Readings
  <2>3. now + e.slack >= e.nextAllowed
    BY <2>1, <2>2 DEF Gated
  <2>4. MinInterval[k] \in Nat /\ MinIntervalSlack(MinInterval[k]) \in Nat
    BY ClientAssumption, SlackInNat
  <2> HIDE DEF e
  <2>5. CASE e.last.transient
    <3>1. PICK w \in Waits(e.failures, e.last.retryAfter) :
            e.nextAllowed >= e.last.fetched + w
      BY <2>1, <2>5 DEF Paced, e
    <3>2. /\ e.slack = 0
          /\ e.last.state = "rate_limited" =>
                e.nextAllowed >= e.last.fetched + MinInterval[k]
      BY <2>1, <2>5 DEF Paced, e
    <3>3. w \in Nat
      BY <2>2, WaitsInNat
    <3>4. /\ now >= e.last.fetched + w
          /\ e.last.state = "rate_limited" =>
                now >= e.last.fetched + MinInterval[k]
      BY <2>2, <2>3, <2>4, <3>1, <3>2, <3>3
    <3>5. QED
      BY <2>5, <3>4 DEF e
  <2>6. CASE ~e.last.transient
    <3>1. /\ e.slack = MinIntervalSlack(MinInterval[k])
          /\ e.nextAllowed >= e.last.fetched + MinInterval[k]
      BY <2>1, <2>6 DEF Paced, e
    <3>2. now + MinIntervalSlack(MinInterval[k]) >= e.last.fetched + MinInterval[k]
      BY <2>2, <2>3, <2>4, <3>1
    <3>3. QED
      BY <2>6, <3>2 DEF e
  <2>7. QED
    BY <2>5, <2>6
<1>2. QED
  BY <1>1, TypeCorrect, PacedInvariant, PTL DEF Spec, PacedRequests

-----------------------------------------------------------------------------
(***************************************************************************)
(* Client implements QuotaGate, for every value of the constants: Lead is  *)
(* Begin, Record is End, Tick is Advance, and every other step stutters.   *)
(* Type correctness, the order of records, their pace and the leader of    *)
(* each call are the invariants the step rests on.                         *)
(***************************************************************************)
\* The variables of QuotaGate, under the refinement mapping.
Busy == {k \in Accounts : inflight[k] # NoCaller}
Reply == [k \in Accounts |-> ReplyOf(entries[k].last)]

LEMMA ReplyFacts ==
    ASSUME NEW r \in Readings
    PROVE  /\ ReplyOf(r) \in Gate!Replies
           /\ ReplyOf(r).at = r.fetched
           /\ r.state # Unset => ReplyOf(r).kind # "none"
<1>1. r.fetched \in Nat /\ r.retryAfter \in Nat
  BY DEF Readings
<1>2. ReplyKind(r) \in Gate!Kinds
  BY DEF ReplyKind, Gate!Kinds
<1>3. r.state # Unset => ReplyKind(r) # "none"
  BY DEF ReplyKind, NoReading
<1>4. QED
  BY <1>1, <1>2, <1>3 DEF ReplyOf, Gate!Replies

\* Past the gate, another measurement is polite.
LEMMA PastGatePolite ==
    ASSUME TypeOK, PacedInv, NEW k \in Accounts, ~Gated(entries[k], now)
    PROVE  Gate!Polite(ReplyOf(entries[k].last), k, now)
<1> DEFINE e == entries[k]
           p == ReplyOf(e.last)
<1>1. /\ now \in Nat /\ e.slack \in Nat /\ e.nextAllowed \in Nat
      /\ e.failures \in Nat /\ e.last.fetched \in Nat /\ e.last.retryAfter \in Nat
  BY DEF TypeOK, Entries, Readings
<1>2. MinInterval[k] \in Nat /\ MinIntervalSlack(MinInterval[k]) \in Nat
  BY ClientAssumption, SlackInNat
<1>3. now + e.slack >= e.nextAllowed
  BY <1>1 DEF Gated
<1>4. Paced(e, k)
  BY DEF PacedInv
<1>5. /\ p.kind = ReplyKind(e.last) /\ p.at = e.last.fetched
      /\ p.after = IF e.last.transient THEN e.last.retryAfter ELSE 0
  BY DEF ReplyOf
<1> HIDE DEF e, p
<1>6. CASE e.last = NoReading
  <2>1. p.kind = "none"
    BY <1>5, <1>6 DEF ReplyKind
  <2>2. QED
    BY <2>1 DEF Gate!Polite, p, e
<1>7. CASE e.last # NoReading /\ e.last.transient
  <2>1. /\ e.slack = 0
        /\ e.last.state = "rate_limited" =>
              e.nextAllowed >= e.last.fetched + MinInterval[k]
    BY <1>4, <1>7 DEF Paced
  <2>2. PICK w \in Waits(e.failures, e.last.retryAfter) :
          e.nextAllowed >= e.last.fetched + w
    BY <1>4, <1>7 DEF Paced
  <2>3. w \in Nat /\ w >= e.last.retryAfter
    BY <1>1, WaitsInNat
  <2>4. now >= p.at + p.after
    BY <1>1, <1>3, <1>5, <1>7, <2>1, <2>2, <2>3
  <2>5. CASE e.last.state = "rate_limited"
    <3>1. p.kind = "throttled" /\ now >= p.at + MinInterval[k]
      BY <1>1, <1>2, <1>3, <1>5, <1>7, <2>1, <2>5 DEF ReplyKind
    <3>2. QED
      BY <2>4, <3>1 DEF Gate!Polite, p, e
  <2>6. CASE e.last.state # "rate_limited"
    <3>1. p.kind = "failure"
      BY <1>5, <1>7, <2>6 DEF ReplyKind
    <3>2. QED
      BY <2>4, <3>1 DEF Gate!Polite, p, e
  <2>7. QED
    BY <2>5, <2>6
<1>8. CASE e.last # NoReading /\ ~e.last.transient
  <2>1. /\ e.slack = MinIntervalSlack(MinInterval[k])
        /\ e.nextAllowed >= e.last.fetched + MinInterval[k]
    BY <1>4, <1>8 DEF Paced
  <2>2. p.kind = "answer"
        /\ now + MinIntervalSlack(MinInterval[k]) >= p.at + MinInterval[k]
    BY <1>1, <1>2, <1>3, <1>5, <1>8, <2>1 DEF ReplyKind
  <2>3. QED
    BY <2>2 DEF Gate!Polite, p, e
<1>9. QED
  BY <1>6, <1>7, <1>8

\* The steps of Client that QuotaGate can see.
LEMMA GateStep ==
    ASSUME [Next]_vars
    PROVE  \/ Tick
           \/ \E c \in Callers : Lead(c) \/ Record(c)
           \/ UNCHANGED <<now, inflight, entries>>
<1>1. CASE UNCHANGED vars
  BY <1>1 DEF vars, callerVars, clientVars
<1>2. ASSUME NEW s \in Homes, Relogin(s)
      PROVE  UNCHANGED <<now, inflight, entries>>
  BY <1>2 DEF Relogin, callerVars, clientVars
<1>3. ASSUME NEW c \in Callers, NEW s \in Homes,
             CallUsable(c, s) \/ CallExpired(c, s) \/ CallTerminal(c, s)
      PROVE  UNCHANGED <<now, inflight, entries>>
  BY <1>3 DEF CallUsable, CallExpired, CallTerminal, clientVars, worldVars
<1>4. ASSUME NEW c \in Callers,
             LocalAnswer(c) \/ Cached(c) \/ Join(c) \/ ProbeIdentify(c)
               \/ ProbeUnasked(c)
      PROVE  UNCHANGED <<now, inflight, entries>>
  BY <1>4 DEF LocalAnswer, Cached, Join, ProbeIdentify, ProbeUnasked, clientVars,
              worldVars
<1>5. ASSUME NEW c \in Callers,
             Fetch(c) \/ Abort(c) \/ Close(c) \/ Hook(c) \/ WaitDone(c)
               \/ WaitTimeout(c) \/ Cancel(c)
      PROVE  UNCHANGED <<now, inflight, entries>>
  BY <1>5 DEF Fetch, Abort, Close, Hook, WaitDone, WaitTimeout, Cancel, clientVars,
              worldVars
<1>6. QED
  BY <1>1, <1>2, <1>3, <1>4, <1>5 DEF Next, Continue

LEMMA LeadBegins ==
    ASSUME TypeOK, PacedInv, NEW c \in Callers, Lead(c)
    PROVE  key[c] \in Accounts /\ Gate!Begin(key[c])
<1> DEFINE k == key[c]
<1>1. k \in Accounts
  BY InsideType DEF Lead, Steps
<1>2. inflight \in [Accounts -> Callers \cup {NoCaller}] /\ c # NoCaller
  BY ClientAssumption DEF TypeOK
<1>3. /\ ~Gated(entries[k], now) /\ inflight[k] = NoCaller
      /\ inflight' = [inflight EXCEPT ![k] = c]
      /\ UNCHANGED <<now, entries>>
  BY DEF Lead
<1>4. k \notin Busy /\ Busy' = Busy \cup {k}
  BY <1>1, <1>2, <1>3 DEF Busy
<1>5. Gate!Polite(Reply[k], k, now)
  BY <1>1, <1>3, PastGatePolite DEF Reply
<1>6. Reply' = Reply
  BY <1>3 DEF Reply
<1>7. QED
  BY <1>1, <1>3, <1>4, <1>5, <1>6 DEF Gate!Begin, Busy, Reply

LEMMA RecordEnds ==
    ASSUME TypeOK, CallsInv, OrderInv, NEW c \in Callers, Record(c)
    PROVE  key[c] \in Accounts /\ Gate!End(key[c])
<1> DEFINE k == key[c]
<1>1. /\ k \in Accounts /\ entries[k] \in Entries /\ box[c] \in Readings
      /\ entries \in [Accounts -> Entries] /\ now \in Nat
      /\ inflight \in [Accounts -> Callers \cup {NoCaller}]
  BY InsideType DEF Record, Steps, TypeOK
<1>2. PICK e \in Recorded(entries[k], box[c], k, now) :
        entries' = [entries EXCEPT ![k] = e]
  BY DEF Record
<1>3. /\ e.last.fetched = box[c].fetched /\ e.last.state = box[c].state
      /\ e \in Entries
  BY <1>1, RecordedFacts, RecordedType
<1>4. /\ entries[k].last.fetched <= box[c].fetched /\ box[c].fetched <= now
      /\ box[c].state # Unset
  BY <1>1 DEF OrderInv, Record, At
<1>5. entries[k].last \in Readings /\ e.last \in Readings
  BY <1>1, <1>3 DEF Entries
<1>6. k \in Busy /\ Busy' = Busy \ {k}
  <2>1. inflight[k] = c /\ c # NoCaller
    BY ClientAssumption DEF CallsInv, Record, At, Probing
  <2>2. inflight' = [inflight EXCEPT ![k] = NoCaller]
    BY DEF Record
  <2>3. QED
    BY <1>1, <2>1, <2>2 DEF Busy
<1>7. Reply'[k] = ReplyOf(e.last) /\ Reply[k] = ReplyOf(entries[k].last)
  BY <1>1, <1>2 DEF Reply
<1>8. /\ Reply'[k] \in Gate!Replies /\ Reply'[k].kind # "none"
      /\ Reply[k].at <= Reply'[k].at /\ Reply'[k].at <= now
  BY <1>3, <1>4, <1>5, <1>7, ReplyFacts
<1>9. Reply' = [Reply EXCEPT ![k] = Reply'[k]]
  BY <1>1, <1>2 DEF Reply
<1>10. now' = now
  BY DEF Record
<1>11. QED
  BY <1>1, <1>6, <1>8, <1>9, <1>10 DEF Gate!End, Busy, Reply

\* A quota endpoint sees the behaviour QuotaGate promises (client.go:28-31).
THEOREM ImplementsQuotaGateHolds == Spec => ImplementsQuotaGate
<1>1. Init => Gate!GateInit
  BY DEF Init, Gate!GateInit, NoEntry, ReplyOf, ReplyKind, NoReading, NoTime
<1>2. TypeOK /\ CallsInv /\ OrderInv /\ PacedInv /\ [Next]_vars
        => [Gate!GateNext]_(Gate!gateVars)
  <2> SUFFICES ASSUME TypeOK, CallsInv, OrderInv, PacedInv, [Next]_vars
               PROVE  [Gate!GateNext]_(Gate!gateVars)
    OBVIOUS
  <2>1. CASE Tick
    <3>1. Gate!Advance
      BY <2>1 DEF Tick, TypeOK, Gate!Advance, clientVars
    <3>2. QED
      BY <3>1 DEF Gate!GateNext
  <2>2. ASSUME NEW c \in Callers, Lead(c)
        PROVE  Gate!GateNext
    <3>1. key[c] \in Accounts /\ Gate!Begin(key[c])
      BY <2>2, LeadBegins
    <3>2. QED
      BY <3>1 DEF Gate!GateNext, Gate!Begin, Gate!End
  <2>3. ASSUME NEW c \in Callers, Record(c)
        PROVE  Gate!GateNext
    <3>1. key[c] \in Accounts /\ Gate!End(key[c])
      BY <2>3, RecordEnds
    <3>2. QED
      BY <3>1 DEF Gate!GateNext, Gate!Begin, Gate!End
  <2>4. CASE UNCHANGED <<now, inflight, entries>>
    BY <2>4 DEF Gate!gateVars
  <2>5. QED
    BY <2>1, <2>2, <2>3, <2>4, GateStep
<1>3. QED
  BY <1>1, <1>2, TypeCorrect, CallsInvariant, OrderInvariant, PacedInvariant, PTL
  DEF Spec, ImplementsQuotaGate, Gate!GateSpec
=============================================================================
