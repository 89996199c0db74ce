-------------------------- MODULE ClientResultProofs --------------------------
(***************************************************************************)
(* Proofs about what Get returns, for every value of the constants of      *)
(* Client: readings are honest, and refusals are returned as they are; and *)
(* for homes that keep their account, that nobody is ahead of the cache or *)
(* led before the time he was told; and that the counter and the hook      *)
(* agree, and miss no request.                                             *)
(***************************************************************************)
EXTENDS ClientProofs, FiniteSetTheorems

-----------------------------------------------------------------------------
(***************************************************************************)
(* Honest readings.  A verdict passes through the leader's box, the        *)
(* entry's last and last-good readings, the waiters' boxes and the         *)
(* results; it is honest in all of them, and what may stand in for it, a   *)
(* failure, never is a verdict and always has a cause.                     *)
(***************************************************************************)

Failed(r) == ~HasQuota(r.state) /\ r.cause # Unset

Explained(r) == r.transient => Failed(r)

HonestEntry(e, taken) ==
    /\ Honest(e.last, taken)
    /\ Explained(e.last)
    /\ e.lastGood # NoReading => HasQuota(e.lastGood.state) /\ Honest(e.lastGood, taken)

HonestInv ==
    /\ \A k \in Accounts : HonestEntry(entries[k], measured)
    /\ \A c \in Callers : Honest(box[c], measured)
    /\ \A c \in Callers : Honest(res[c], measured)
    /\ \A c \in Callers : pc[c] = "local" => Failed(box[c])
    /\ \A c \in Callers : pc[c] = "record" => Explained(box[c])

LEMMA NoReadingHonest ==
    ASSUME NEW taken
    PROVE  Honest(NoReading, taken) /\ Explained(NoReading)
  BY DEF Honest, Explained, NoReading, HasQuota, QuotaStates, Unset

LEMMA FailHonest ==
    ASSUME NEW st \in States \ QuotaStates, NEW cause \in Causes,
           NEW r \in Readings, r.state = st, NEW taken
    PROVE  Honest(r, taken)
  BY DEF Honest, HasQuota

\* A last good reading served for an explained failure is still honest.
LEMMA ServedHonest ==
    ASSUME NEW e \in Entries, NEW taken, HonestEntry(e, taken),
           NEW f \in Readings, Failed(f)
    PROVE  Honest(StaleOr(e, f), taken)
<1>1. CASE e.lastGood = NoReading
  BY <1>1 DEF StaleOr, Failed, Honest
<1>2. CASE e.lastGood # NoReading
  <2> DEFINE g == e.lastGood
             s == [g EXCEPT !.stale = TRUE, !.cause = f.cause,
                            !.retryAt = f.retryAt, !.transient = TRUE]
  <2>1. g \in Readings /\ HasQuota(g.state) /\ Honest(g, taken)
    BY <1>2 DEF HonestEntry, Entries
  <2> HIDE DEF g
  <2>2. /\ s.state = g.state /\ s.account = g.account /\ s.fetched = g.fetched
        /\ s.stale = TRUE /\ s.transient = TRUE /\ s.cause = f.cause
    BY <2>1 DEF Readings
  <2>3. StaleOr(e, f) = s
    BY <1>2 DEF StaleOr, g
  <2> HIDE DEF s
  <2>4. f.cause # Unset
    BY DEF Failed
  <2>5. QED
    BY <2>1, <2>2, <2>3, <2>4 DEF Honest
<1>3. QED
  BY <1>1, <1>2

LEMMA CacheHonest ==
    ASSUME NEW e \in Entries, NEW taken, HonestEntry(e, taken)
    PROVE  Honest(FromCache(e), taken)
<1>1. e.last \in Readings /\ Honest(e.last, taken) /\ Explained(e.last)
  BY DEF Entries, HonestEntry
<1>2. QED
  BY <1>1, ServedHonest DEF FromCache, Explained

LEMMA RecordedHonest ==
    ASSUME NEW e \in Entries, NEW r \in Readings, NEW k \in Accounts, NEW t \in Nat,
           NEW taken, HonestEntry(e, taken), Honest(r, taken), Explained(r),
           NEW new \in Recorded(e, r, k, t)
    PROVE  HonestEntry(new, taken)
<1>1. /\ new.last.fetched = r.fetched /\ new.last.state = r.state
      /\ new.last.cause = r.cause /\ new.last.stale = r.stale
      /\ new.last.account = r.account /\ new.last.transient = r.transient
      /\ new.lastGood = IF ~r.transient /\ HasQuota(r.state) THEN r ELSE e.lastGood
  BY RecordedFacts
<1>2. Honest(new.last, taken) /\ Explained(new.last)
  BY <1>1 DEF Honest, Explained, Failed
<1>3. new.lastGood # NoReading =>
         HasQuota(new.lastGood.state) /\ Honest(new.lastGood, taken)
  BY <1>1 DEF HonestEntry
<1>4. QED
  BY <1>2, <1>3 DEF HonestEntry

\* What was measured stays measured.
LEMMA HonestGrows ==
    ASSUME TypeOK, NEW a \in Accounts, NEW r, Honest(r, measured)
    PROVE  Honest(r, [measured EXCEPT ![a] = @ \cup {now}])
  BY DEF Honest, TypeOK

\* A step that leaves entries and measurements alone: what matters is the boxes
\* and results it writes.
LEMMA HonestKept ==
    ASSUME TypeOK, HonestInv, UNCHANGED <<entries, measured>>,
           \A c \in Callers : Honest(box'[c], measured) /\ Honest(res'[c], measured),
           \A c \in Callers : pc'[c] = "local" => Failed(box'[c]),
           \A c \in Callers : pc'[c] = "record" => Explained(box'[c])
    PROVE  HonestInv'
  BY DEF HonestInv

\* One caller returns with an honest reading.
LEMMA HonestReturn ==
    ASSUME TypeOK, HonestInv, NEW c \in Callers, NEW r \in Readings,
           Return(c, r), Honest(r, measured), UNCHANGED <<entries, measured>>
    PROVE  HonestInv'
<1>1. /\ pc \in [Callers -> Steps] /\ box \in [Callers -> Readings]
      /\ res \in [Callers -> Readings]
  BY DEF TypeOK
<1>2. /\ pc'[c] = "idle" /\ box'[c] = NoReading /\ res'[c] = r
      /\ \A d \in Callers \ {c} :
            pc'[d] = pc[d] /\ box'[d] = box[d] /\ res'[d] = res[d]
  BY <1>1 DEF Return, Goto
<1>3. QED
  BY <1>2, NoReadingHonest, HonestKept DEF HonestInv

\* One caller moves on with an honest reading in its box.
LEMMA HonestMove ==
    ASSUME TypeOK, HonestInv, NEW c \in Callers, NEW step, NEW r \in Readings,
           pc' = [pc EXCEPT ![c] = step], box' = [box EXCEPT ![c] = r],
           Honest(r, measured), step = "local" => Failed(r),
           step = "record" => Explained(r),
           res' = res \/ res' = [res EXCEPT ![c] = NoReading],
           UNCHANGED <<entries, measured>>
    PROVE  HonestInv'
<1>1. /\ pc \in [Callers -> Steps] /\ box \in [Callers -> Readings]
      /\ res \in [Callers -> Readings]
  BY DEF TypeOK
<1>2. /\ pc'[c] = step /\ box'[c] = r /\ res'[c] \in {res[c], NoReading}
      /\ \A d \in Callers \ {c} :
            pc'[d] = pc[d] /\ box'[d] = box[d] /\ res'[d] = res[d]
  BY <1>1
<1>3. QED
  BY <1>2, NoReadingHonest, HonestKept DEF HonestInv

LEMMA HonestInvStep == TypeOK /\ CallsInv /\ HonestInv /\ [Next]_vars => HonestInv'
  <1> SUFFICES ASSUME TypeOK, CallsInv, HonestInv, [Next]_vars
               PROVE  HonestInv'
    OBVIOUS
  <1> USE DEF At, Goto
  <1>0. /\ pc \in [Callers -> Steps]
        /\ box \in [Callers -> Readings] /\ res \in [Callers -> Readings]
        /\ entries \in [Accounts -> Entries]
        /\ now \in Nat
        /\ login \in [Homes -> Logins]
        /\ \A c \in Callers : ident[c] \in Accounts \cup {NoAccount}
    BY DEF TypeOK
  <1>a. ASSUME NEW l \in Logins
        PROVE  /\ LocalReading(l, now) \in Readings
               /\ Honest(LocalReading(l, now), measured)
               /\ Failed(LocalReading(l, now))
               /\ Explained(LocalReading(l, now))
    BY <1>0, LocalReadingType, LocalReadingFacts DEF Honest, Failed, Explained
  <1>1. ASSUME NEW c \in Callers, NEW s \in Homes, CallUsable(c, s)
        PROVE  HonestInv'
    <2>1. box' = [box EXCEPT ![c] = box[c]]
      BY <1>0, <1>1 DEF CallUsable
    <2>2. Honest(box[c], measured) /\ box[c] \in Readings
      BY <1>0 DEF HonestInv
    <2>3. QED
      BY <1>1, <2>1, <2>2, HonestMove DEF CallUsable, clientVars, worldVars
  <1>2. ASSUME NEW c \in Callers, NEW s \in Homes, CallExpired(c, s)
        PROVE  HonestInv'
    BY <1>0, <1>a, <1>2, HonestMove DEF CallExpired, clientVars, worldVars
  <1>3. ASSUME NEW c \in Callers, NEW s \in Homes, CallTerminal(c, s)
        PROVE  HonestInv'
    BY <1>0, <1>a, <1>3, HonestReturn DEF CallTerminal, clientVars, worldVars
  <1>4. ASSUME NEW c \in Callers, LocalAnswer(c)
        PROVE  HonestInv'
    <2> DEFINE e == entries[key[c]]
    <2>1. e \in Entries /\ HonestEntry(e, measured)
      BY <1>4, InsideType DEF LocalAnswer, Steps, HonestInv
    <2>2. box[c] \in Readings /\ Failed(box[c])
      BY <1>0, <1>4 DEF LocalAnswer, HonestInv
    <2>3. StaleOr(e, box[c]) \in Readings
      BY <2>1, <2>2, FromCacheType
    <2>4. Honest(StaleOr(e, box[c]), measured)
      BY <2>1, <2>2, ServedHonest
    <2>5. QED
      BY <1>4, <2>3, <2>4, HonestReturn DEF LocalAnswer, clientVars, worldVars
  <1>5. ASSUME NEW c \in Callers, Cached(c)
        PROVE  HonestInv'
    <2>1. entries[key[c]] \in Entries /\ HonestEntry(entries[key[c]], measured)
      BY <1>5, InsideType DEF Cached, Steps, HonestInv
    <2>2. /\ FromCache(entries[key[c]]) \in Readings
          /\ Honest(FromCache(entries[key[c]]), measured)
      BY <2>1, FromCacheType, CacheHonest
    <2>3. QED
      BY <1>5, <2>2, HonestReturn DEF Cached, clientVars, worldVars
  <1>6. ASSUME NEW c \in Callers, Join(c)
        PROVE  HonestInv'
    <2>1. box' = [box EXCEPT ![c] = box[c]]
      BY <1>0, <1>6 DEF Join
    <2>2. Honest(box[c], measured) /\ box[c] \in Readings
      BY <1>0 DEF HonestInv
    <2>3. QED
      BY <1>6, <2>1, <2>2, HonestMove DEF Join, clientVars, worldVars
  <1>7. ASSUME NEW c \in Callers, Lead(c)
        PROVE  HonestInv'
    <2>1. box' = [box EXCEPT ![c] = box[c]]
      BY <1>0, <1>7 DEF Lead
    <2>2. Honest(box[c], measured) /\ box[c] \in Readings
      BY <1>0 DEF HonestInv
    <2>3. QED
      BY <1>7, <2>1, <2>2, HonestMove DEF Lead, worldVars
  <1>8. ASSUME NEW c \in Callers, ProbeIdentify(c)
        PROVE  HonestInv'
    <2>1. box' = [box EXCEPT ![c] = box[c]]
      BY <1>0, <1>8 DEF ProbeIdentify
    <2>2. Honest(box[c], measured) /\ box[c] \in Readings
      BY <1>0 DEF HonestInv
    <2>3. QED
      BY <1>8, <2>1, <2>2, HonestMove DEF ProbeIdentify, clientVars
  <1>9. ASSUME NEW c \in Callers, ProbeUnasked(c)
        PROVE  HonestInv'
    <2>1. login[src[c]] \in Logins
      BY <1>9, InsideType DEF ProbeUnasked, Steps
    <2>2. PICK r \in UnaskedReadings(login[src[c]]) : box' = [box EXCEPT ![c] = r]
      BY <1>9 DEF ProbeUnasked
    <2>3. /\ r \in Readings /\ Honest(r, measured) /\ Failed(r) /\ Explained(r)
      BY <1>0, <2>1, <2>2, UnaskedFacts DEF Honest, Failed, Explained
    <2>4. QED
      BY <1>9, <2>2, <2>3, HonestMove DEF ProbeUnasked, clientVars, worldVars
  <1>10. ASSUME NEW c \in Callers, Fetch(c)
         PROVE  HonestInv'
    <2> DEFINE a == ident[c]
    <2>1. a \in Accounts
      BY <1>10, Zenon DEF Fetch, TypeOK
    <2>2. PICK r \in Answers :
            /\ box' = [box EXCEPT ![c] = Finish(r, a, now)]
            /\ measured' = IF HasQuota(r.state)
                           THEN [measured EXCEPT ![a] = @ \cup {now}]
                           ELSE measured
      BY <1>10 DEF Fetch
    <2> DEFINE f == Finish(r, a, now)
    <2>3. /\ r \in Readings /\ r.account = NoAccount /\ r.fetched = NoTime
          /\ ~r.stale /\ Explained(r)
      BY AnswersAssumption DEF IsAnswer, Explained, Failed
    <2>4. /\ f.state = r.state /\ f.cause = r.cause /\ f.stale = r.stale
          /\ f.transient = r.transient /\ f.fetched = now /\ f.account = a
      BY <2>3, FinishFacts
    <2> HIDE DEF f, a
    <2>5. measured \in [Accounts -> SUBSET Nat] /\ measured' \in [Accounts -> SUBSET Nat]
      BY <1>0, <2>1, <2>2 DEF TypeOK
    <2>6. \A q : Honest(q, measured) => Honest(q, measured')
      BY <2>1, <2>2, <2>5, HonestGrows
    <2>7. Explained(f)
      BY <2>3, <2>4 DEF Explained, Failed
    <2>8. Honest(f, measured')
      <3>1. r.stale = FALSE /\ (HasQuota(r.state) => r.transient = FALSE)
        BY <2>3 DEF Explained, Failed, Readings
      <3>2. HasQuota(r.state) => now \in measured'[a]
        BY <2>1, <2>2, <2>5
      <3>3. QED
        BY <2>1, <2>4, <3>1, <3>2 DEF Honest
    <2>9. /\ entries' = entries /\ res' = res
          /\ pc'[c] = "record" /\ box'[c] = f
          /\ \A d \in Callers \ {c} : pc'[d] = pc[d] /\ box'[d] = box[d]
      BY <1>0, <1>10, <2>2 DEF Fetch, clientVars, f
    <2>10. \A k \in Accounts : HonestEntry(entries'[k], measured')
      BY <2>6, <2>9 DEF HonestInv, HonestEntry
    <2>11. \A d \in Callers : Honest(box'[d], measured') /\ Honest(res'[d], measured')
      BY <2>6, <2>8, <2>9 DEF HonestInv
    <2>12. \A d \in Callers : /\ pc'[d] = "local" => Failed(box'[d])
                              /\ pc'[d] = "record" => Explained(box'[d])
      BY <2>7, <2>9 DEF HonestInv
    <2>13. QED
      BY <2>10, <2>11, <2>12 DEF HonestInv
  <1>11. ASSUME NEW c \in Callers, Abort(c)
         PROVE  HonestInv'
    <2> DEFINE f == Fail("error", "network")
               r == Finish(f, ident[c], now)
    <2>1. f \in Readings /\ f.state = "error" /\ f.cause = "network"
      BY FailType, FailFacts DEF States, Causes
    <2> HIDE DEF f
    <2>2. r \in Readings /\ r.state = "error" /\ r.cause = "network"
      <3>1. ident[c] \in Accounts \cup {NoAccount} /\ now \in Nat
        BY <1>0
      <3>2. r \in Readings
        BY <2>1, <3>1, FinishType
      <3>3. r.state = f.state /\ r.cause = f.cause
        BY <2>1, FinishFacts
      <3>4. QED
        BY <2>1, <3>2, <3>3
    <2>3. Failed(r) /\ Explained(r) /\ Honest(r, measured)
      BY <2>2 DEF Failed, Explained, Honest, HasQuota, QuotaStates, Unset
    <2> HIDE DEF r
    <2>4. QED
      BY <1>11, <2>2, <2>3, HonestMove DEF Abort, clientVars, worldVars, r, f
  <1>12. ASSUME NEW c \in Callers, Record(c)
         PROVE  HonestInv'
    <2> DEFINE k == key[c]
    <2>1. k \in Accounts /\ entries[k] \in Entries /\ HonestEntry(entries[k], measured)
      BY <1>12, InsideType DEF Record, Steps, HonestInv
    <2>2. box[c] \in Readings /\ Honest(box[c], measured) /\ Explained(box[c])
      BY <1>0, <1>12 DEF Record, HonestInv
    <2>3. PICK e \in Recorded(entries[k], box[c], k, now) :
            /\ entries' = [entries EXCEPT ![k] = e]
            /\ box' = [box EXCEPT ![c] = FromCache(e)]
      BY <1>12 DEF Record
    <2>4. e \in Entries /\ HonestEntry(e, measured)
      BY <1>0, <2>1, <2>2, RecordedType, RecordedHonest
    <2>5. Honest(FromCache(e), measured)
      BY <2>4, CacheHonest
    <2>6. /\ entries'[k] = e /\ \A j \in Accounts \ {k} : entries'[j] = entries[j]
          /\ pc'[c] = "close" /\ box'[c] = FromCache(e)
          /\ \A d \in Callers \ {c} : pc'[d] = pc[d] /\ box'[d] = box[d]
          /\ res' = res /\ measured' = measured
      BY <1>0, <1>12, <2>1, <2>3 DEF Record, worldVars
    <2>7. \A j \in Accounts : HonestEntry(entries'[j], measured)
      BY <2>4, <2>6 DEF HonestInv
    <2>8. \A d \in Callers : /\ Honest(box'[d], measured) /\ Honest(res'[d], measured)
                             /\ pc'[d] = "local" => Failed(box'[d])
                             /\ pc'[d] = "record" => Explained(box'[d])
      BY <2>5, <2>6 DEF HonestInv
    <2>9. QED
      BY <2>6, <2>7, <2>8 DEF HonestInv
  <1>13. ASSUME NEW c \in Callers, Close(c)
         PROVE  HonestInv'
    <2>1. \A d \in Callers : box'[d] \in {box[c], box[d]}
      BY <1>13 DEF Close
    <2>2. \A d \in Callers : pc'[d] \in {"local", "record"} =>
             pc'[d] = pc[d] /\ box'[d] = box[d]
      BY <1>0, <1>13, ClientAssumption DEF Close, CallsInv
    <2>3. res' = res /\ UNCHANGED <<entries, measured>>
      BY <1>13 DEF Close, clientVars, worldVars
    <2>4. QED
      BY <2>1, <2>2, <2>3, HonestKept DEF HonestInv
  <1>14. ASSUME NEW c \in Callers, Hook(c)
         PROVE  HonestInv'
    <2>1. box[c] \in Readings /\ Honest(box[c], measured)
      BY <1>0 DEF HonestInv
    <2>2. QED
      BY <1>14, <2>1, HonestReturn DEF Hook, worldVars
  <1>15. ASSUME NEW c \in Callers, WaitDone(c)
         PROVE  HonestInv'
    <2>1. box[c] \in Readings /\ Honest(box[c], measured)
      BY <1>0 DEF HonestInv
    <2>2. QED
      BY <1>15, <2>1, HonestReturn DEF WaitDone, clientVars, worldVars
  <1>16. ASSUME NEW c \in Callers, WaitTimeout(c)
         PROVE  HonestInv'
    <2> DEFINE f == Fail("error", "timeout")
               r == [f EXCEPT !.account = key[c]]
    <2>1. f \in Readings /\ f.state = "error"
      BY FailType, FailFacts DEF States, Causes
    <2> HIDE DEF f
    <2>2. key[c] \in Accounts
      BY <1>16, InsideType DEF WaitTimeout, Steps
    <2>3. r \in Readings /\ r.state = "error"
      BY <2>1, <2>2 DEF Readings
    <2>4. Honest(r, measured)
      BY <2>3 DEF Honest, HasQuota, QuotaStates
    <2> HIDE DEF r
    <2>5. QED
      BY <1>16, <2>3, <2>4, HonestReturn DEF WaitTimeout, clientVars, worldVars, r, f
  <1>17. ASSUME NEW c \in Callers, Cancel(c)
         PROVE  HonestInv'
    BY <1>17 DEF Cancel, clientVars, worldVars, HonestInv
  <1>18. ASSUME NEW s \in Homes, Relogin(s)
         PROVE  HonestInv'
    BY <1>18 DEF Relogin, callerVars, clientVars, HonestInv
  <1>19. CASE Tick
    BY <1>19 DEF Tick, callerVars, clientVars, worldVars, HonestInv
  <1>20. CASE UNCHANGED vars
    BY <1>20 DEF vars, callerVars, clientVars, worldVars, HonestInv
  <1>21. QED
    BY <1>1, <1>2, <1>3, <1>4, <1>5, <1>6, <1>7, <1>8, <1>9, <1>10, <1>11,
       <1>12, <1>13, <1>14, <1>15, <1>16, <1>17, <1>18, <1>19, <1>20
    DEF Next, Continue

\* A verdict is honest wherever Get keeps it on its way to a caller.
THEOREM HonestInvariant == Spec => []HonestInv
<1>1. Init => HonestInv
  BY NoReadingHonest DEF Init, HonestInv, HonestEntry, NoEntry
<1>2. QED
  BY <1>1, TypeCorrect, CallsInvariant, HonestInvStep, PTL DEF Spec

\* Every verdict handed out was measured, for its account, when it says; one
\* served for a failure is marked and carries the cause.
THEOREM HonestReadingsHold == Spec => []HonestReadings
<1>1. HonestInv => HonestReadings
  BY DEF HonestInv, HonestReadings
<1>2. QED
  BY <1>1, HonestInvariant, PTL

-----------------------------------------------------------------------------
(***************************************************************************)
(* Refusals.  Client returns one as it is: no last-good reading is served  *)
(* in its name, from the cache, from a call or for a login that went away. *)
(***************************************************************************)

\* A refusal is the answer of the measurement that it came from.
Plain(r) == r.cause \in Refusals => r.stale = FALSE /\ r.transient = FALSE

(***************************************************************************)
(* Every reading that Get works on is plain.  It is enough to say so of    *)
(* last: a last-good reading is served only for a transient reading, whose *)
(* cause it takes, or for a local one, whose cause is no refusal.          *)
(***************************************************************************)
RefusalInv ==
    /\ \A k \in Accounts : Plain(entries[k].last)
    /\ \A c \in Callers : Plain(box[c]) /\ Plain(res[c])
    /\ \A c \in Callers : pc[c] = "local" => box[c].cause \notin Refusals

LEMMA NoReadingPlain == Plain(NoReading)
  BY DEF Plain, NoReading

\* A reading whose cause is no refusal is plain, and so is what is served for it.
LEMMA ServedPlain ==
    ASSUME NEW e \in Entries, NEW f \in Readings, f.cause \notin Refusals
    PROVE  Plain(StaleOr(e, f))
<1> DEFINE g == e.lastGood
           s == [g EXCEPT !.stale = TRUE, !.cause = f.cause,
                          !.retryAt = f.retryAt, !.transient = TRUE]
<1>1. g \in Readings
  BY DEF Entries
<1> HIDE DEF g
<1>2. s.cause = f.cause
  BY <1>1 DEF Readings
<1>3. StaleOr(e, f) = f \/ StaleOr(e, f) = s
  BY DEF StaleOr, g
<1> HIDE DEF s
<1>4. QED
  BY <1>2, <1>3 DEF Plain

LEMMA CachePlain ==
    ASSUME NEW e \in Entries, Plain(e.last)
    PROVE  Plain(FromCache(e))
<1>1. e.last \in Readings
  BY DEF Entries
<1>2. CASE e.last.transient
  <2>1. e.last.cause \notin Refusals
    BY <1>2 DEF Plain
  <2>2. QED
    BY <1>1, <1>2, <2>1, ServedPlain DEF FromCache
<1>3. CASE ~e.last.transient
  BY <1>3 DEF FromCache
<1>4. QED
  BY <1>2, <1>3

\* What the local files say is no refusal of an endpoint.
LEMMA LocalCause ==
    ASSUME NEW l \in Logins, NEW t \in Nat
    PROVE  LocalReading(l, t).cause \notin Refusals
<1> DEFINE st == IF l.verdict \in UnsupportedLogins THEN "unsupported"
                                                    ELSE "auth_required"
           f == Fail(st, l.verdict)
           expired == l.verdict = "token_expired"
           r == [f EXCEPT !.transient = expired]
<1>1. l.verdict \in Causes /\ l.verdict \notin Refusals
  BY DEF Logins, Causes, Verdicts, Refusals
<1>2. st \in States
  BY DEF States, QuotaStates
<1> HIDE DEF st
<1>3. f.cause = l.verdict /\ f \in Readings
  BY <1>1, <1>2, FailFacts, FailType
<1>4. [f EXCEPT !.transient = TRUE] \in Readings /\ [f EXCEPT !.transient = FALSE] \in Readings
  BY <1>1, <1>2, FailType
<1>5. expired = TRUE \/ expired = FALSE
  OBVIOUS
<1>6. r \in Readings
  BY <1>4, <1>5, Zenon
<1> HIDE DEF f, expired
<1>7. r.cause = l.verdict
  BY <1>3 DEF Readings
<1>8. LocalReading(l, t) = Finish(r, l.account, t)
  BY DEF LocalReading, r, f, st, expired
<1> HIDE DEF r
<1>9. QED
  BY <1>1, <1>6, <1>7, <1>8, FinishFacts

LEMMA UnaskedCause ==
    ASSUME now \in Nat, NEW l \in Logins, NEW r \in UnaskedReadings(l)
    PROVE  r.cause \notin Refusals
<1>1. CASE Usable(l)
  <2>1. PICK cause \in Unasked : r = Finish(Fail("error", cause), l.account, now)
    BY <1>1 DEF UnaskedReadings
  <2> DEFINE f == Fail("error", cause)
  <2>2. cause \in Causes /\ cause \notin Refusals /\ "error" \in States
    BY UnaskedAssumption DEF States
  <2>3. f \in Readings /\ f.cause = cause
    BY <2>2, FailType, FailFacts
  <2>4. r.cause = cause
    BY <2>1, <2>3, FinishFacts
  <2>5. QED
    BY <2>2, <2>4
<1>2. CASE ~Usable(l)
  BY <1>2, LocalCause DEF UnaskedReadings
<1>3. QED
  BY <1>1, <1>2

-----------------------------------------------------------------------------
\* One caller returns with a plain reading.
LEMMA PlainReturn ==
    ASSUME TypeOK, RefusalInv, NEW c \in Callers, NEW r \in Readings,
           Return(c, r), Plain(r), UNCHANGED entries
    PROVE  RefusalInv'
<1>1. /\ pc \in [Callers -> Steps] /\ box \in [Callers -> Readings]
      /\ res \in [Callers -> Readings]
  BY DEF TypeOK
<1>2. /\ pc'[c] = "idle" /\ box'[c] = NoReading /\ res'[c] = r
      /\ \A d \in Callers \ {c} :
            pc'[d] = pc[d] /\ box'[d] = box[d] /\ res'[d] = res[d]
  BY <1>1 DEF Return, Goto
<1>3. QED
  BY <1>2, NoReadingPlain DEF RefusalInv

\* One caller moves on with a plain reading in its box.
LEMMA PlainMove ==
    ASSUME TypeOK, RefusalInv, NEW c \in Callers, NEW step, NEW r \in Readings,
           pc' = [pc EXCEPT ![c] = step], box' = [box EXCEPT ![c] = r],
           Plain(r), step = "local" => r.cause \notin Refusals,
           res' = res \/ res' = [res EXCEPT ![c] = NoReading],
           UNCHANGED entries
    PROVE  RefusalInv'
<1>1. /\ pc \in [Callers -> Steps] /\ box \in [Callers -> Readings]
      /\ res \in [Callers -> Readings]
  BY DEF TypeOK
<1>2. /\ pc'[c] = step /\ box'[c] = r /\ res'[c] \in {res[c], NoReading}
      /\ \A d \in Callers \ {c} :
            pc'[d] = pc[d] /\ box'[d] = box[d] /\ res'[d] = res[d]
  BY <1>1
<1>3. QED
  BY <1>2, NoReadingPlain DEF RefusalInv

\* One caller moves on and leaves its box as it is.
LEMMA PlainStay ==
    ASSUME TypeOK, RefusalInv, NEW c \in Callers, NEW step,
           pc' = [pc EXCEPT ![c] = step], box' = box, step # "local",
           res' = res \/ res' = [res EXCEPT ![c] = NoReading],
           UNCHANGED entries
    PROVE  RefusalInv'
<1>1. box[c] \in Readings /\ Plain(box[c]) /\ box' = [box EXCEPT ![c] = box[c]]
  BY DEF TypeOK, RefusalInv
<1>2. QED
  BY <1>1, PlainMove

LEMMA RefusalInvStep ==
    TypeOK /\ CallsInv /\ RefusalInv /\ [Next]_vars => RefusalInv'
  <1> SUFFICES ASSUME TypeOK, CallsInv, RefusalInv, [Next]_vars
               PROVE  RefusalInv'
    OBVIOUS
  <1> USE DEF At, Goto
  <1>0. /\ pc \in [Callers -> Steps]
        /\ box \in [Callers -> Readings] /\ res \in [Callers -> Readings]
        /\ entries \in [Accounts -> Entries]
        /\ now \in Nat
        /\ login \in [Homes -> Logins]
        /\ \A c \in Callers : ident[c] \in Accounts \cup {NoAccount}
    BY DEF TypeOK
  <1>a. ASSUME NEW l \in Logins
        PROVE  /\ LocalReading(l, now) \in Readings
               /\ LocalReading(l, now).cause \notin Refusals
               /\ Plain(LocalReading(l, now))
    BY <1>0, LocalReadingType, LocalCause DEF Plain
  <1>1. ASSUME NEW c \in Callers, NEW s \in Homes, CallUsable(c, s)
        PROVE  RefusalInv'
    BY <1>1, PlainStay DEF CallUsable, clientVars
  <1>2. ASSUME NEW c \in Callers, NEW s \in Homes, CallExpired(c, s)
        PROVE  RefusalInv'
    BY <1>0, <1>a, <1>2, PlainMove DEF CallExpired, clientVars
  <1>3. ASSUME NEW c \in Callers, NEW s \in Homes, CallTerminal(c, s)
        PROVE  RefusalInv'
    BY <1>0, <1>a, <1>3, PlainReturn DEF CallTerminal, clientVars
  <1>4. ASSUME NEW c \in Callers, LocalAnswer(c)
        PROVE  RefusalInv'
    <2> DEFINE e == entries[key[c]]
    <2>1. e \in Entries
      BY <1>4, InsideType DEF LocalAnswer, Steps
    <2>2. box[c] \in Readings /\ box[c].cause \notin Refusals
      BY <1>0, <1>4 DEF LocalAnswer, RefusalInv
    <2>3. StaleOr(e, box[c]) \in Readings /\ Plain(StaleOr(e, box[c]))
      BY <2>1, <2>2, FromCacheType, ServedPlain
    <2>4. QED
      BY <1>4, <2>3, PlainReturn DEF LocalAnswer, clientVars
  <1>5. ASSUME NEW c \in Callers, Cached(c)
        PROVE  RefusalInv'
    <2>1. entries[key[c]] \in Entries /\ Plain(entries[key[c]].last)
      BY <1>5, InsideType DEF Cached, Steps, RefusalInv
    <2>2. /\ FromCache(entries[key[c]]) \in Readings
          /\ Plain(FromCache(entries[key[c]]))
      BY <2>1, FromCacheType, CachePlain
    <2>3. QED
      BY <1>5, <2>2, PlainReturn DEF Cached, clientVars
  <1>6. ASSUME NEW c \in Callers, Join(c) \/ Lead(c) \/ ProbeIdentify(c)
        PROVE  RefusalInv'
    BY <1>6, PlainStay DEF Join, Lead, ProbeIdentify, clientVars
  <1>7. ASSUME NEW c \in Callers, ProbeUnasked(c)
        PROVE  RefusalInv'
    <2>1. login[src[c]] \in Logins
      BY <1>7, InsideType DEF ProbeUnasked, Steps
    <2>2. PICK r \in UnaskedReadings(login[src[c]]) : box' = [box EXCEPT ![c] = r]
      BY <1>7 DEF ProbeUnasked
    <2>3. r \in Readings /\ Plain(r)
      BY <1>0, <2>1, <2>2, UnaskedFacts, UnaskedCause DEF Plain
    <2>4. QED
      BY <1>7, <2>2, <2>3, PlainMove DEF ProbeUnasked, clientVars
  <1>8. ASSUME NEW c \in Callers, Fetch(c)
        PROVE  RefusalInv'
    <2> DEFINE a == ident[c]
    <2>1. PICK r \in Answers : box' = [box EXCEPT ![c] = Finish(r, a, now)]
      BY <1>8 DEF Fetch
    <2> DEFINE f == Finish(r, a, now)
    <2>2. /\ r \in Readings /\ ~r.stale
          /\ r.cause \in Refusals => ~r.transient
      BY AnswersAssumption DEF IsAnswer
    <2>3. f \in Readings /\ f.cause = r.cause /\ f.stale = r.stale
          /\ f.transient = r.transient
      <3>1. a \in Accounts \cup {NoAccount} /\ now \in Nat
        BY <1>0
      <3>2. f \in Readings
        BY <2>2, <3>1, FinishType
      <3>3. QED
        BY <2>2, <3>2, FinishFacts
    <2> HIDE DEF f
    <2>4. Plain(f)
      BY <2>2, <2>3 DEF Plain, Readings
    <2>5. box' = [box EXCEPT ![c] = f] /\ UNCHANGED <<entries, res>>
          /\ pc' = [pc EXCEPT ![c] = "record"]
      BY <1>8, <2>1 DEF Fetch, clientVars, f
    <2>6. QED
      BY <2>3, <2>4, <2>5, PlainMove
  <1>9. ASSUME NEW c \in Callers, Abort(c)
        PROVE  RefusalInv'
    <2> DEFINE f == Fail("error", "network")
               r == Finish(f, ident[c], now)
    <2>1. f \in Readings /\ f.cause = "network"
      BY FailType, FailFacts DEF States, Causes
    <2> HIDE DEF f
    <2>2. r \in Readings /\ r.cause = "network"
      <3>1. ident[c] \in Accounts \cup {NoAccount} /\ now \in Nat
        BY <1>0
      <3>2. r \in Readings /\ r.cause = f.cause
        BY <2>1, <3>1, FinishType, FinishFacts
      <3>3. QED
        BY <2>1, <3>2
    <2>3. Plain(r)
      BY <2>2 DEF Plain, Refusals
    <2> HIDE DEF r
    <2>4. QED
      BY <1>9, <2>2, <2>3, PlainMove DEF Abort, clientVars, r, f
  <1>10. ASSUME NEW c \in Callers, Record(c)
         PROVE  RefusalInv'
    <2> DEFINE k == key[c]
    <2>1. k \in Accounts /\ entries[k] \in Entries
      BY <1>10, InsideType DEF Record, Steps
    <2>2. box[c] \in Readings /\ Plain(box[c])
      BY <1>0 DEF RefusalInv
    <2>3. PICK e \in Recorded(entries[k], box[c], k, now) :
            /\ entries' = [entries EXCEPT ![k] = e]
            /\ box' = [box EXCEPT ![c] = FromCache(e)]
      BY <1>10 DEF Record
    <2>4. e \in Entries
      BY <1>0, <2>1, <2>2, RecordedType
    <2>5. /\ e.last.cause = box[c].cause /\ e.last.stale = box[c].stale
          /\ e.last.transient = box[c].transient
      BY <1>0, <2>1, <2>2, RecordedFacts
    <2>6. Plain(e.last)
      BY <2>2, <2>5 DEF Plain
    <2>7. Plain(FromCache(e))
      BY <2>4, <2>6, CachePlain
    <2>8. /\ entries'[k] = e /\ \A j \in Accounts \ {k} : entries'[j] = entries[j]
          /\ pc'[c] = "close" /\ box'[c] = FromCache(e)
          /\ \A d \in Callers \ {c} : pc'[d] = pc[d] /\ box'[d] = box[d]
          /\ res' = res
      BY <1>0, <1>10, <2>1, <2>3 DEF Record
    <2>9. QED
      BY <2>6, <2>7, <2>8 DEF RefusalInv
  <1>11. ASSUME NEW c \in Callers, Close(c)
         PROVE  RefusalInv'
    <2>1. \A d \in Callers : box'[d] \in {box[c], box[d]}
      BY <1>11 DEF Close
    <2>2. \A d \in Callers : pc'[d] = "local" => pc[d] = "local" /\ box'[d] = box[d]
      BY <1>0, <1>11, ClientAssumption DEF Close, CallsInv
    <2>3. UNCHANGED <<res, entries>>
      BY <1>11 DEF Close, clientVars
    <2>4. QED
      BY <2>1, <2>2, <2>3 DEF RefusalInv
  <1>12. ASSUME NEW c \in Callers, Hook(c) \/ WaitDone(c)
         PROVE  RefusalInv'
    <2>1. box[c] \in Readings /\ Plain(box[c])
      BY <1>0 DEF RefusalInv
    <2>2. QED
      BY <1>12, <2>1, PlainReturn DEF Hook, WaitDone, clientVars
  <1>13. ASSUME NEW c \in Callers, WaitTimeout(c)
         PROVE  RefusalInv'
    <2> DEFINE f == Fail("error", "timeout")
               r == [f EXCEPT !.account = key[c]]
    <2>1. f \in Readings /\ f.cause = "timeout"
      BY FailType, FailFacts DEF States, Causes
    <2> HIDE DEF f
    <2>2. key[c] \in Accounts
      BY <1>13, InsideType DEF WaitTimeout, Steps
    <2>3. r \in Readings /\ r.cause = "timeout"
      BY <2>1, <2>2 DEF Readings
    <2>4. Plain(r)
      BY <2>3 DEF Plain, Refusals
    <2> HIDE DEF r
    <2>5. QED
      BY <1>13, <2>3, <2>4, PlainReturn DEF WaitTimeout, clientVars, r, f
  <1>14. ASSUME NEW c \in Callers, Cancel(c)
         PROVE  RefusalInv'
    BY <1>14 DEF Cancel, clientVars, RefusalInv
  <1>15. ASSUME NEW s \in Homes, Relogin(s)
         PROVE  RefusalInv'
    BY <1>15 DEF Relogin, callerVars, clientVars, RefusalInv
  <1>16. CASE Tick
    BY <1>16 DEF Tick, callerVars, clientVars, RefusalInv
  <1>17. CASE UNCHANGED vars
    BY <1>17 DEF vars, callerVars, clientVars, RefusalInv
  <1>18. QED
    BY <1>1, <1>2, <1>3, <1>4, <1>5, <1>6, <1>7, <1>8, <1>9, <1>10, <1>11, <1>12,
       <1>13, <1>14, <1>15, <1>16, <1>17
    DEF Next, Continue

\* A 401, 403 or 404 reaches every caller as it is (README.md:168), however many
\* good readings came before it and whoever else is asking.
THEOREM RefusalsAsIsHold == Spec => []RefusalsAsIs
<1>1. Init => RefusalInv
  BY NoReadingPlain DEF Init, RefusalInv, NoEntry
<1>2. RefusalInv => RefusalsAsIs
  BY DEF RefusalInv, RefusalsAsIs, Plain
<1>3. QED
  BY <1>1, <1>2, TypeCorrect, CallsInvariant, RefusalInvStep, PTL DEF Spec

-----------------------------------------------------------------------------
(***************************************************************************)
(* What a step does to one caller: it is the caller's own, it wakes the    *)
(* caller from the call it waits on, or it leaves the caller alone.        *)
(***************************************************************************)

Stays(d) ==
    /\ pc'[d] = pc[d] /\ box'[d] = box[d] /\ res'[d] = res[d]
    /\ key'[d] = key[d] /\ cl'[d] = cl[d] /\ ident'[d] = ident[d]
    /\ src'[d] = src[d]

Woken(d) ==
    /\ pc[d] = "wait" /\ cl[d] \in Callers /\ pc[cl[d]] = "close"
    /\ pc'[d] = "wait" /\ box'[d] = box[cl[d]] /\ cl'[d] = NoCaller
    /\ res'[d] = res[d] /\ key'[d] = key[d] /\ ident'[d] = ident[d]
    /\ src'[d] = src[d]
    /\ UNCHANGED <<now, entries, inflight, login, requests, measured>>

Asks(d) == \E s \in Homes : CallUsable(d, s) \/ CallExpired(d, s) \/ CallTerminal(d, s)

LEMMA OtherStep ==
    ASSUME TypeOK, CallsInv, NEW c \in Callers, Asks(c) \/ Continue(c) \/ Cancel(c),
           NEW d \in Callers, d # c
    PROVE  Stays(d) \/ Woken(d)
<1>0. /\ pc \in [Callers -> Steps] /\ cl \in [Callers -> Callers \cup {NoCaller}]
      /\ key \in [Callers -> Accounts \cup {NoAccount}]
      /\ ident \in [Callers -> Accounts \cup {NoAccount}]
      /\ src \in [Callers -> Homes \cup {NoHome}]
      /\ box \in [Callers -> Readings] /\ res \in [Callers -> Readings]
  BY DEF TypeOK
<1>1. CASE Asks(c)
  BY <1>0, <1>1 DEF Asks, CallUsable, CallExpired, CallTerminal, Return, Goto, Stays
<1>2. CASE LocalAnswer(c) \/ Cached(c) \/ Hook(c) \/ WaitDone(c) \/ WaitTimeout(c)
  BY <1>0, <1>2 DEF LocalAnswer, Cached, Hook, WaitDone, WaitTimeout, Return, Goto, Stays
<1>3. CASE Join(c) \/ Lead(c) \/ ProbeIdentify(c) \/ ProbeUnasked(c)
  BY <1>0, <1>3 DEF Join, Lead, ProbeIdentify, ProbeUnasked, Goto, Stays
<1>4. CASE Fetch(c) \/ Abort(c) \/ Record(c)
  BY <1>0, <1>4 DEF Fetch, Abort, Record, Goto, Stays
<1>5. CASE Close(c)
  <2>1. CASE cl[d] = c
    <3>1. pc[d] = "wait"
      BY <2>1, ClientAssumption DEF CallsInv
    <3>2. QED
      BY <1>0, <1>5, <2>1, <3>1 DEF Close, At, Goto, Woken, clientVars, worldVars
  <2>2. CASE cl[d] # c
    BY <1>0, <1>5, <2>2 DEF Close, Goto, Stays
  <2>3. QED
    BY <2>1, <2>2
<1>6. CASE Cancel(c)
  BY <1>6 DEF Cancel, Stays
<1>7. QED
  BY <1>1, <1>2, <1>3, <1>4, <1>5, <1>6 DEF Continue

LEMMA CallerStep ==
    ASSUME TypeOK, CallsInv, [Next]_vars, NEW d \in Callers
    PROVE  Stays(d) \/ Woken(d) \/ Asks(d) \/ Continue(d)
<1>1. ASSUME NEW c \in Callers, Asks(c) \/ Continue(c) \/ Cancel(c)
      PROVE  Stays(d) \/ Woken(d) \/ Asks(d) \/ Continue(d)
  <2>1. Cancel(d) => Stays(d)
    BY DEF Cancel, Stays
  <2>2. QED
    BY <1>1, <2>1, OtherStep
<1>2. CASE UNCHANGED callerVars
  BY <1>2 DEF callerVars, Stays
<1>3. ASSUME NEW s \in Homes, Relogin(s)
      PROVE  UNCHANGED callerVars
  BY <1>3 DEF Relogin
<1>4. CASE Tick
  BY <1>2, <1>4 DEF Tick
<1>5. CASE UNCHANGED vars
  BY <1>2, <1>5 DEF vars
<1>6. QED
  BY <1>1, <1>2, <1>3, <1>4, <1>5 DEF Next, Asks

-----------------------------------------------------------------------------
(***************************************************************************)
(* Get never returns a zero Reading: a gate is shut only by what was       *)
(* recorded, and a waiter that finds its call closed has its result.       *)
(***************************************************************************)

\* The caller's reading is a result, or about to be one.
Ready(d) ==
    \/ pc[d] \in {"local", "record", "close", "hook"}
    \/ pc[d] = "wait" /\ cl[d] = NoCaller

AnsweredInv ==
    /\ \A k \in Accounts :
         /\ entries[k].nextAllowed # NoTime => entries[k].last.state # Unset
         /\ entries[k].lastGood # NoReading => entries[k].lastGood.state # Unset
    /\ \A d \in Callers : Ready(d) => box[d].state # Unset

LEMMA StaleStated ==
    ASSUME AnsweredInv, NEW k \in Accounts, NEW r, r.state # Unset,
           TypeOK
    PROVE  StaleOr(entries[k], r).state # Unset
<1>1. entries[k].lastGood \in Readings
  BY DEF TypeOK, Entries
<1>2. QED
  BY <1>1 DEF StaleOr, AnsweredInv, Readings

LEMMA CacheStated ==
    ASSUME AnsweredInv, TypeOK, NEW k \in Accounts, entries[k].nextAllowed # NoTime
    PROVE  FromCache(entries[k]).state # Unset
<1>1. entries[k].last.state # Unset
  BY DEF AnsweredInv
<1>2. QED
  BY <1>1, StaleStated DEF FromCache

\* What Get returns has a state.
LEMMA ResultStated ==
    ASSUME TypeOK, AnsweredInv, NEW d \in Callers, Asks(d) \/ Continue(d), pc'[d] = "idle"
    PROVE  res'[d].state # Unset
<1>0. /\ pc \in [Callers -> Steps] /\ res \in [Callers -> Readings]
      /\ pc[d] # "idle" => key[d] \in Accounts
  BY DEF TypeOK
<1>1. ASSUME NEW s \in Homes, CallTerminal(d, s)
      PROVE  res'[d].state # Unset
  <2>1. LocalReading(login[s], now).state \in States
    BY LocalReadingFacts DEF TypeOK
  <2>2. res'[d] = LocalReading(login[s], now)
    BY <1>0, <1>1 DEF CallTerminal, Return
  <2>3. QED
    BY <2>1, <2>2 DEF States, QuotaStates, Unset
<1>2. CASE LocalAnswer(d)
  <2>1. res'[d] = StaleOr(entries[key[d]], box[d])
    BY <1>0, <1>2 DEF LocalAnswer, Return
  <2>2. box[d].state # Unset /\ key[d] \in Accounts
    BY <1>0, <1>2 DEF LocalAnswer, At, AnsweredInv, Ready
  <2>3. QED
    BY <2>1, <2>2, StaleStated
<1>3. CASE Cached(d)
  <2>1. res'[d] = FromCache(entries[key[d]]) /\ key[d] \in Accounts
    BY <1>0, <1>3 DEF Cached, Return, At
  <2>2. entries[key[d]].nextAllowed # NoTime
    <3>1. now \in Nat /\ entries[key[d]].slack \in Nat
      BY <2>1 DEF TypeOK, Entries
    <3>2. QED
      BY <1>3, <3>1 DEF Cached, Gated, NoTime
  <2>3. QED
    BY <2>1, <2>2, CacheStated
<1>4. CASE Hook(d) \/ WaitDone(d)
  <2>1. res'[d] = box[d]
    BY <1>0, <1>4 DEF Hook, WaitDone, Return
  <2>2. Ready(d)
    BY <1>4 DEF Hook, WaitDone, At, Ready
  <2>3. QED
    BY <2>1, <2>2 DEF AnsweredInv
<1>5. CASE WaitTimeout(d)
  <2>1. res'[d] = [Fail("error", "timeout") EXCEPT !.account = key[d]]
    BY <1>0, <1>5 DEF WaitTimeout, Return
  <2>2. Fail("error", "timeout").state = "error" /\ Fail("error", "timeout") \in Readings
    BY FailFacts, FailType DEF States, Causes
  <2>3. QED
    BY <2>1, <2>2 DEF Readings, Unset
<1>6. ASSUME NEW s \in Homes, CallUsable(d, s) \/ CallExpired(d, s)
      PROVE  FALSE
  BY <1>0, <1>6 DEF CallUsable, CallExpired, Goto
<1>7. ~(Join(d) \/ Lead(d) \/ ProbeIdentify(d) \/ ProbeUnasked(d) \/ Fetch(d)
          \/ Abort(d) \/ Record(d) \/ Close(d))
  BY <1>0 DEF Join, Lead, ProbeIdentify, ProbeUnasked, Fetch, Abort, Record, Close, Goto
<1>8. QED
  BY <1>1, <1>2, <1>3, <1>4, <1>5, <1>6, <1>7 DEF Asks, Continue

\* What record leaves behind answers those who are kept at the gate.
LEMMA RecordedStated ==
    ASSUME TypeOK, AnsweredInv, NEW k \in Accounts, NEW r \in Readings,
           r.state # Unset, NEW e \in Recorded(entries[k], r, k, now)
    PROVE  /\ e \in Entries
           /\ e.last.state # Unset
           /\ e.lastGood # NoReading => e.lastGood.state # Unset
           /\ FromCache(e).state # Unset
<1>1. entries[k] \in Entries /\ now \in Nat
  BY DEF TypeOK
<1>2. e \in Entries
  BY <1>1, RecordedType
<1>3. /\ e.last.state = r.state
      /\ e.lastGood = IF ~r.transient /\ HasQuota(r.state) THEN r ELSE entries[k].lastGood
  BY <1>1, RecordedFacts
<1>4. e.lastGood # NoReading => e.lastGood.state # Unset
  BY <1>3 DEF AnsweredInv
<1>5. e.lastGood \in Readings
  BY <1>2 DEF Entries
<1>6. FromCache(e).state # Unset
  BY <1>3, <1>4, <1>5 DEF FromCache, StaleOr, Readings
<1>7. QED
  BY <1>2, <1>3, <1>4, <1>6

LEMMA AnsweredInvStep ==
    TypeOK /\ CallsInv /\ OrderInv /\ AnsweredInv /\ [Next]_vars => AnsweredInv'
<1> SUFFICES ASSUME TypeOK, CallsInv, OrderInv, AnsweredInv, [Next]_vars
             PROVE  AnsweredInv'
  OBVIOUS
<1>0. /\ pc \in [Callers -> Steps] /\ cl \in [Callers -> Callers \cup {NoCaller}]
      /\ box \in [Callers -> Readings] /\ entries \in [Accounts -> Entries]
      /\ now \in Nat /\ login \in [Homes -> Logins]
  BY DEF TypeOK
<1>1. \A k \in Accounts :
         /\ entries'[k].nextAllowed # NoTime => entries'[k].last.state # Unset
         /\ entries'[k].lastGood # NoReading => entries'[k].lastGood.state # Unset
  <2>1. CASE UNCHANGED entries
    BY <2>1 DEF AnsweredInv
  <2>2. ASSUME NEW c \in Callers, Record(c)
        PROVE  \A k \in Accounts :
                 /\ entries'[k].nextAllowed # NoTime => entries'[k].last.state # Unset
                 /\ entries'[k].lastGood # NoReading
                      => entries'[k].lastGood.state # Unset
    <3>1. key[c] \in Accounts
      BY <2>2, InsideType DEF Record, Steps
    <3>2. box[c] \in Readings /\ box[c].state # Unset
      BY <1>0, <2>2 DEF Record, At, OrderInv
    <3>3. PICK e \in Recorded(entries[key[c]], box[c], key[c], now) :
             entries' = [entries EXCEPT ![key[c]] = e]
      BY <2>2 DEF Record
    <3>4. e.last.state # Unset /\ (e.lastGood # NoReading => e.lastGood.state # Unset)
      BY <3>1, <3>2, RecordedStated
    <3>5. QED
      BY <1>0, <3>1, <3>3, <3>4 DEF AnsweredInv
  <2>3. QED
    BY <2>1, <2>2, EntriesStep
<1>2. ASSUME NEW d \in Callers, Ready(d)'
      PROVE  box'[d].state # Unset
  <2>1. CASE Stays(d)
    BY <1>2, <2>1 DEF Stays, Ready, AnsweredInv
  <2>2. CASE Woken(d)
    BY <2>2 DEF Woken, Ready, AnsweredInv
  <2>3. ASSUME NEW l \in Logins, box'[d] = LocalReading(l, now)
        PROVE  box'[d].state # Unset
    BY <1>0, <2>3, LocalReadingFacts DEF States, QuotaStates, Unset
  <2>4. CASE Asks(d)
    <3>1. PICK s \in Homes : CallUsable(d, s) \/ CallExpired(d, s) \/ CallTerminal(d, s)
      BY <2>4 DEF Asks
    <3>2. CASE CallExpired(d, s)
      BY <1>0, <2>3, <3>2 DEF CallExpired
    <3>3. ~(CallUsable(d, s) \/ CallTerminal(d, s))
      BY <1>0, <1>2 DEF CallUsable, CallTerminal, Return, Goto, Ready
    <3>4. QED
      BY <3>1, <3>2, <3>3
  <2>5. ~(LocalAnswer(d) \/ Cached(d) \/ Hook(d) \/ WaitDone(d) \/ WaitTimeout(d))
    BY <1>0, <1>2
    DEF LocalAnswer, Cached, Hook, WaitDone, WaitTimeout, Return, Goto, Ready
  <2>6. ~(Lead(d) \/ ProbeIdentify(d))
    BY <1>0, <1>2 DEF Lead, ProbeIdentify, Goto, Ready
  <2>7. ~Join(d)
    BY <1>0, <1>2 DEF Join, Goto, Ready
  <2>8. CASE ProbeUnasked(d)
    <3>1. login[src[d]] \in Logins
      BY <2>8, InsideType DEF ProbeUnasked, Steps
    <3>2. PICK r \in UnaskedReadings(login[src[d]]) : box' = [box EXCEPT ![d] = r]
      BY <2>8 DEF ProbeUnasked
    <3>3. r.state # Unset
      BY <1>0, <3>1, <3>2, UnaskedFacts DEF States, QuotaStates, Unset
    <3>4. QED
      BY <1>0, <3>2, <3>3
  <2>9. CASE Fetch(d)
    <3>1. PICK r \in Answers : box' = [box EXCEPT ![d] = Finish(r, ident[d], now)]
      BY <2>9 DEF Fetch
    <3>2. r \in Readings /\ r.state # Unset
      BY AnswersAssumption DEF IsAnswer
    <3>3. Finish(r, ident[d], now).state = r.state
      BY <3>2, FinishFacts
    <3>4. QED
      BY <1>0, <3>1, <3>2, <3>3
  <2>10. CASE Abort(d)
    <3> DEFINE f == Fail("error", "network")
    <3>1. f \in Readings /\ f.state = "error"
      BY FailType, FailFacts DEF States, Causes
    <3>2. box'[d] = Finish(f, ident[d], now)
      BY <1>0, <2>10 DEF Abort
    <3> HIDE DEF f
    <3>3. QED
      BY <3>1, <3>2, FinishFacts DEF Unset
  <2>11. CASE Record(d)
    <3>1. key[d] \in Accounts
      BY <2>11, InsideType DEF Record, Steps
    <3>2. box[d] \in Readings /\ box[d].state # Unset
      BY <1>0, <2>11 DEF Record, At, OrderInv
    <3>3. PICK e \in Recorded(entries[key[d]], box[d], key[d], now) :
             box' = [box EXCEPT ![d] = FromCache(e)]
      BY <2>11 DEF Record
    <3>4. FromCache(e).state # Unset
      BY <3>1, <3>2, RecordedStated
    <3>5. QED
      BY <1>0, <3>3, <3>4
  <2>12. CASE Close(d)
    <3>1. pc[d] = "close" /\ box'[d] = box[d]
      <4>1. pc[d] = "close"
        BY <2>12 DEF Close, At
      <4>2. cl[d] # d
        BY <4>1, ClientAssumption DEF CallsInv
      <4>3. QED
        BY <2>12, <4>1, <4>2 DEF Close
    <3>2. QED
      BY <3>1 DEF Ready, AnsweredInv
  <2>13. QED
    BY <2>1, <2>2, <2>4, <2>5, <2>6, <2>7, <2>8, <2>9, <2>10, <2>11, <2>12, CallerStep
    DEF Continue
<1>3. QED
  BY <1>1, <1>2 DEF AnsweredInv

\* The box of a caller at work, and the last reading behind a shut gate, are
\* always real readings: Get has something to return on every path.
THEOREM AnsweredInvariant == Spec => []AnsweredInv
<1>1. Init => AnsweredInv
  BY DEF Init, AnsweredInv, NoEntry, Ready
<1>2. QED
  BY <1>1, TypeCorrect, CallsInvariant, OrderInvariant, AnsweredInvStep, PTL DEF Spec

-----------------------------------------------------------------------------
(***************************************************************************)
(* Homes that keep their accounts.  The account Get resolved is then the   *)
(* one Probe measures, and an entry holds readings of its own account      *)
(* only; a home that changes hands in between is what OwnEntry is about.   *)
(***************************************************************************)

HomesKeepAccounts ==
    \A s \in Homes : \A l \in NextLogins[s] : l.account = FirstLogin[s].account

AccountOf(s) == FirstLogin[s].account

KeptInv ==
    /\ \A s \in Homes : login[s].account = AccountOf(s)
    /\ \A c \in Callers : pc[c] # "idle" => key[c] = AccountOf(src[c])
    /\ \A c \in Callers : pc[c] = "fetch" => ident[c] = key[c]
    /\ \A c \in Callers : pc[c] = "record" => box[c].account = key[c]
    /\ \A k \in Accounts :
         /\ entries[k].last.state # Unset => entries[k].last.account = k
         /\ entries[k].lastGood # NoReading => entries[k].lastGood.account = k

\* Only a home's CLI changes its files.
LEMMA LoginStep ==
    ASSUME [Next]_vars
    PROVE  UNCHANGED login \/ \E s \in Homes : Relogin(s)
<1>1. CASE UNCHANGED vars
  BY <1>1 DEF vars, worldVars
<1>2. CASE Tick
  BY <1>2 DEF Tick, worldVars
<1>3. ASSUME NEW c \in Callers, NEW s \in Homes,
             CallUsable(c, s) \/ CallExpired(c, s) \/ CallTerminal(c, s)
      PROVE  UNCHANGED login
  BY <1>3 DEF CallUsable, CallExpired, CallTerminal, worldVars
<1>4. ASSUME NEW c \in Callers,
             LocalAnswer(c) \/ Cached(c) \/ Join(c) \/ Lead(c) \/ ProbeIdentify(c)
               \/ ProbeUnasked(c)
      PROVE  UNCHANGED login
  BY <1>4 DEF LocalAnswer, Cached, Join, Lead, ProbeIdentify, ProbeUnasked, worldVars
<1>5. ASSUME NEW c \in Callers,
             Fetch(c) \/ Abort(c) \/ Record(c) \/ Close(c) \/ Hook(c) \/ WaitDone(c)
               \/ WaitTimeout(c) \/ Cancel(c)
      PROVE  UNCHANGED login
  BY <1>5 DEF Fetch, Abort, Record, Close, Hook, WaitDone, WaitTimeout, Cancel, worldVars
<1>6. QED
  BY <1>1, <1>2, <1>3, <1>4, <1>5 DEF Next, Continue

\* What a caller is asking for, and of which account its result is.
KeptCaller(c) ==
    /\ pc[c] # "idle" => key[c] = AccountOf(src[c])
    /\ pc[c] = "fetch" => ident[c] = key[c]
    /\ pc[c] = "record" => box[c].account = key[c]

LEMMA KeptCallerStep ==
    ASSUME TypeOK, CallsInv, KeptInv, [Next]_vars, NEW d \in Callers
    PROVE  KeptCaller(d)'
<1>0. /\ pc \in [Callers -> Steps] /\ key \in [Callers -> Accounts \cup {NoAccount}]
      /\ src \in [Callers -> Homes \cup {NoHome}]
      /\ ident \in [Callers -> Accounts \cup {NoAccount}]
      /\ box \in [Callers -> Readings] /\ login \in [Homes -> Logins] /\ now \in Nat
  BY DEF TypeOK
<1>1. KeptCaller(d)
  BY DEF KeptInv, KeptCaller
<1>2. CASE Stays(d) \/ Woken(d)
  BY <1>1, <1>2 DEF Stays, Woken, KeptCaller
<1>3. CASE Asks(d)
  <2>1. PICK s \in Homes : CallUsable(d, s) \/ CallExpired(d, s) \/ CallTerminal(d, s)
    BY <1>3 DEF Asks
  <2>2. CASE CallTerminal(d, s)
    BY <1>0, <2>2 DEF CallTerminal, Return, Goto, KeptCaller
  <2>3. CASE CallUsable(d, s) \/ CallExpired(d, s)
    BY <1>0, <2>3 DEF CallUsable, CallExpired, Goto, KeptCaller, KeptInv
  <2>4. QED
    BY <2>1, <2>2, <2>3
<1>4. CASE LocalAnswer(d) \/ Cached(d) \/ Hook(d) \/ WaitDone(d) \/ WaitTimeout(d)
  BY <1>0, <1>4
  DEF LocalAnswer, Cached, Hook, WaitDone, WaitTimeout, Return, Goto, KeptCaller
<1>5. CASE Join(d) \/ Lead(d) \/ Close(d)
  BY <1>0, <1>1, <1>5 DEF Join, Lead, Close, Goto, At, KeptCaller
<1>6. CASE ProbeIdentify(d)
  <2>1. src[d] \in Homes
    BY <1>6, InsideType DEF ProbeIdentify, Steps
  <2>2. QED
    BY <1>0, <1>1, <1>6, <2>1 DEF ProbeIdentify, Goto, At, KeptCaller, KeptInv
<1>7. CASE ProbeUnasked(d)
  <2>1. src[d] \in Homes /\ login[src[d]] \in Logins
    BY <1>7, InsideType DEF ProbeUnasked, Steps
  <2>2. PICK r \in UnaskedReadings(login[src[d]]) : box' = [box EXCEPT ![d] = r]
    BY <1>7 DEF ProbeUnasked
  <2>3. r.account = AccountOf(src[d])
    BY <1>0, <2>1, <2>2, UnaskedFacts DEF KeptInv
  <2>4. pc[d] = "identify" /\ pc'[d] = "record" /\ box'[d] = r
        /\ key'[d] = key[d] /\ src'[d] = src[d]
    BY <1>0, <1>7, <2>2 DEF ProbeUnasked, Goto, At
  <2>5. QED
    BY <1>1, <2>3, <2>4 DEF KeptCaller
<1>8. CASE Fetch(d) \/ Abort(d)
  <2>1. PICK r \in Readings : /\ r.account = NoAccount
                              /\ box' = [box EXCEPT ![d] = Finish(r, ident[d], now)]
    <3>1. CASE Fetch(d)
      BY <3>1, AnswersAssumption DEF Fetch, IsAnswer
    <3>2. CASE Abort(d)
      BY <3>2, FailType, FailPlain DEF Abort, States, Causes
    <3>3. QED
      BY <1>8, <3>1, <3>2
  <2>2. pc[d] = "fetch" /\ pc'[d] = "record" /\ key'[d] = key[d] /\ src'[d] = src[d]
    BY <1>0, <1>8 DEF Fetch, Abort, Goto, At
  <2>3. box'[d].account = ident[d]
    BY <1>0, <2>1, FinishFacts
  <2>4. QED
    BY <1>1, <2>2, <2>3 DEF KeptCaller
<1>9. CASE Record(d)
  BY <1>0, <1>1, <1>9 DEF Record, Goto, At, KeptCaller
<1>10. QED
  BY <1>2, <1>3, <1>4, <1>5, <1>6, <1>7, <1>8, <1>9, CallerStep DEF Continue

LEMMA KeptInvStep ==
    ASSUME HomesKeepAccounts, TypeOK, CallsInv, KeptInv, [Next]_vars
    PROVE  KeptInv'
<1>0. entries \in [Accounts -> Entries] /\ login \in [Homes -> Logins] /\ now \in Nat
      /\ box \in [Callers -> Readings]
  BY DEF TypeOK
<1>1. \A s \in Homes : login'[s].account = AccountOf(s)
  <2>1. ASSUME NEW s \in Homes, Relogin(s)
        PROVE  \A h \in Homes : login'[h].account = AccountOf(h)
    BY <1>0, <2>1 DEF Relogin, HomesKeepAccounts, AccountOf, KeptInv
  <2>2. QED
    BY <2>1, LoginStep DEF KeptInv
<1>2. \A k \in Accounts :
         /\ entries'[k].last.state # Unset => entries'[k].last.account = k
         /\ entries'[k].lastGood # NoReading => entries'[k].lastGood.account = k
  <2>1. CASE UNCHANGED entries
    BY <2>1 DEF KeptInv
  <2>2. ASSUME NEW c \in Callers, Record(c)
        PROVE  \A k \in Accounts :
                 /\ entries'[k].last.state # Unset => entries'[k].last.account = k
                 /\ entries'[k].lastGood # NoReading => entries'[k].lastGood.account = k
    <3>1. key[c] \in Accounts
      BY <2>2, InsideType DEF Record, Steps
    <3>2. box[c] \in Readings /\ box[c].account = key[c]
      BY <1>0, <2>2 DEF Record, At, KeptInv
    <3>3. PICK e \in Recorded(entries[key[c]], box[c], key[c], now) :
             entries' = [entries EXCEPT ![key[c]] = e]
      BY <2>2 DEF Record
    <3>4. /\ e.last.account = key[c]
          /\ e.lastGood = box[c] \/ e.lastGood = entries[key[c]].lastGood
      BY <1>0, <3>1, <3>2, RecordedFacts
    <3>5. QED
      BY <1>0, <3>1, <3>2, <3>3, <3>4 DEF KeptInv
  <2>3. QED
    BY <2>1, <2>2, EntriesStep
<1>3. QED
  BY <1>1, <1>2, KeptCallerStep DEF KeptInv, KeptCaller

\* Where every home keeps its account, no entry holds another's readings, and
\* no result on its way to one is another's.
THEOREM KeptInvariant == HomesKeepAccounts => (Spec => []KeptInv)
<1> SUFFICES ASSUME HomesKeepAccounts
             PROVE  Spec => []KeptInv
  OBVIOUS
<1>1. Init => KeptInv
  <2>1. NoReading.state = Unset
    BY DEF NoReading
  <2>2. NoEntry.last = NoReading /\ NoEntry.lastGood = NoReading
    BY DEF NoEntry
  <2>3. QED
    BY <2>1, <2>2 DEF Init, KeptInv, AccountOf
<1>2. TypeOK /\ CallsInv /\ KeptInv /\ [Next]_vars => KeptInv'
  BY KeptInvStep
<1>3. QED
  BY <1>1, <1>2, TypeCorrect, CallsInvariant, PTL DEF Spec

-----------------------------------------------------------------------------
(***************************************************************************)
(* What callers have seen.  A verdict that anyone holds is no newer than   *)
(* the account's last good reading, and the next attempt anyone was told   *)
(* of is past, or is what keeps the account's gate shut.                   *)
(***************************************************************************)

\* A Retry-After comes with a failure that will be tried again.  Of kiro's
\* denied answers this is not so (kiro.go:107-109 keeps the Retry-After of a 429
\* or 5xx whose body denies the credential).
OnlyFailuresWait == \A r \in Answers : ~r.transient => r.retryAfter = 0

Seen(r, es) ==
    HasQuota(r.state) =>
        r.account \in Accounts /\ r.fetched <= es[r.account].lastGood.fetched

Told(r, es, calls, t) ==
    r.account \in Accounts =>
        \/ r.retryAt <= t
        \/ /\ calls[r.account] = NoCaller
           /\ es[r.account].slack = 0
           /\ r.retryAt <= es[r.account].nextAllowed

Shown(r, es, calls, t) ==
    Seen(r, es) /\ (OnlyFailuresWait => Told(r, es, calls, t))

\* Neither a verdict nor a promise.
Mute(r) == ~HasQuota(r.state) /\ r.retryAt = NoTime

ShownInv ==
    /\ \A k \in Accounts : Shown(entries[k].last, entries, inflight, now)
    /\ \A k \in Accounts : OnlyFailuresWait => entries[k].lastGood.retryAt = NoTime
    /\ \A c \in Callers : Shown(res[c], entries, inflight, now)
    /\ \A c \in Callers : Ready(c) /\ pc[c] # "record" =>
                              Shown(box[c], entries, inflight, now)
    /\ \A c \in Callers : pc[c] = "local" => Mute(box[c])
    /\ \A c \in Callers : pc[c] = "record" /\ ~box[c].transient =>
                              (OnlyFailuresWait => box[c].retryAt = NoTime)

LEMMA MuteShown ==
    ASSUME NEW r, Mute(r), NEW es, NEW calls, NEW t \in Nat
    PROVE  Shown(r, es, calls, t)
  BY DEF Mute, Shown, Seen, Told, NoTime

LEMMA NoReadingMute == Mute(NoReading)
  BY DEF Mute, NoReading, HasQuota, QuotaStates, Unset

LEMMA LocalMute ==
    ASSUME NEW l \in Logins, NEW t \in Nat
    PROVE  Mute(LocalReading(l, t))
  BY LocalReadingFacts, LocalReadingPlain DEF Mute

LEMMA FailMute ==
    ASSUME NEW st \in States \ QuotaStates, NEW cause \in Causes
    PROVE  Mute(Fail(st, cause))
  BY FailFacts, FailPlain DEF Mute, HasQuota

\* What was shown stays good: a promise is kept by the gate, and is past when
\* a call is led or recorded.
LEMMA ShownKept ==
    ASSUME TypeOK, CallsInv, OrderInv, [Next]_vars, NEW r \in Readings,
           Shown(r, entries, inflight, now)
    PROVE  Shown(r, entries', inflight', now')
<1>0. /\ entries \in [Accounts -> Entries]
      /\ inflight \in [Accounts -> Callers \cup {NoCaller}]
      /\ now \in Nat /\ r.fetched \in Nat /\ r.retryAt \in Nat
  BY DEF TypeOK, Readings
<1>1. TypeOK'
  BY TypeOKStep
<1>2. now' \in Nat /\ now' >= now
  BY <1>0, NowStep DEF Tick
<1>3. Seen(r, entries')
  <2> SUFFICES ASSUME HasQuota(r.state)
               PROVE  r.account \in Accounts
                        /\ r.fetched <= entries'[r.account].lastGood.fetched
    BY DEF Seen
  <2> DEFINE k == r.account
  <2>1. k \in Accounts /\ r.fetched <= entries[k].lastGood.fetched
    BY DEF Shown, Seen
  <2>2. entries'[k].lastGood.fetched >= entries[k].lastGood.fetched
    BY <2>1, EntriesGrow
  <2>3. entries[k].lastGood.fetched \in Nat /\ entries'[k].lastGood.fetched \in Nat
    BY <1>1, <2>1 DEF TypeOK, Entries, Readings
  <2>4. QED
    BY <1>0, <2>1, <2>2, <2>3
<1>4. ASSUME OnlyFailuresWait, r.account \in Accounts
      PROVE  Told(r, entries', inflight', now')
  <2> DEFINE k == r.account
  <2>1. \/ r.retryAt <= now
        \/ /\ inflight[k] = NoCaller /\ entries[k].slack = 0
           /\ r.retryAt <= entries[k].nextAllowed
    BY <1>4 DEF Shown, Told
  <2>2. entries[k].nextAllowed \in Nat /\ entries[k].slack \in Nat
    BY <1>0, <1>4 DEF Entries
  <2>3. CASE r.retryAt <= now
    BY <1>0, <1>2, <2>3 DEF Told
  <2>4. CASE /\ inflight[k] = NoCaller /\ entries[k].slack = 0
             /\ r.retryAt <= entries[k].nextAllowed
    <3>1. ASSUME NEW c \in Callers, Record(c)
          PROVE  entries'[k] = entries[k] /\ inflight'[k] = inflight[k]
      <4>1. inflight[key[c]] = c
        BY <3>1 DEF Record, At, CallsInv, Probing
      <4>2. key[c] # k
        BY <2>4, <4>1, ClientAssumption
      <4>3. QED
        BY <1>0, <1>4, <3>1, <4>2 DEF Record
    <3>2. ASSUME NEW c \in Callers, Lead(c)
          PROVE  Told(r, entries', inflight', now')
      <4>1. entries' = entries /\ now' = now
        BY <3>2 DEF Lead
      <4>2. CASE key[c] = k
        <5>1. ~(now + entries[k].slack < entries[k].nextAllowed)
          BY <3>2, <4>2 DEF Lead, Gated
        <5>2. r.retryAt <= now
          BY <1>0, <2>2, <2>4, <5>1
        <5>3. QED
          BY <4>1, <5>2 DEF Told
      <4>3. CASE key[c] # k
        <5>1. inflight'[k] = inflight[k]
          BY <1>0, <1>4, <3>2, <4>3 DEF Lead
        <5>2. QED
          BY <2>4, <4>1, <5>1 DEF Told
      <4>4. QED
        BY <4>2, <4>3
    <3>3. CASE entries'[k] = entries[k] /\ inflight'[k] = inflight[k]
      BY <2>4, <3>3 DEF Told
    <3>4. QED
      BY <3>1, <3>2, <3>3, InflightStep, EntriesStep
  <2>5. QED
    BY <2>1, <2>3, <2>4
<1>5. QED
  BY <1>3, <1>4 DEF Shown, Told

\* The last good reading served for r promises what r promised.
LEMMA ServedShown ==
    ASSUME NEW es, NEW calls, NEW t \in Nat, NEW k \in Accounts, es[k] \in Entries,
           es[k].lastGood # NoReading => es[k].lastGood.account = k,
           NEW r \in Readings, Shown(r, es, calls, t),
           r.account = k \/ r.retryAt = NoTime
    PROVE  Shown(StaleOr(es[k], r), es, calls, t)
<1>1. CASE es[k].lastGood = NoReading
  BY <1>1 DEF StaleOr
<1>2. CASE es[k].lastGood # NoReading
  <2> DEFINE g == es[k].lastGood
             s == [g EXCEPT !.stale = TRUE, !.cause = r.cause,
                            !.retryAt = r.retryAt, !.transient = TRUE]
  <2>1. g \in Readings /\ g.account = k /\ g.fetched \in Nat
    BY <1>2 DEF Entries, Readings
  <2>2. StaleOr(es[k], r) = s
    BY <1>2 DEF StaleOr
  <2>3. s.account = k /\ s.fetched = g.fetched /\ s.retryAt = r.retryAt
    BY <2>1 DEF Readings
  <2> HIDE DEF s
  <2>4. Seen(s, es)
    BY <2>1, <2>3 DEF Seen
  <2>5. OnlyFailuresWait => Told(s, es, calls, t)
    BY <2>3 DEF Shown, Told, NoTime
  <2>6. QED
    BY <2>2, <2>4, <2>5 DEF Shown
<1>3. QED
  BY <1>1, <1>2

LEMMA CacheShown ==
    ASSUME NEW es, NEW calls, NEW t \in Nat, NEW k \in Accounts, es[k] \in Entries,
           es[k].lastGood # NoReading => es[k].lastGood.account = k,
           Shown(es[k].last, es, calls, t), es[k].last.account = k
    PROVE  Shown(FromCache(es[k]), es, calls, t)
<1>1. es[k].last \in Readings
  BY DEF Entries
<1>2. QED
  BY <1>1, ServedShown DEF FromCache

\* What record tells of the next attempt is when it opens the gate.
LEMMA RecordedTold ==
    ASSUME NEW e \in Entries, NEW r \in Readings, NEW k \in Accounts, NEW t \in Nat,
           NEW new \in Recorded(e, r, k, t)
    PROVE  /\ r.transient => /\ new.last.retryAt = new.nextAllowed
                             /\ new.slack = 0
           /\ ~r.transient => new.last = r
<1>1. CASE r.transient
  <2>1. PICK w \in Waits(e.failures + 1, r.retryAfter) :
               new = RecordFailure(e, r, k, t, w)
    BY <1>1 DEF Recorded
  <2> DEFINE next == t + FailureWait(r, k, w)
  <2>2. /\ new.last = [r EXCEPT !.retryAt = next] /\ new.nextAllowed = next
        /\ new.slack = 0
    BY <2>1 DEF RecordFailure
  <2> HIDE DEF next
  <2>3. QED
    BY <1>1, <2>2 DEF Readings
<1>2. CASE ~r.transient
  BY <1>2 DEF Recorded, RecordAnswer
<1>3. QED
  BY <1>1, <1>2

\* A recorded reading is shown by the entry it leaves, and by its cache.
LEMMA RecordedShown ==
    ASSUME TypeOK, CallsInv, HonestInv, KeptInv, ShownInv,
           NEW c \in Callers, Record(c)
    PROVE  /\ entries'[key[c]].last.account = key[c]
           /\ Shown(entries'[key[c]].last, entries', inflight', now)
           /\ OnlyFailuresWait => entries'[key[c]].lastGood.retryAt = NoTime
           /\ box'[c] = FromCache(entries'[key[c]])
           /\ Shown(box'[c], entries', inflight', now)
<1> DEFINE k == key[c]
           r == box[c]
<1>1. /\ k \in Accounts /\ entries[k] \in Entries /\ now \in Nat
      /\ r \in Readings /\ r.account = k /\ Explained(r)
      /\ ~r.transient => (OnlyFailuresWait => r.retryAt = NoTime)
  BY InsideType DEF Record, At, Steps, TypeOK, KeptInv, HonestInv, ShownInv
<1>2. PICK e \in Recorded(entries[k], r, k, now) :
        entries' = [entries EXCEPT ![k] = e] /\ box' = [box EXCEPT ![c] = FromCache(e)]
  BY DEF Record
<1>3. entries'[k] = e /\ box'[c] = FromCache(e) /\ inflight'[k] = NoCaller
  BY <1>1, <1>2 DEF Record, TypeOK
<1> HIDE DEF k, r
<1>4. e \in Entries /\ e.last \in Readings /\ e.lastGood \in Readings
  BY <1>1, RecordedType DEF Entries
<1>5. /\ e.last.state = r.state /\ e.last.account = k
      /\ e.last.transient = r.transient /\ e.last.fetched = r.fetched
      /\ e.lastGood = IF ~r.transient /\ HasQuota(r.state) THEN r ELSE entries[k].lastGood
      /\ r.transient => e.last.retryAt = e.nextAllowed /\ e.slack = 0
      /\ ~r.transient => e.last = r
  BY <1>1, RecordedFacts, RecordedTold
<1>6. e.lastGood # NoReading => e.lastGood.account = k
  BY <1>1, <1>5 DEF KeptInv
<1>7. Seen(e.last, entries')
  <2> SUFFICES ASSUME HasQuota(e.last.state)
               PROVE  e.last.account \in Accounts
                        /\ e.last.fetched <= entries'[e.last.account].lastGood.fetched
    BY DEF Seen
  <2>1. ~r.transient
    BY <1>1, <1>5 DEF Explained, Failed
  <2>2. e.lastGood = r /\ r.fetched \in Nat
    BY <1>1, <1>5, <2>1 DEF Readings
  <2>3. QED
    BY <1>1, <1>3, <1>5, <2>2
<1>8. OnlyFailuresWait => Told(e.last, entries', inflight', now)
  <2>1. CASE r.transient
    <3>1. e.nextAllowed \in Nat
      BY <1>4 DEF Entries
    <3>2. QED
      BY <1>3, <1>5, <2>1, <3>1 DEF Told
  <2>2. CASE ~r.transient
    BY <1>1, <1>5, <2>2 DEF Told, NoTime
  <2>3. QED
    BY <2>1, <2>2
<1>9. Shown(entries'[k].last, entries', inflight', now)
  BY <1>3, <1>7, <1>8 DEF Shown
<1>10. OnlyFailuresWait => e.lastGood.retryAt = NoTime
  BY <1>1, <1>5 DEF ShownInv
<1>11. Shown(FromCache(entries'[k]), entries', inflight', now)
  BY <1>1, <1>3, <1>4, <1>5, <1>6, <1>9, CacheShown
<1>12. QED
  BY <1>3, <1>5, <1>9, <1>10, <1>11 DEF k

\* What a step shows one caller.
ShownCaller(d) ==
    /\ Shown(res[d], entries, inflight, now)
    /\ Ready(d) /\ pc[d] # "record" => Shown(box[d], entries, inflight, now)
    /\ pc[d] = "local" => Mute(box[d])
    /\ pc[d] = "record" /\ ~box[d].transient =>
          (OnlyFailuresWait => box[d].retryAt = NoTime)

\* A caller that returns is shown what it returns.
LEMMA ShownReturn ==
    ASSUME NEW d \in Callers, pc'[d] = "idle",
           Shown(res'[d], entries', inflight', now')
    PROVE  ShownCaller(d)'
  BY DEF ShownCaller, Ready

LEMMA ShownCallerStep ==
    ASSUME TypeOK, CallsInv, OrderInv, HonestInv, AnsweredInv, KeptInv, ShownInv,
           [Next]_vars, NEW d \in Callers
    PROVE  ShownCaller(d)'
<1>0. /\ pc \in [Callers -> Steps] /\ box \in [Callers -> Readings]
      /\ res \in [Callers -> Readings] /\ entries \in [Accounts -> Entries]
      /\ login \in [Homes -> Logins] /\ now \in Nat
  BY DEF TypeOK
<1>1. ShownCaller(d)
  BY DEF ShownInv, ShownCaller
<1>2. now' \in Nat
  BY TypeOKStep DEF TypeOK
<1>3. \A r \in Readings : Shown(r, entries, inflight, now)
                            => Shown(r, entries', inflight', now')
  BY ShownKept
<1>4. Shown(res[d], entries', inflight', now')
  BY <1>0, <1>1, <1>3 DEF ShownCaller
<1>5. \A c \in Callers : Ready(c) /\ pc[c] # "record" =>
                            Shown(box[c], entries', inflight', now')
  BY <1>0, <1>3 DEF ShownInv
<1>6. \A r : Mute(r) => Shown(r, entries', inflight', now')
  BY <1>2, MuteShown
<1>7. CASE Stays(d)
  BY <1>1, <1>4, <1>5, <1>7 DEF Stays, Ready, ShownCaller
<1>8. CASE Woken(d)
  BY <1>4, <1>5, <1>8 DEF Woken, Ready, ShownCaller
<1>9. CASE Asks(d)
  <2>1. PICK s \in Homes : CallUsable(d, s) \/ CallExpired(d, s) \/ CallTerminal(d, s)
    BY <1>9 DEF Asks
  <2>2. Mute(LocalReading(login[s], now))
    BY <1>0, LocalMute
  <2>3. CASE CallTerminal(d, s)
    BY <1>0, <1>6, <2>2, <2>3, ShownReturn DEF CallTerminal, Return, Goto
  <2>4. CASE CallExpired(d, s)
    <3>1. pc'[d] = "local" /\ box'[d] = LocalReading(login[s], now) /\ res'[d] = NoReading
      BY <1>0, <2>4 DEF CallExpired, Goto
    <3>2. QED
      BY <1>6, <2>2, <3>1, NoReadingMute DEF ShownCaller
  <2>5. CASE CallUsable(d, s)
    <3>1. pc'[d] = "gate" /\ res'[d] = NoReading
      BY <1>0, <2>5 DEF CallUsable, Goto
    <3>2. QED
      BY <1>6, <3>1, NoReadingMute DEF ShownCaller, Ready
  <2>6. QED
    BY <2>1, <2>3, <2>4, <2>5
<1>10. CASE LocalAnswer(d)
  <2> DEFINE k == key[d]
             r == StaleOr(entries[k], box[d])
  <2>1. k \in Accounts /\ entries[k] \in Entries /\ box[d] \in Readings
    BY <1>0, <1>10, InsideType DEF LocalAnswer, Steps
  <2>2. Mute(box[d])
    BY <1>1, <1>10 DEF LocalAnswer, At, ShownCaller
  <2>3. Shown(box[d], entries, inflight, now)
    BY <1>0, <2>2, MuteShown
  <2>4. entries[k].lastGood # NoReading => entries[k].lastGood.account = k
    BY <2>1 DEF KeptInv
  <2>5. Shown(r, entries, inflight, now)
    BY <1>0, <2>1, <2>2, <2>3, <2>4, ServedShown DEF Mute
  <2>6. r \in Readings
    BY <2>1, FromCacheType
  <2>7. pc'[d] = "idle" /\ res'[d] = r
    BY <1>0, <1>10 DEF LocalAnswer, Return, Goto
  <2> HIDE DEF r
  <2>8. QED
    BY <1>3, <2>5, <2>6, <2>7, ShownReturn
<1>11. CASE Cached(d)
  <2> DEFINE k == key[d]
             r == FromCache(entries[k])
  <2>1. k \in Accounts /\ entries[k] \in Entries
    BY <1>11, InsideType DEF Cached, Steps
  <2>2. entries[k].nextAllowed # NoTime
    <3>1. entries[k].slack \in Nat
      BY <2>1 DEF Entries
    <3>2. QED
      BY <1>0, <1>11, <3>1 DEF Cached, Gated, NoTime
  <2>3. /\ entries[k].last.account = k
        /\ entries[k].lastGood # NoReading => entries[k].lastGood.account = k
    BY <2>1, <2>2 DEF KeptInv, AnsweredInv
  <2>4. Shown(entries[k].last, entries, inflight, now)
    BY <2>1 DEF ShownInv
  <2>5. Shown(r, entries, inflight, now)
    BY <1>0, <2>1, <2>3, <2>4, CacheShown
  <2>6. r \in Readings
    BY <2>1, FromCacheType
  <2>7. pc'[d] = "idle" /\ res'[d] = r
    BY <1>0, <1>11 DEF Cached, Return, Goto
  <2> HIDE DEF r
  <2>8. QED
    BY <1>3, <2>5, <2>6, <2>7, ShownReturn
<1>12. CASE Hook(d) \/ WaitDone(d)
  <2>1. Ready(d) /\ pc[d] # "record"
    BY <1>12 DEF Hook, WaitDone, At, Ready
  <2>2. pc'[d] = "idle" /\ res'[d] = box[d]
    BY <1>0, <1>12 DEF Hook, WaitDone, Return, Goto
  <2>3. QED
    BY <1>5, <2>1, <2>2, ShownReturn
<1>13. CASE WaitTimeout(d)
  <2> DEFINE f == Fail("error", "timeout")
  <2>1. Mute(f) /\ f \in Readings
    BY FailMute, FailType DEF States, QuotaStates, Causes
  <2> HIDE DEF f
  <2>2. Mute([f EXCEPT !.account = key[d]])
    BY <2>1 DEF Mute, Readings
  <2>3. pc'[d] = "idle" /\ res'[d] = [f EXCEPT !.account = key[d]]
    BY <1>0, <1>13 DEF WaitTimeout, Return, Goto, f
  <2>4. QED
    BY <1>6, <2>2, <2>3, ShownReturn
<1>14. CASE Join(d) \/ Lead(d) \/ ProbeIdentify(d)
  <2>1. ~Ready(d)' /\ pc'[d] \notin {"local", "record"}
    <3>1. CASE Join(d)
      <4>1. /\ pc'[d] = "wait" /\ cl'[d] = inflight[key[d]]
            /\ inflight[key[d]] # NoCaller
        BY <1>0, <3>1 DEF Join, Goto, TypeOK
      <4>2. QED
        BY <4>1 DEF Ready
    <3>2. CASE Lead(d) \/ ProbeIdentify(d)
      BY <1>0, <3>2 DEF Lead, ProbeIdentify, Goto, Ready
    <3>3. QED
      BY <1>14, <3>1, <3>2
  <2>2. res'[d] = res[d]
    BY <1>14 DEF Join, Lead, ProbeIdentify
  <2>3. QED
    BY <1>4, <2>1, <2>2 DEF ShownCaller
<1>15. CASE ProbeUnasked(d)
  <2>1. login[src[d]] \in Logins
    BY <1>15, InsideType DEF ProbeUnasked, Steps
  <2>2. PICK r \in UnaskedReadings(login[src[d]]) : box' = [box EXCEPT ![d] = r]
    BY <1>15 DEF ProbeUnasked
  <2>3. Mute(r)
    BY <1>0, <2>1, <2>2, UnaskedFacts DEF Mute
  <2>4. pc'[d] = "record" /\ res'[d] = res[d] /\ box'[d] = r
    BY <1>0, <1>15, <2>2 DEF ProbeUnasked, Goto
  <2>5. QED
    BY <1>4, <2>3, <2>4 DEF ShownCaller, Mute
<1>16. CASE Fetch(d)
  <2>1. PICK r \in Answers : box' = [box EXCEPT ![d] = Finish(r, ident[d], now)]
    BY <1>16 DEF Fetch
  <2>2. r \in Readings /\ r.retryAt = NoTime
    BY AnswersAssumption DEF IsAnswer
  <2>3. /\ pc'[d] = "record" /\ res'[d] = res[d]
        /\ box'[d] = Finish(r, ident[d], now)
    BY <1>0, <1>16, <2>1 DEF Fetch, Goto
  <2>4. box'[d].transient = r.transient
    BY <2>2, <2>3, FinishFacts
  <2>5. r.retryAfter = 0 => box'[d].retryAt = NoTime
    BY <2>2, <2>3, FinishPlain
  <2>6. QED
    BY <1>4, <2>3, <2>4, <2>5 DEF ShownCaller, OnlyFailuresWait
<1>17. CASE Abort(d)
  <2> DEFINE f == Fail("error", "network")
  <2>1. f \in Readings /\ f.retryAt = NoTime /\ f.retryAfter = 0
    BY FailType, FailPlain DEF States, Causes
  <2>2. pc'[d] = "record" /\ res'[d] = res[d] /\ box'[d] = Finish(f, ident[d], now)
    BY <1>0, <1>17 DEF Abort, Goto
  <2> HIDE DEF f
  <2>3. box'[d].retryAt = NoTime
    BY <2>1, <2>2, FinishPlain
  <2>4. QED
    BY <1>4, <2>2, <2>3 DEF ShownCaller
<1>18. CASE Record(d)
  <2>1. Shown(box'[d], entries', inflight', now)
    BY <1>18, RecordedShown
  <2>2. pc'[d] = "close" /\ res'[d] = res[d] /\ now' = now
    BY <1>0, <1>18 DEF Record, Goto
  <2>3. QED
    BY <1>4, <2>1, <2>2 DEF ShownCaller
<1>19. CASE Close(d)
  <2>1. pc[d] = "close" /\ pc'[d] = "hook" /\ res'[d] = res[d]
    BY <1>0, <1>19 DEF Close, Goto, At
  <2>2. cl[d] # d
    BY <2>1, ClientAssumption DEF CallsInv
  <2>3. box'[d] = box[d]
    BY <1>19, <2>2 DEF Close
  <2>4. Shown(box[d], entries', inflight', now')
    BY <1>5, <2>1 DEF Ready
  <2>5. QED
    BY <1>4, <2>1, <2>3, <2>4 DEF ShownCaller
<1>20. QED
  BY <1>7, <1>8, <1>9, <1>10, <1>11, <1>12, <1>13, <1>14, <1>15, <1>16, <1>17, <1>18,
     <1>19, CallerStep DEF Continue

LEMMA ShownInvStep ==
    ASSUME TypeOK, CallsInv, OrderInv, HonestInv, AnsweredInv, KeptInv, ShownInv,
           [Next]_vars
    PROVE  ShownInv'
<1>1. ASSUME NEW k \in Accounts
      PROVE  /\ Shown(entries'[k].last, entries', inflight', now')
             /\ OnlyFailuresWait => entries'[k].lastGood.retryAt = NoTime
  <2>1. CASE entries'[k] = entries[k]
    <3>1. entries[k].last \in Readings
      BY DEF TypeOK, Entries
    <3>2. Shown(entries[k].last, entries, inflight, now)
      BY DEF ShownInv
    <3>3. QED
      BY <2>1, <3>1, <3>2, ShownKept DEF ShownInv
  <2>2. ASSUME NEW c \in Callers, Record(c), key[c] = k
        PROVE  /\ Shown(entries'[k].last, entries', inflight', now')
               /\ OnlyFailuresWait => entries'[k].lastGood.retryAt = NoTime
    <3>1. now' = now
      BY <2>2 DEF Record
    <3>2. QED
      BY <2>2, <3>1, RecordedShown
  <2>3. ASSUME NEW c \in Callers, Record(c), key[c] # k
        PROVE  entries'[k] = entries[k]
    BY <2>3 DEF Record, TypeOK
  <2>4. QED
    BY <2>1, <2>2, <2>3, EntriesStep
<1>2. \A d \in Callers : ShownCaller(d)'
  BY ShownCallerStep
<1>3. QED
  BY <1>1, <1>2 DEF ShownInv, ShownCaller

\* What anyone holds is no newer than the cache, and no promise is broken yet.
THEOREM ShownInvariant == HomesKeepAccounts => (Spec => []ShownInv)
<1> SUFFICES ASSUME HomesKeepAccounts
             PROVE  Spec => []ShownInv
  OBVIOUS
<1>1. Init => ShownInv
  <2>1. /\ NoEntry.last = NoReading /\ NoEntry.lastGood = NoReading
        /\ NoReading.retryAt = NoTime
    BY DEF NoEntry, NoReading
  <2>2. ASSUME Init
        PROVE  Shown(NoReading, entries, inflight, now)
    BY <2>2, NoReadingMute, MuteShown DEF Init
  <2>3. QED
    BY <2>1, <2>2 DEF Init, ShownInv, Ready
<1>2. Spec => [](TypeOK /\ CallsInv /\ OrderInv /\ HonestInv /\ AnsweredInv /\ KeptInv)
  BY TypeCorrect, CallsInvariant, OrderInvariant, HonestInvariant, AnsweredInvariant,
     KeptInvariant, PTL
<1>3. /\ TypeOK /\ CallsInv /\ OrderInv /\ HonestInv /\ AnsweredInv /\ KeptInv
      /\ ShownInv /\ [Next]_vars
      => ShownInv'
  BY ShownInvStep
<1>4. QED
  BY <1>1, <1>2, <1>3, PTL DEF Spec

\* Where every home keeps its account, no caller holds a verdict newer than the
\* account's last good reading: whoever asks later is never answered from the
\* cache with an older one than anyone has already seen.
THEOREM NeverAheadOfCacheHolds == HomesKeepAccounts => (Spec => []NeverAheadOfCache)
<1>1. ShownInv => NeverAheadOfCache
  BY DEF ShownInv, Shown, Seen, NeverAheadOfCache
<1>2. QED
  BY <1>1, ShownInvariant, PTL

\* Where every home keeps its account and only failures carry a Retry-After,
\* nobody leads a call before the next attempt anyone was told of (RetryAt,
\* reading.go:174).
THEOREM RetryAtKeptHolds ==
    HomesKeepAccounts /\ OnlyFailuresWait => (Spec => RetryAtKept)
<1> SUFFICES ASSUME HomesKeepAccounts, OnlyFailuresWait
             PROVE  Spec => RetryAtKept
  OBVIOUS
<1> DEFINE Kept(k) == inflight[k] = NoCaller /\ inflight'[k] # NoCaller =>
                        \A c \in Callers : res[c].account = k => now >= res[c].retryAt
<1>1. TypeOK /\ ShownInv /\ [Next]_vars => [\A k \in Accounts : Kept(k)]_vars
  <2> SUFFICES ASSUME TypeOK, ShownInv, [Next]_vars,
                      NEW k \in Accounts, inflight[k] = NoCaller, inflight'[k] # NoCaller,
                      NEW d \in Callers, res[d].account = k
               PROVE  now >= res[d].retryAt
    BY DEF vars, clientVars
  <2>0. /\ now \in Nat /\ entries[k].nextAllowed \in Nat /\ entries[k].slack \in Nat
        /\ res[d].retryAt \in Nat
        /\ inflight \in [Accounts -> Callers \cup {NoCaller}]
    BY DEF TypeOK, Entries, Readings
  <2>1. PICK c \in Callers : Lead(c) \/ Record(c)
    BY InflightStep
  <2>2. ~Record(c)
    BY <2>0 DEF Record
  <2>3. key[c] = k
    BY <2>0, <2>1, <2>2 DEF Lead
  <2>4. ~(now + entries[k].slack < entries[k].nextAllowed)
    BY <2>1, <2>2, <2>3 DEF Lead, Gated
  <2>5. Told(res[d], entries, inflight, now)
    BY DEF ShownInv, Shown
  <2>6. QED
    BY <2>0, <2>4, <2>5 DEF Told
<1>2. QED
  BY <1>1, TypeCorrect, ShownInvariant, PTL DEF Spec, RetryAtKept

-----------------------------------------------------------------------------
(***************************************************************************)
(* The counters.  A call that asks is counted when its leader records it   *)
(* and reported when the leader returns: between these points an account's *)
(* counters differ by no more than its leaders that are between them.      *)
(***************************************************************************)
AtWork(k, steps) == {c \in Callers : key[c] = k /\ pc[c] \in steps}

Uncounted(k)  == AtWork(k, {"fetch", "record"})
Unreported(k) == AtWork(k, {"close", "hook"})

CountsInv ==
    \A k \in Accounts :
        /\ IsFiniteSet(Uncounted(k))
        /\ requests[k] <= upstream[k] + Cardinality(Uncounted(k))
        /\ IsFiniteSet(Unreported(k))
        /\ upstream[k] = reported[k] + Cardinality(Unreported(k))

\* How one caller's move changes the leaders of an account at work.
LEMMA AtWorkMoves ==
    ASSUME NEW c \in Callers,
           \A d \in Callers \ {c} : pc'[d] = pc[d] /\ key'[d] = key[d],
           NEW k \in Accounts, NEW steps, IsFiniteSet(AtWork(k, steps))
    PROVE  /\ (c \in AtWork(k, steps) <=> c \in AtWork(k, steps)') =>
                AtWork(k, steps)' = AtWork(k, steps)
           /\ c \notin AtWork(k, steps) /\ c \in AtWork(k, steps)' =>
                /\ IsFiniteSet(AtWork(k, steps)')
                /\ Cardinality(AtWork(k, steps)') = Cardinality(AtWork(k, steps)) + 1
           /\ c \in AtWork(k, steps) /\ c \notin AtWork(k, steps)' =>
                /\ IsFiniteSet(AtWork(k, steps)')
                /\ Cardinality(AtWork(k, steps)') = Cardinality(AtWork(k, steps)) - 1
<1>1. ASSUME c \in AtWork(k, steps) <=> c \in AtWork(k, steps)'
      PROVE  AtWork(k, steps)' = AtWork(k, steps)
  BY <1>1 DEF AtWork
<1>2. ASSUME c \notin AtWork(k, steps), c \in AtWork(k, steps)'
      PROVE  /\ IsFiniteSet(AtWork(k, steps)')
             /\ Cardinality(AtWork(k, steps)') = Cardinality(AtWork(k, steps)) + 1
  <2>1. AtWork(k, steps)' = AtWork(k, steps) \cup {c}
    BY <1>2 DEF AtWork
  <2>2. QED
    BY <1>2, <2>1, FS_AddElement
<1>3. ASSUME c \in AtWork(k, steps), c \notin AtWork(k, steps)'
      PROVE  /\ IsFiniteSet(AtWork(k, steps)')
             /\ Cardinality(AtWork(k, steps)') = Cardinality(AtWork(k, steps)) - 1
  <2>1. AtWork(k, steps)' = AtWork(k, steps) \ {c}
    BY <1>3 DEF AtWork
  <2>2. QED
    BY <1>3, <2>1, FS_RemoveElement
<1>4. QED
  BY <1>1, <1>2, <1>3

\* The steps that move an account's counters, and those that do not.
LEMMA CountsStep ==
    ASSUME TypeOK, CallsInv, CountsInv, [Next]_vars
    PROVE  CountsInv'
<1> DEFINE Goal(k) ==
             /\ IsFiniteSet(Uncounted(k)')
             /\ requests'[k] <= upstream'[k] + Cardinality(Uncounted(k)')
             /\ IsFiniteSet(Unreported(k)')
             /\ upstream'[k] = reported'[k] + Cardinality(Unreported(k)')
<1> SUFFICES ASSUME NEW k \in Accounts
             PROVE  Goal(k)
  BY DEF CountsInv, Uncounted, Unreported, AtWork
<1>0. /\ pc \in [Callers -> Steps]
      /\ requests \in [Accounts -> Nat] /\ upstream \in [Accounts -> Nat]
      /\ reported \in [Accounts -> Nat]
      /\ \A c \in Callers : pc[c] # "idle" => key[c] \in Accounts
  BY DEF TypeOK
<1>1. /\ IsFiniteSet(Uncounted(k)) /\ IsFiniteSet(Unreported(k))
      /\ requests[k] <= upstream[k] + Cardinality(Uncounted(k))
      /\ upstream[k] = reported[k] + Cardinality(Unreported(k))
      /\ Cardinality(Uncounted(k)) \in Nat /\ Cardinality(Unreported(k)) \in Nat
      /\ requests[k] \in Nat /\ upstream[k] \in Nat /\ reported[k] \in Nat
  BY <1>0, FS_CardinalityType DEF CountsInv
<1>2. ASSUME UNCHANGED <<pc, key, requests, upstream, reported>>
      PROVE  Goal(k)
  BY <1>1, <1>2 DEF Uncounted, Unreported, AtWork
<1>3. ASSUME NEW c \in Callers, Asks(c) \/ Continue(c)
      PROVE  Goal(k)
  <2>1. \A d \in Callers \ {c} : pc'[d] = pc[d] /\ key'[d] = key[d]
    BY <1>3, OtherStep DEF Stays, Woken
  <2>2. /\ (c \in Uncounted(k) <=> c \in Uncounted(k)') => Uncounted(k)' = Uncounted(k)
        /\ c \notin Uncounted(k) /\ c \in Uncounted(k)' =>
             /\ IsFiniteSet(Uncounted(k)')
             /\ Cardinality(Uncounted(k)') = Cardinality(Uncounted(k)) + 1
        /\ c \in Uncounted(k) /\ c \notin Uncounted(k)' =>
             /\ IsFiniteSet(Uncounted(k)')
             /\ Cardinality(Uncounted(k)') = Cardinality(Uncounted(k)) - 1
    BY <1>1, <2>1, AtWorkMoves DEF Uncounted
  <2>3. /\ (c \in Unreported(k) <=> c \in Unreported(k)') => Unreported(k)' = Unreported(k)
        /\ c \notin Unreported(k) /\ c \in Unreported(k)' =>
             /\ IsFiniteSet(Unreported(k)')
             /\ Cardinality(Unreported(k)') = Cardinality(Unreported(k)) + 1
        /\ c \in Unreported(k) /\ c \notin Unreported(k)' =>
             /\ IsFiniteSet(Unreported(k)')
             /\ Cardinality(Unreported(k)') = Cardinality(Unreported(k)) - 1
    BY <1>1, <2>1, AtWorkMoves DEF Unreported
  <2>4. /\ c \in Uncounted(k) <=> key[c] = k /\ pc[c] \in {"fetch", "record"}
        /\ c \in Uncounted(k)' <=> key'[c] = k /\ pc'[c] \in {"fetch", "record"}
        /\ c \in Unreported(k) <=> key[c] = k /\ pc[c] \in {"close", "hook"}
        /\ c \in Unreported(k)' <=> key'[c] = k /\ pc'[c] \in {"close", "hook"}
    BY DEF Uncounted, Unreported, AtWork
  <2> HIDE DEF Uncounted, Unreported
  <2>5. ASSUME UNCHANGED <<requests, upstream, reported>>,
               c \in Uncounted(k) <=> c \in Uncounted(k)',
               c \in Unreported(k) <=> c \in Unreported(k)'
        PROVE  Goal(k)
    BY <1>1, <2>2, <2>3, <2>5
  <2>6. ASSUME NEW s \in Homes, CallUsable(c, s) \/ CallExpired(c, s) \/ CallTerminal(c, s)
        PROVE  Goal(k)
    <3>1. /\ pc[c] = "idle" /\ pc'[c] \in {"idle", "gate", "local"}
          /\ UNCHANGED <<requests, upstream, reported>>
      BY <1>0, <2>6
      DEF CallUsable, CallExpired, CallTerminal, Return, Goto, At, clientVars, worldVars
    <3>2. QED
      BY <2>4, <2>5, <3>1
  <2>7. CASE LocalAnswer(c) \/ Cached(c) \/ WaitDone(c) \/ WaitTimeout(c)
    <3>1. /\ pc[c] \in {"local", "gate", "wait"} /\ pc'[c] = "idle"
          /\ UNCHANGED <<requests, upstream, reported>>
      BY <1>0, <2>7
      DEF LocalAnswer, Cached, WaitDone, WaitTimeout, Return, Goto, At, clientVars, worldVars
    <3>2. QED
      BY <2>4, <2>5, <3>1
  <2>8. CASE Join(c) \/ Lead(c)
    <3>1. /\ pc[c] = "gate" /\ pc'[c] \in {"wait", "identify"}
          /\ UNCHANGED <<requests, upstream, reported>>
      BY <1>0, <2>8 DEF Join, Lead, Goto, At, clientVars, worldVars
    <3>2. QED
      BY <2>4, <2>5, <3>1
  <2>9. CASE Fetch(c) \/ Abort(c)
    <3>1. /\ pc[c] = "fetch" /\ pc'[c] = "record" /\ key'[c] = key[c]
          /\ UNCHANGED <<requests, upstream, reported>>
      BY <1>0, <2>9 DEF Fetch, Abort, Goto, At, clientVars, worldVars
    <3>2. QED
      BY <2>4, <2>5, <3>1
  <2>10. CASE Close(c)
    <3>1. /\ pc[c] = "close" /\ pc'[c] = "hook" /\ key'[c] = key[c]
          /\ UNCHANGED <<requests, upstream, reported>>
      BY <1>0, <2>10 DEF Close, Goto, At, clientVars, worldVars
    <3>2. QED
      BY <2>4, <2>5, <3>1
  <2>11. CASE ProbeIdentify(c)
    <3>1. /\ pc[c] = "identify" /\ pc'[c] = "fetch" /\ key'[c] = key[c]
          /\ requests' = [requests EXCEPT ![key[c]] = @ + 1]
          /\ UNCHANGED <<upstream, reported>>
      BY <1>0, <2>11 DEF ProbeIdentify, Goto, At, clientVars
    <3>2. CASE key[c] = k
      <4>1. requests'[k] = requests[k] + 1
        BY <1>0, <3>1, <3>2
      <4>2. QED
        BY <1>1, <2>2, <2>3, <2>4, <3>1, <3>2, <4>1
    <3>3. CASE key[c] # k
      <4>1. requests'[k] = requests[k]
        BY <1>0, <3>1, <3>3
      <4>2. QED
        BY <1>1, <2>2, <2>3, <2>4, <3>1, <3>3, <4>1
    <3>4. QED
      BY <3>2, <3>3
  <2>12. CASE ProbeUnasked(c)
    <3>1. /\ pc[c] = "identify" /\ pc'[c] = "record" /\ key'[c] = key[c]
          /\ UNCHANGED <<requests, upstream, reported>>
      BY <1>0, <2>12 DEF ProbeUnasked, Goto, At, clientVars, worldVars
    <3>2. QED
      BY <1>1, <2>2, <2>3, <2>4, <3>1
  <2>13. CASE Record(c)
    <3>1. /\ pc[c] = "record" /\ pc'[c] = "close" /\ key'[c] = key[c]
          /\ upstream' = [upstream EXCEPT ![key[c]] = @ + 1]
          /\ UNCHANGED <<requests, reported>>
      BY <1>0, <2>13 DEF Record, Goto, At, worldVars
    <3>2. CASE key[c] = k
      <4>1. upstream'[k] = upstream[k] + 1
        BY <1>0, <3>1, <3>2
      <4>2. QED
        BY <1>1, <2>2, <2>3, <2>4, <3>1, <3>2, <4>1
    <3>3. CASE key[c] # k
      <4>1. upstream'[k] = upstream[k]
        BY <1>0, <3>1, <3>3
      <4>2. QED
        BY <1>1, <2>2, <2>3, <2>4, <3>1, <3>3, <4>1
    <3>4. QED
      BY <3>2, <3>3
  <2>14. CASE Hook(c)
    <3>1. /\ pc[c] = "hook" /\ pc'[c] = "idle"
          /\ reported' = [reported EXCEPT ![key[c]] = @ + 1]
          /\ UNCHANGED <<requests, upstream>>
      BY <1>0, <2>14 DEF Hook, Return, Goto, At, worldVars
    <3>2. CASE key[c] = k
      <4>1. reported'[k] = reported[k] + 1
        BY <1>0, <3>1, <3>2
      <4>2. QED
        BY <1>1, <2>2, <2>3, <2>4, <3>1, <3>2, <4>1
    <3>3. CASE key[c] # k
      <4>1. reported'[k] = reported[k]
        BY <1>0, <3>1, <3>3
      <4>2. QED
        BY <1>1, <2>2, <2>3, <2>4, <3>1, <3>3, <4>1
    <3>4. QED
      BY <3>2, <3>3
  <2>15. QED
    BY <1>3, <2>6, <2>7, <2>8, <2>9, <2>10, <2>11, <2>12, <2>13, <2>14
    DEF Asks, Continue
<1>4. ASSUME NEW c \in Callers, Cancel(c)
      PROVE  UNCHANGED <<pc, key, requests, upstream, reported>>
  BY <1>4 DEF Cancel, clientVars, worldVars
<1>5. ASSUME NEW s \in Homes, Relogin(s)
      PROVE  UNCHANGED <<pc, key, requests, upstream, reported>>
  BY <1>5 DEF Relogin, callerVars, clientVars
<1>6. CASE Tick
  BY <1>2, <1>6 DEF Tick, callerVars, clientVars, worldVars
<1>7. CASE UNCHANGED vars
  BY <1>2, <1>7 DEF vars, callerVars, clientVars, worldVars
<1>8. QED
  BY <1>2, <1>3, <1>4, <1>5, <1>6, <1>7 DEF Next, Asks

\* Once Get has returned to everyone, no request is missing from the upstream
\* counter and the OnUpstream hook was called as often as was counted, however many
\* callers joined, gave up or failed and whatever CLIs wrote (client.go:49-52).
THEOREM EveryRequestCountedHolds == Spec => []EveryRequestCounted
<1>1. Init => CountsInv
  <2> SUFFICES ASSUME Init, NEW k \in Accounts
               PROVE  /\ IsFiniteSet(Uncounted(k))
                      /\ requests[k] <= upstream[k] + Cardinality(Uncounted(k))
                      /\ IsFiniteSet(Unreported(k))
                      /\ upstream[k] = reported[k] + Cardinality(Unreported(k))
    BY DEF CountsInv
  <2>1. Uncounted(k) = {} /\ Unreported(k) = {}
    BY DEF Init, Uncounted, Unreported, AtWork
  <2>2. IsFiniteSet({}) /\ Cardinality({}) = 0
    BY FS_EmptySet
  <2>3. QED
    BY <2>1, <2>2 DEF Init
<1>2. TypeOK /\ CallsInv /\ CountsInv /\ [Next]_vars => CountsInv'
  BY CountsStep
<1>3. CountsInv /\ TypeOK => EveryRequestCounted
  <2> SUFFICES ASSUME CountsInv, TypeOK, \A c \in Callers : pc[c] = "idle",
                      NEW k \in Accounts
               PROVE  requests[k] <= upstream[k] /\ upstream[k] = reported[k]
    BY DEF EveryRequestCounted
  <2>1. Uncounted(k) = {} /\ Unreported(k) = {}
    BY DEF Uncounted, Unreported, AtWork
  <2>2. Cardinality({}) = 0
    BY FS_EmptySet
  <2>3. upstream[k] \in Nat /\ reported[k] \in Nat
    BY DEF TypeOK
  <2>4. QED
    BY <2>1, <2>2, <2>3 DEF CountsInv
<1>4. QED
  BY <1>1, <1>2, <1>3, TypeCorrect, CallsInvariant, PTL DEF Spec
=============================================================================
