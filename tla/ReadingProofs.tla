----------------------------- MODULE ReadingProofs -----------------------------
(***************************************************************************)
(* Lemmas about the operators that make a Reading: their types, and the    *)
(* fields they set and keep.                                               *)
(***************************************************************************)
EXTENDS Reading, TLAPS

LEMMA NoReadingType == NoReading \in Readings
  BY DEF NoReading, Readings, NoTime, Causes

LEMMA FailType ==
    ASSUME NEW st \in States, NEW cause \in Causes
    PROVE  /\ Fail(st, cause) \in Readings
           /\ \A b \in BOOLEAN : [Fail(st, cause) EXCEPT !.transient = b] \in Readings
<1> DEFINE r(b) == [NoReading EXCEPT !.state = st, !.cause = cause, !.transient = b]
           transient == st \in {"rate_limited", "error"}
<1>1. r(TRUE) \in Readings /\ r(FALSE) \in Readings
  BY NoReadingType DEF Readings
<1>2. Fail(st, cause) = r(transient)
  BY DEF Fail
<1>3. transient = TRUE \/ transient = FALSE
  OBVIOUS
<1>4. r(transient) \in Readings
  BY <1>1, <1>3, Zenon
<1>5. Fail(st, cause) \in Readings
  BY <1>2, <1>4
<1>6. QED
  BY <1>5 DEF Readings

LEMMA FinishType ==
    ASSUME NEW r \in Readings, NEW a \in Accounts \cup {NoAccount}, NEW t \in Nat
    PROVE  Finish(r, a, t) \in Readings
<1> DEFINE at == IF r.fetched = NoTime THEN t ELSE r.fetched
           account == IF r.account = NoAccount THEN a ELSE r.account
           retryAt == IF r.retryAt = NoTime /\ r.retryAfter > 0
                      THEN at + r.retryAfter ELSE r.retryAt
<1>1. /\ r.fetched \in Nat /\ r.retryAfter \in Nat /\ r.retryAt \in Nat
      /\ r.account \in Accounts \cup {NoAccount}
  BY DEF Readings
<1>2. at \in Nat
  BY <1>1
<1>3. account \in Accounts \cup {NoAccount}
  BY <1>1
<1>4. retryAt \in Nat
  BY <1>1, <1>2
<1>5. Finish(r, a, t) = [r EXCEPT !.account = account, !.fetched = at,
                                  !.retryAt = retryAt]
  BY DEF Finish
<1> HIDE DEF at, account, retryAt
<1>6. QED
  BY <1>2, <1>3, <1>4, <1>5 DEF Readings

LEMMA LocalReadingType ==
    ASSUME NEW l \in Logins, NEW t \in Nat
    PROVE  LocalReading(l, t) \in Readings
<1> DEFINE st == IF l.verdict \in UnsupportedLogins THEN "unsupported"
                                                    ELSE "auth_required"
           r(b) == [Fail(st, l.verdict) EXCEPT !.transient = b]
           expired == l.verdict = "token_expired"
<1>1. /\ l.account \in Accounts \cup {NoAccount}
      /\ l.verdict \in Causes
  BY DEF Logins, Causes
<1>2. st \in States
  BY DEF States, QuotaStates
<1>3. r(TRUE) \in Readings /\ r(FALSE) \in Readings
  BY <1>1, <1>2, FailType
<1>4. expired = TRUE \/ expired = FALSE
  OBVIOUS
<1>5. r(expired) \in Readings
  BY <1>3, <1>4, Zenon
<1>6. Finish(r(expired), l.account, t) \in Readings
  BY <1>1, <1>5, FinishType
<1>7. QED
  BY <1>6 DEF LocalReading

LEMMA FinishFacts ==
    ASSUME NEW r \in Readings, NEW a, NEW t
    PROVE  /\ Finish(r, a, t).state = r.state
           /\ Finish(r, a, t).cause = r.cause
           /\ Finish(r, a, t).stale = r.stale
           /\ Finish(r, a, t).transient = r.transient
           /\ Finish(r, a, t).retryAfter = r.retryAfter
           /\ r.fetched = NoTime => Finish(r, a, t).fetched = t
           /\ r.account = NoAccount => Finish(r, a, t).account = a
  BY DEF Finish, Readings

LEMMA FailFacts ==
    ASSUME NEW st \in States, NEW cause \in Causes
    PROVE  /\ Fail(st, cause).state = st
           /\ Fail(st, cause).cause = cause
           /\ Fail(st, cause).fetched = NoTime
  BY DEF Fail, NoReading

LEMMA LocalReadingFacts ==
    ASSUME NEW l \in Logins, NEW t \in Nat
    PROVE  /\ LocalReading(l, t).fetched = t
           /\ LocalReading(l, t).state \in States
           /\ ~HasQuota(LocalReading(l, t).state)
           /\ LocalReading(l, t).cause # Unset
<1> DEFINE st == IF l.verdict \in UnsupportedLogins THEN "unsupported"
                                                    ELSE "auth_required"
           f == Fail(st, l.verdict)
           expired == l.verdict = "token_expired"
           r == [f EXCEPT !.transient = expired]
<1>1. l.verdict \in Causes /\ l.verdict # Unset
  BY DEF Logins, Causes, Verdicts, Unset
<1>2. st \in States /\ ~HasQuota(st)
  BY DEF States, QuotaStates, HasQuota
<1> HIDE DEF st
<1>3. f.state = st /\ f.cause = l.verdict /\ f.fetched = NoTime /\ f \in Readings
  BY <1>1, <1>2, FailFacts, FailType
<1>4. [f EXCEPT !.transient = TRUE] \in Readings /\ [f EXCEPT !.transient = FALSE] \in Readings
  BY <1>1, <1>2, FailType
<1>5. expired = TRUE \/ expired = FALSE
  OBVIOUS
<1>6. r \in Readings
  BY <1>4, <1>5, Zenon
<1> HIDE DEF f, expired
<1>7. r.state = st /\ r.cause = l.verdict /\ r.fetched = NoTime
  BY <1>3 DEF Readings
<1>8. LocalReading(l, t) = Finish(r, l.account, t)
  BY DEF LocalReading, r, f, st, expired
<1> HIDE DEF r
<1>9. /\ Finish(r, l.account, t).state = st
      /\ Finish(r, l.account, t).cause = l.verdict
      /\ Finish(r, l.account, t).fetched = t
  BY <1>6, <1>7, FinishFacts
<1>10. QED
  BY <1>1, <1>2, <1>8, <1>9

LEMMA FailPlain ==
    ASSUME NEW st \in States, NEW cause \in Causes
    PROVE  /\ Fail(st, cause).retryAt = NoTime
           /\ Fail(st, cause).retryAfter = 0
           /\ Fail(st, cause).account = NoAccount
  BY DEF Fail, NoReading

\* Without a Retry-After, finish tells of no next attempt.
LEMMA FinishPlain ==
    ASSUME NEW r \in Readings, NEW a, NEW t, r.retryAt = NoTime, r.retryAfter = 0
    PROVE  Finish(r, a, t).retryAt = NoTime
  BY DEF Finish, Readings

\* A local answer is the login's account's, and tells of no next attempt.
LEMMA LocalReadingPlain ==
    ASSUME NEW l \in Logins, NEW t \in Nat
    PROVE  /\ LocalReading(l, t).account = l.account
           /\ LocalReading(l, t).retryAt = NoTime
<1> DEFINE st == IF l.verdict \in UnsupportedLogins THEN "unsupported"
                                                    ELSE "auth_required"
           f == Fail(st, l.verdict)
           expired == l.verdict = "token_expired"
           r == [f EXCEPT !.transient = expired]
<1>1. l.verdict \in Causes
  BY DEF Logins, Causes
<1>2. st \in States
  BY DEF States, QuotaStates
<1> HIDE DEF st
<1>3. f.retryAt = NoTime /\ f.retryAfter = 0 /\ f.account = NoAccount /\ f \in Readings
  BY <1>1, <1>2, FailPlain, FailType
<1>4. [f EXCEPT !.transient = TRUE] \in Readings /\ [f EXCEPT !.transient = FALSE] \in Readings
  BY <1>1, <1>2, FailType
<1>5. expired = TRUE \/ expired = FALSE
  OBVIOUS
<1>6. r \in Readings
  BY <1>4, <1>5, Zenon
<1> HIDE DEF f, expired
<1>7. r.retryAt = NoTime /\ r.retryAfter = 0 /\ r.account = NoAccount
  BY <1>3 DEF Readings
<1>8. LocalReading(l, t) = Finish(r, l.account, t)
  BY DEF LocalReading, r, f, st, expired
<1> HIDE DEF r
<1>9. /\ Finish(r, l.account, t).account = l.account
      /\ Finish(r, l.account, t).retryAt = NoTime
  BY <1>6, <1>7, FinishFacts, FinishPlain
<1>10. QED
  BY <1>8, <1>9
================================================================================
