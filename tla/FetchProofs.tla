------------------------------ MODULE FetchProofs ------------------------------
(***************************************************************************)
(* Proofs about Fetch, for any status codes and any Retry-After, and for   *)
(* payloads of any numbers and any number of entries: which failures reach *)
(* the Client as answers and which as something to retry, and which        *)
(* payloads make an account limited or exhausted.                          *)
(***************************************************************************)
EXTENDS Fetch, ReadingProofs, RecursionLemmas, FiniteSetTheorems

\* The codes that decide a state on their own.
LEMMA ErrorClasses ==
    ASSUME NEW code \in Codes
    PROVE  /\ code \in {401, 403} => ErrorClass(code) = "authentication"
           /\ code = 404 => ErrorClass(code) = "not_found"
           /\ code = 429 => ErrorClass(code) = "transient"
  BY DEF ErrorClass

LEMMA FailedTypes ==
    ASSUME NEW code
    PROVE  FailedState(code) \in States /\ FailedCause(code) \in Causes
<1>1. FailedState(code) \in {"auth_required", "unsupported", "rate_limited", "error"}
  BY DEF FailedState
<1>2. FailedCause(code) \in {"http_401", "http_403", "http_404", "http_429",
                             "http_5xx", "http_other"}
  BY DEF FailedCause
<1>3. QED
  BY <1>1, <1>2 DEF States, Causes

\* classifyHTTP is fail, with a Retry-After.
LEMMA Classified ==
    ASSUME NEW code \in Codes, NEW header \in Headers
    PROVE  LET f == Fail(FailedState(code), FailedCause(code))
               r == ClassifyHTTP(code, header)
           IN  /\ r \in Readings
               /\ r.state = FailedState(code) /\ r.cause = FailedCause(code)
               /\ r.transient = f.transient
<1> DEFINE f == Fail(FailedState(code), FailedCause(code))
           r == ClassifyHTTP(code, header)
<1>1. RetryAfterSeconds(header) \in Nat
  BY ExchangeAssumption DEF RetryAfterSeconds, Headers
<1>2. PICK n \in Nat : r = [f EXCEPT !.retryAfter = n]
  <2>1. ClassifyHTTPResponse(code, header).retryAfter \in Nat
    BY <1>1 DEF ClassifyHTTPResponse
  <2>2. QED
    BY <2>1 DEF ClassifyHTTP
<1>3. /\ f \in Readings
      /\ f.state = FailedState(code) /\ f.cause = FailedCause(code)
  BY FailedTypes, FailType, FailFacts
<1> HIDE DEF f, r
<1>4. r \in Readings /\ r.state = f.state /\ r.cause = f.cause
                     /\ r.transient = f.transient
  BY <1>2, <1>3 DEF Readings
<1>5. QED
  BY <1>3, <1>4 DEF f, r

LEMMA FailTransient ==
    ASSUME NEW st, NEW cause
    PROVE  /\ st \in {"rate_limited", "error"} => Fail(st, cause).transient = TRUE
           /\ st \notin {"rate_limited", "error"} => Fail(st, cause).transient = FALSE
<1> DEFINE transient == st \in {"rate_limited", "error"}
           r(b) == [NoReading EXCEPT !.state = st, !.cause = cause, !.transient = b]
<1>1. Fail(st, cause) = r(transient)
  BY DEF Fail
<1>2. \A b : r(b).transient = b
  BY DEF NoReading
<1>3. (transient => transient = TRUE) /\ (~transient => transient = FALSE)
  OBVIOUS
<1> HIDE DEF r
<1>4. QED
  BY <1>1, <1>2, <1>3, Zenon

\* What classifyHTTP makes of the codes that decide.
LEMMA ClassifiedCodes ==
    ASSUME NEW code \in Codes, NEW header \in Headers
    PROVE  /\ code \in {401, 403, 404} => Refusal(ClassifyHTTP(code, header))
           /\ code = 429 => Throttling(ClassifyHTTP(code, header))
           /\ code \in {401, 403, 429} => ClassifyHTTP(code, header).cause # "http_404"
<1> DEFINE st == FailedState(code)
           cause == FailedCause(code)
           r == ClassifyHTTP(code, header)
           t == Fail(st, cause).transient
<1>1. /\ code \in {401, 403} => st = "auth_required"
      /\ code = 404 => st = "unsupported"
      /\ code = 429 => st = "rate_limited"
  BY ErrorClasses DEF FailedState
<1>2. code \in {401, 403, 429} => cause # "http_404"
  BY DEF FailedCause
<1>3. r.state = st /\ r.cause = cause /\ r.transient = t
  BY Classified
<1>4. /\ st \in {"rate_limited", "error"} => t
      /\ st \notin {"rate_limited", "error"} => ~t
  BY FailTransient
<1> HIDE DEF st, cause, r, t
<1>5. /\ code \in {401, 403, 404} => Refusal(r)
      /\ code = 429 => Throttling(r)
      /\ code \in {401, 403, 429} => r.cause # "http_404"
  BY <1>1, <1>2, <1>3, <1>4 DEF Refusal, Throttling
<1>6. QED
  BY <1>5 DEF r

(***************************************************************************)
(* RefusalsFinal is inductive with the wire it speaks of.                  *)
(***************************************************************************)

\* What httpJSON makes of a status that decides.
LEMMA ExchangeCodes ==
    ASSUME NEW x \in Outcomes, x.outcome = "status"
    PROVE  /\ x.code \in Codes
           /\ HttpJSON(x) = ClassifyHTTP(x.code, x.header)
  BY DEF Outcomes, HttpJSON

LEMMA HttpJSONType ==
    ASSUME NEW x \in Outcomes
    PROVE  HttpJSON(x) \in Readings
<1>1. CASE x.outcome = "status"
  <2>1. x.header \in Headers
    BY <1>1 DEF Outcomes
  <2>2. QED
    BY <1>1, <2>1, ExchangeCodes, Classified
<1>2. CASE x.outcome = "decoded"
  <2>1. x.verdict \in States
    BY <1>2 DEF Outcomes, States
  <2>2. Measured(x.verdict) \in Readings
    BY <2>1, NoReadingType DEF Measured, Readings
  <2>3. QED
    BY <1>2, <2>2 DEF HttpJSON
<1>3. CASE x.outcome \in {"deadline", "transport", "undecoded"}
  <2>1. /\ {"timeout", "network", "schema"} \subseteq Causes
        /\ "error" \in States
    BY DEF Causes, States
  <2>2. HttpJSON(x) \in {Fail("error", c) : c \in {"timeout", "network", "schema"}}
    BY <1>3 DEF HttpJSON
  <2>3. QED
    BY <2>1, <2>2, FailType
<1>4. QED
  BY <1>1, <1>2, <1>3 DEF Outcomes

\* A failure is a Reading without a verdict on the quota.
Failed(r) == r \in Readings /\ ~HasQuota(r.state)

LEMMA HttpJSONFails ==
    ASSUME NEW x \in Outcomes, x.outcome # "decoded"
    PROVE  Failed(HttpJSON(x))
<1>1. CASE x.outcome = "status"
  <2>1. FailedState(x.code) \in {"auth_required", "unsupported", "rate_limited", "error"}
    BY DEF FailedState
  <2>2. HttpJSON(x).state = FailedState(x.code)
    BY <1>1, ExchangeCodes, Classified DEF Outcomes
  <2>3. QED
    BY <2>1, <2>2, HttpJSONType DEF Failed, HasQuota, QuotaStates
<1>2. CASE x.outcome \in {"deadline", "transport", "undecoded"}
  <2>1. /\ {"timeout", "network", "schema"} \subseteq Causes
        /\ "error" \in States /\ ~HasQuota("error")
    BY DEF Causes, States, HasQuota, QuotaStates
  <2>2. PICK c \in {"timeout", "network", "schema"} : HttpJSON(x) = Fail("error", c)
    BY <1>2 DEF HttpJSON
  <2>3. HttpJSON(x).state = "error"
    BY <2>1, <2>2, FailFacts
  <2>4. QED
    BY <2>1, <2>3, HttpJSONType DEF Failed
<1>3. QED
  BY <1>1, <1>2 DEF Outcomes

\* What httpJSON makes of them.
LEMMA HttpJSONCodes ==
    ASSUME NEW x \in Outcomes, x.outcome = "status"
    PROVE  /\ x.code \in {401, 403, 404} => Refusal(HttpJSON(x))
           /\ x.code = 429 => Throttling(HttpJSON(x))
           /\ x.code \in {401, 403, 429} => HttpJSON(x).cause # "http_404"
<1>1. x.code \in Codes /\ x.header \in Headers
  BY DEF Outcomes
<1>2. QED
  BY <1>1, ExchangeCodes, ClassifiedCodes

\* What a failed exchange becomes when Kiro names an exception.
LEMMA KiroNames ==
    ASSUME NEW x \in Outcomes, x.outcome # "decoded"
    PROVE  /\ Throttling(KiroFetch(x, "throttling"))
           /\ Refusal(KiroFetch(x, "denied"))
           /\ KiroFetch(x, "nothing") = HttpJSON(x)
           /\ \A says \in Says : Failed(KiroFetch(x, says))
<1> DEFINE h == HttpJSON(x)
<1>1. h \in Readings
  BY HttpJSONType
<1>2. /\ KiroFetch(x, "throttling") = [h EXCEPT !.state = "rate_limited",
                                               !.cause = "throttled", !.transient = TRUE]
      /\ KiroFetch(x, "denied") = [h EXCEPT !.state = "auth_required",
                                           !.transient = FALSE]
      /\ KiroFetch(x, "nothing") = h
  BY DEF KiroFetch
<1>3. Failed(h)
  BY HttpJSONFails
<1>4. "throttled" \in Causes /\ {"rate_limited", "auth_required"} \subseteq States
      /\ ~HasQuota("rate_limited") /\ ~HasQuota("auth_required")
  BY DEF Causes, States, HasQuota, QuotaStates
<1> HIDE DEF h
<1>5. /\ Throttling(KiroFetch(x, "throttling")) /\ Failed(KiroFetch(x, "throttling"))
      /\ Refusal(KiroFetch(x, "denied")) /\ Failed(KiroFetch(x, "denied"))
  BY <1>1, <1>2, <1>4 DEF Readings, Refusal, Throttling, Failed
<1>6. QED
  BY <1>2, <1>3, <1>5 DEF Says, h

\* A 404 is made unsupported, anything else is left as it is.
LEMMA CopilotMakes ==
    ASSUME NEW x \in Outcomes
    PROVE  /\ HttpJSON(x).cause # "http_404" => CopilotFetch(x) = HttpJSON(x)
           /\ Refusal(HttpJSON(x)) => Refusal(CopilotFetch(x))
           /\ Failed(HttpJSON(x)) => Failed(CopilotFetch(x))
<1> DEFINE h == HttpJSON(x)
<1>1. h \in Readings
  BY HttpJSONType
<1>2. /\ h.cause # "http_404" => CopilotFetch(x) = h
      /\ h.cause = "http_404" =>
            CopilotFetch(x) = [h EXCEPT !.state = "unsupported", !.cause = "no_copilot"]
  BY DEF CopilotFetch
<1> HIDE DEF h
<1>3. /\ h.cause # "http_404" => CopilotFetch(x) = h
      /\ Refusal(h) => Refusal(CopilotFetch(x))
      /\ Failed(h) => Failed(CopilotFetch(x))
  <2>1. "no_copilot" \in Causes /\ "unsupported" \in States /\ ~HasQuota("unsupported")
    BY DEF Causes, States, HasQuota, QuotaStates
  <2>2. QED
    BY <1>1, <1>2, <2>1 DEF Readings, Refusal, Failed
<1>4. QED
  BY <1>3 DEF h

\* No provider's own reading of a failure turns a refusal into something to retry,
\* or throttling into an answer, whatever the status, the header and the body.
LEMMA FailuresRight ==
    ASSUME wire \in Wires, wire.exchange.outcome # "decoded", Next
    PROVE  /\ wire' = wire
           /\ Failed(reading')
           /\ Denied => Refusal(reading')
           /\ Throttled => Throttling(reading')
<1>1. wire' = wire
  BY DEF Next, FetchPlain, FetchKiro, FetchCopilot
<1>2. PICK x \in Outcomes : x = wire.exchange
  BY DEF Wires
<1>3. CASE FetchPlain
  <2>1. reading' = HttpJSON(x) /\ wire.provider # "kiro"
    BY <1>2, <1>3 DEF FetchPlain, From
  <2>2. QED
    BY <1>1, <1>2, <2>1, HttpJSONCodes, HttpJSONFails DEF Denied, Throttled, KiroSays, Status
<1>4. CASE FetchKiro
  <2>1. /\ reading' = KiroFetch(x, wire.says)
        /\ wire.provider = "kiro" /\ wire.says \in Says
    BY <1>2, <1>4 DEF FetchKiro, From, Wires
  <2>2. QED
    BY <1>1, <1>2, <2>1, KiroNames, HttpJSONCodes
    DEF Says, Denied, Throttled, KiroSays, Status
<1>5. CASE FetchCopilot
  <2>1. reading' = CopilotFetch(x) /\ wire.provider # "kiro"
    BY <1>2, <1>5 DEF FetchCopilot, From
  <2>2. QED
    BY <1>1, <1>2, <2>1, CopilotMakes, HttpJSONCodes, HttpJSONFails
    DEF Denied, Throttled, KiroSays, Status
<1>6. QED
  BY <1>3, <1>4, <1>5 DEF Next

-----------------------------------------------------------------------------
(***************************************************************************)
(* Windows.                                                                *)
(***************************************************************************)

LEMMA KnownInt == \A v \in Int : Known(v)
  BY AbsentAssumption DEF Known

LEMMA KnownNumber == \A v \in Numbers : Known(v) <=> v \in Int
  BY AbsentAssumption DEF Known, Numbers

LEMMA ClampFacts ==
    ASSUME NEW v \in Int
    PROVE  ClampPct(v) \in 0..100 /\ (ClampPct(v) = 100 <=> v >= 100)
  BY DEF ClampPct

\* A window rated by the percentage used, v.
IsRated(w, id, kind, b, v) ==
    /\ w.id = id /\ w.kind = kind /\ w.binding = b
    /\ w.remaining \in 0..100 /\ w.remainingPct = w.remaining
    /\ Depleted(w) <=> v >= 100

LEMMA PctWindowIs ==
    ASSUME NEW id, NEW kind, NEW v \in Int, NEW b
    PROVE  /\ IsRated(PctWindow(id, kind, v), id, kind, TRUE, v)
           /\ IsRated([PctWindow(id, kind, v) EXCEPT !.binding = b], id, kind, b, v)
<1> DEFINE left == 100 - ClampPct(v)
           w == PctWindow(id, kind, v)
           bound == [w EXCEPT !.binding = b]
<1>1. left \in 0..100 /\ (left <= 0 <=> v >= 100)
  BY ClampFacts
<1>2. w = [id |-> id, kind |-> kind, binding |-> TRUE, remaining |-> left,
           remainingPct |-> left]
  BY DEF PctWindow
<1> HIDE DEF left, w
<1>3. /\ w.id = id /\ w.kind = kind /\ w.binding = TRUE
      /\ w.remaining = left /\ w.remainingPct = left
      /\ bound.id = id /\ bound.kind = kind /\ bound.binding = b
      /\ bound.remaining = left /\ bound.remainingPct = left
  BY <1>2
<1> HIDE DEF bound
<1>4. IsRated(w, id, kind, TRUE, v) /\ IsRated(bound, id, kind, b, v)
  BY <1>1, <1>3, KnownInt DEF Depleted, IsRated
<1>5. QED
  BY <1>4 DEF w, bound

\* A window of amounts, by what is left, and one that does not decide.
IsAmount(w, id, kind, b, left) ==
    /\ w.id = id /\ w.kind = kind /\ w.binding = b /\ w.remaining = left
    /\ Known(w.remainingPct) => w.remainingPct \in 0..100
    /\ Depleted(w) <=> left <= 0

LEMMA AmountIs ==
    ASSUME NEW id, NEW kind, NEW used \in Int, NEW limit \in Int
    PROVE  LET w == AmountWindow(id, kind, used, limit)
           IN  /\ IsAmount(w, id, kind, TRUE, limit - used)
               /\ IsAmount(Informational(w), id, kind, FALSE, limit - used)
<1> DEFINE pct == IF limit > 0 THEN 100 - ClampPct((100 * used) \div limit) ELSE Absent
           left == limit - used
           w == AmountWindow(id, kind, used, limit)
           i == Informational(w)
<1>1. Known(pct) => pct \in 0..100
  <2>1. CASE limit > 0
    <3>1. (100 * used) \div limit \in Int
      BY <2>1
    <3>2. ClampPct((100 * used) \div limit) \in 0..100
      BY <3>1, ClampFacts
    <3>3. QED
      BY <2>1, <3>2
  <2>2. CASE ~(limit > 0)
    BY <2>2 DEF Known
  <2>3. QED
    BY <2>1, <2>2
<1>2. w = [id |-> id, kind |-> kind, binding |-> TRUE, remaining |-> left,
           remainingPct |-> pct]
  BY DEF AmountWindow
<1>3. left \in Int
  OBVIOUS
<1> HIDE DEF pct, left, w
<1>4. /\ w.id = id /\ w.kind = kind /\ w.binding = TRUE
      /\ w.remaining = left /\ w.remainingPct = pct
      /\ i.id = id /\ i.kind = kind /\ i.binding = FALSE
      /\ i.remaining = left /\ i.remainingPct = pct
  BY <1>2 DEF Informational
<1> HIDE DEF i
<1>5. IsAmount(w, id, kind, TRUE, left) /\ IsAmount(i, id, kind, FALSE, left)
  BY <1>1, <1>3, <1>4, KnownInt DEF Depleted, IsAmount
<1>6. QED
  BY <1>5 DEF w, i, left

\* What FetchTypeOK asks of a window.
WindowType(w) ==
    /\ w.kind \in Kinds
    /\ w.binding \in BOOLEAN
    /\ w.remaining \in Int
    /\ Known(w.remainingPct) => w.remainingPct \in 0..100

LEMMA RatedType ==
    ASSUME NEW w, NEW id, NEW kind \in Kinds, NEW b \in BOOLEAN, NEW v,
           IsRated(w, id, kind, b, v)
    PROVE  WindowType(w)
  BY DEF WindowType, IsRated

LEMMA AmountType ==
    ASSUME NEW w, NEW id, NEW kind \in Kinds, NEW b \in BOOLEAN, NEW left \in Int,
           IsAmount(w, id, kind, b, left)
    PROVE  WindowType(w)
  BY DEF WindowType, IsAmount

LEMMA DeriveType == \A ws : DeriveState(ws) \in QuotaStates
  BY DEF DeriveState, QuotaStates

LEMMA MeasuredFacts ==
    ASSUME NEW st \in QuotaStates
    PROVE  Measured(st) \in Readings /\ Measured(st).state = st /\ HasQuota(st)
<1>1. st \in States
  BY DEF States
<1>2. QED
  BY <1>1, NoReadingType DEF Measured, Readings, HasQuota

\* A report has the verdict it was given, or the one its windows make.
LEMMA ReportFacts ==
    ASSUME NEW st \in QuotaStates \cup {Unset}, NEW ws
    PROVE  LET r == Report(st, ws)
           IN  /\ r.windows = ws
               /\ r.reading.state = IF st = Unset THEN DeriveState(ws) ELSE st
               /\ \E s \in QuotaStates : r.reading = Measured(s)
<1>1. Unset \notin QuotaStates
  BY DEF Unset, QuotaStates
<1> DEFINE s == IF st = Unset THEN DeriveState(ws) ELSE st
<1>2. s \in QuotaStates
  BY <1>1, DeriveType
<1> HIDE DEF s
<1>3. Measured(s) \in Readings /\ Measured(s).state = s
  BY <1>2, MeasuredFacts
<1>4. Report(st, ws) = [reading |-> Measured(s), windows |-> ws]
  BY DEF Report, s
<1>5. QED
  BY <1>2, <1>3, <1>4 DEF s

-----------------------------------------------------------------------------
(***************************************************************************)
(* What the Client relies on.  An answer of the usual kind waits only to   *)
(* be retried; what Kiro calls denied may keep a Retry-After besides.      *)
(***************************************************************************)
Sound(r) == /\ IsAnswer(r)
            /\ r.state = "unsupported" => r.transient = FALSE

OnlyToRetry(r) == r.retryAfter > 0 => r.transient = TRUE

LEMMA FailSound ==
    ASSUME NEW st \in {"rate_limited", "error", "auth_required", "unsupported"},
           NEW cause \in Causes \ {Unset},
           cause \in Refusals => st \in {"auth_required", "unsupported"}
    PROVE  Sound(Fail(st, cause)) /\ Fail(st, cause).retryAfter = 0
<1> DEFINE r == Fail(st, cause)
<1>1. st \in States /\ st # Unset /\ ~HasQuota(st)
  BY DEF States, HasQuota, QuotaStates, Unset
<1>2. r \in Readings /\ r.state = st /\ r.cause = cause /\ r.fetched = NoTime
  BY <1>1, FailType, FailFacts
<1>3. r.account = NoAccount /\ r.stale = FALSE /\ r.retryAfter = 0 /\ r.retryAt = NoTime
  BY DEF Fail, NoReading
<1>4. /\ st \in {"rate_limited", "error"} => r.transient = TRUE
      /\ st \notin {"rate_limited", "error"} => r.transient = FALSE
  BY FailTransient
<1> HIDE DEF r
<1>5. Sound(r)
  BY <1>1, <1>2, <1>3, <1>4 DEF Sound, IsAnswer
<1>6. QED
  BY <1>3, <1>5 DEF r

LEMMA MeasuredSound ==
    ASSUME NEW st \in QuotaStates
    PROVE  Sound(Measured(st)) /\ Measured(st).retryAfter = 0
<1> DEFINE r == Measured(st)
<1>1. r \in Readings /\ r.state = st
  BY MeasuredFacts
<1>2. st # Unset /\ st # "unsupported"
  BY DEF QuotaStates, Unset
<1>3. /\ r.account = NoAccount /\ r.fetched = NoTime /\ r.retryAt = NoTime
      /\ r.stale = FALSE /\ r.transient = FALSE /\ r.retryAfter = 0 /\ r.cause = Unset
  BY DEF Measured, NoReading
<1> HIDE DEF r
<1>4. Sound(r)
  BY <1>1, <1>2, <1>3 DEF Sound, IsAnswer
<1>5. QED
  BY <1>3, <1>4 DEF r

\* A Retry-After is kept for the statuses that are retried.
LEMMA ClassifiedSound ==
    ASSUME NEW code \in Codes, NEW header \in Headers
    PROVE  LET r == ClassifyHTTP(code, header)
           IN  Sound(r) /\ OnlyToRetry(r)
<1> DEFINE st == FailedState(code)
           cause == FailedCause(code)
           f == Fail(st, cause)
           c == ClassifyHTTPResponse(code, header)
           n == IF c.retryable THEN c.retryAfter ELSE 0
           r == ClassifyHTTP(code, header)
<1>1. /\ st \in {"rate_limited", "error", "auth_required", "unsupported"}
      /\ ErrorClass(code) = "transient" => st \in {"rate_limited", "error"}
  BY DEF FailedState
<1>2. /\ cause \in Causes \ {Unset}
      /\ cause \in Refusals => code \in {401, 403, 404}
  BY DEF FailedCause, Causes, Unset, Refusals
<1>3. code \in {401, 403, 404} => st \in {"auth_required", "unsupported"}
  BY ErrorClasses DEF FailedState
<1>4. n \in Nat /\ (n > 0 => ErrorClass(code) = "transient")
  <2>1. RetryAfterSeconds(header) \in Nat
    BY ExchangeAssumption DEF RetryAfterSeconds, Headers
  <2>2. /\ c.retryable <=> ErrorClass(code) = "transient"
        /\ c.retryAfter \in {0, RetryAfterSeconds(header)}
    BY DEF ClassifyHTTPResponse
  <2> HIDE DEF c
  <2>3. QED
    BY <2>1, <2>2
<1>5. r = [f EXCEPT !.retryAfter = n]
  BY DEF ClassifyHTTP
<1>6. Sound(f)
  BY <1>1, <1>2, <1>3, FailSound
<1>7. st \in {"rate_limited", "error"} => f.transient = TRUE
  BY FailTransient
<1> HIDE DEF st, cause, f, n, r
<1>8. /\ r \in Readings /\ r.account = f.account /\ r.state = f.state
      /\ r.cause = f.cause /\ r.fetched = f.fetched /\ r.stale = f.stale
      /\ r.transient = f.transient /\ r.retryAfter = n /\ r.retryAt = f.retryAt
  BY <1>4, <1>5, <1>6 DEF Sound, IsAnswer, Readings
<1>9. Sound(r)
  BY <1>6, <1>8 DEF Sound, IsAnswer
<1>10. OnlyToRetry(r)
  BY <1>1, <1>4, <1>7, <1>8 DEF OnlyToRetry
<1>11. QED
  BY <1>9, <1>10 DEF r

LEMMA HttpJSONSound ==
    ASSUME NEW x \in Outcomes, x.outcome # "decoded"
    PROVE  Sound(HttpJSON(x)) /\ OnlyToRetry(HttpJSON(x))
<1>1. CASE x.outcome = "status"
  <2>1. x.header \in Headers
    BY <1>1 DEF Outcomes
  <2>2. QED
    BY <1>1, <2>1, ExchangeCodes, ClassifiedSound
<1>2. CASE x.outcome \in {"deadline", "transport", "undecoded"}
  <2>1. PICK c \in {"timeout", "network", "schema"} : HttpJSON(x) = Fail("error", c)
    BY <1>2 DEF HttpJSON
  <2>2. c \in Causes \ {Unset} /\ c \notin Refusals
    BY DEF Causes, Unset, Refusals
  <2>3. Sound(Fail("error", c)) /\ Fail("error", c).retryAfter = 0
    BY <2>2, FailSound
  <2>4. QED
    BY <2>1, <2>3 DEF OnlyToRetry
<1>3. QED
  BY <1>1, <1>2 DEF Outcomes

LEMMA FailuresSound ==
    ASSUME wire \in Wires, wire.exchange.outcome # "decoded", Next
    PROVE  /\ Sound(reading')
           /\ OnlyToRetry(reading') \/ KiroSays("denied")
<1>1. PICK x \in Outcomes : x = wire.exchange
  BY DEF Wires
<1> DEFINE h == HttpJSON(x)
<1>2. Sound(h) /\ OnlyToRetry(h) /\ h \in Readings
  BY <1>1, HttpJSONSound, HttpJSONType
<1>3. CASE FetchPlain
  BY <1>1, <1>2, <1>3 DEF FetchPlain
<1>4. CASE FetchKiro
  <2>1. reading' = KiroFetch(x, wire.says) /\ wire.provider = "kiro" /\ wire.says \in Says
    BY <1>1, <1>4 DEF FetchKiro, From, Wires
  <2>2. /\ wire.says = "throttling" => reading' = [h EXCEPT !.state = "rate_limited",
                                            !.cause = "throttled", !.transient = TRUE]
        /\ wire.says = "denied" => reading' = [h EXCEPT !.state = "auth_required",
                                                        !.transient = FALSE]
        /\ wire.says = "nothing" => reading' = h
    BY <1>1, <2>1 DEF KiroFetch
  <2>3. /\ "throttled" \in Causes \ {Unset} /\ "throttled" \notin Refusals
        /\ {"rate_limited", "auth_required"} \subseteq States \ {Unset}
        /\ ~HasQuota("rate_limited") /\ ~HasQuota("auth_required")
    BY DEF Causes, Unset, Refusals, States, HasQuota, QuotaStates
  <2> HIDE DEF h
  <2>4. CASE wire.says = "throttling"
    BY <1>2, <2>2, <2>3, <2>4 DEF Sound, OnlyToRetry, IsAnswer, Readings
  <2>5. CASE wire.says = "denied"
    <3>1. KiroSays("denied")
      BY <1>1, <2>1, <2>5 DEF KiroSays
    <3>2. Sound(reading')
      BY <1>2, <2>2, <2>3, <2>5 DEF Sound, IsAnswer, Readings
    <3>3. QED
      BY <3>1, <3>2
  <2>6. CASE wire.says = "nothing"
    BY <1>2, <2>2, <2>6
  <2>7. QED
    BY <2>1, <2>4, <2>5, <2>6 DEF Says
<1>5. CASE FetchCopilot
  <2>1. reading' = CopilotFetch(x)
    BY <1>1, <1>5 DEF FetchCopilot
  <2>2. \/ reading' = h
        \/ /\ h.cause = "http_404"
           /\ reading' = [h EXCEPT !.state = "unsupported", !.cause = "no_copilot"]
    BY <2>1 DEF CopilotFetch
  <2>3. /\ "no_copilot" \in Causes \ {Unset} /\ "no_copilot" \notin Refusals
        /\ "http_404" \in Refusals
        /\ "unsupported" \in States \ {Unset} /\ ~HasQuota("unsupported")
    BY DEF Causes, Unset, Refusals, States, HasQuota, QuotaStates
  <2> HIDE DEF h
  <2>4. QED
    BY <1>2, <2>2, <2>3 DEF Sound, OnlyToRetry, IsAnswer, Readings
<1>6. QED
  BY <1>3, <1>4, <1>5 DEF Next

-----------------------------------------------------------------------------
(***************************************************************************)
(* What a fetch returns: a failure of the exchange, or what the provider's *)
(* parser makes of the payload.                                            *)
(***************************************************************************)
ParseOf(provider, p) ==
    CASE provider = "claude"   -> ParseClaude(p)
      [] provider = "codex"    -> ParseCodex(p)
      [] provider = "agy"      -> ParseAgy(p)
      [] provider = "kiro"     -> ParseKiro(p)
      [] provider = "copilot"  -> ParseCopilot(p)
      [] provider = "deepseek" -> ParseDeepSeek(p)

Decoded == wire.exchange.outcome = "decoded"

FetchInv ==
    /\ IF Decoded THEN wire \in Delivered ELSE wire \in Wires
    /\ RefusalsFinal
    /\ \/ Failed(reading) /\ windows = {} /\ AnswersExpected
       \/ /\ Decoded
          /\ wire.provider \in {"claude", "codex", "agy", "kiro", "copilot", "deepseek"}
          /\ reading = ParseOf(wire.provider, payload).reading
          /\ windows = ParseOf(wire.provider, payload).windows

LEMMA FetchSafe == FetchSpec => []FetchInv
<1>1. FetchInit => FetchInv
  <2>1. Failed(NoReading)
    BY NoReadingType DEF Failed, NoReading, HasQuota, QuotaStates, Unset
  <2>2. QED
    BY <2>1 DEF FetchInit, FetchInv, Answered, Decoded, Delivered, RefusalsFinal,
               AnswersExpected
<1>2. FetchInv /\ [FetchNext]_fetchVars => FetchInv'
  <2> SUFFICES ASSUME FetchInv, [FetchNext]_fetchVars
               PROVE  FetchInv'
    OBVIOUS
  <2>1. CASE UNCHANGED fetchVars
    BY <2>1 DEF fetchVars, vars, FetchInv, Answered, Decoded, RefusalsFinal, Denied,
               Throttled, KiroSays, Status, Refusal, Throttling, Failed, payload,
               AnswersExpected, IsAnswer
  <2>2. CASE FetchFails
    <3>1. wire \in Wires /\ ~Decoded /\ Next /\ windows' = windows
      BY <2>2 DEF FetchFails, FetchInv, Decoded
    <3>2. /\ wire' = wire /\ Failed(reading')
          /\ Denied => Refusal(reading')
          /\ Throttled => Throttling(reading')
      BY <3>1, FailuresRight DEF Decoded
    <3>3. windows' = {}
      BY <3>1 DEF FetchInv
    <3>4. RefusalsFinal'
      BY <3>2 DEF RefusalsFinal, Denied, Throttled, KiroSays, Status, Refusal, Throttling
    <3>5. AnswersExpected'
      <4>1. /\ IsAnswer(reading')
            /\ reading'.state = "unsupported" => ~reading'.transient
            /\ reading'.retryAfter > 0 => reading'.transient \/ KiroSays("denied")
        BY <3>1, FailuresSound DEF Decoded, Sound, OnlyToRetry
      <4>2. QED
        BY <3>2, <4>1 DEF AnswersExpected, IsAnswer, KiroSays
    <3>6. QED
      BY <3>1, <3>2, <3>3, <3>4, <3>5 DEF FetchInv, Decoded, Failed
  <2>3. ASSUME NEW p \in {"claude", "codex", "agy", "kiro", "copilot", "deepseek"},
               Parsed(p, ParseOf(p, wire.exchange.payload))
        PROVE  FetchInv'
    <3> DEFINE report == ParseOf(p, wire.exchange.payload)
    <3>1. /\ wire' = wire /\ wire.provider = p /\ Decoded
          /\ reading' = report.reading /\ windows' = report.windows
      BY <2>3 DEF Parsed, From, Decoded
    <3>2. report = ParseOf(wire'.provider, wire'.exchange.payload)
      BY <3>1
    <3>3. Decoded' /\ wire' \in Delivered
      BY <3>1 DEF FetchInv, Decoded
    <3>4. RefusalsFinal'
      BY <3>3 DEF RefusalsFinal, Denied, Throttled, KiroSays, Status, Decoded
    <3> HIDE DEF report
    <3>5. QED
      BY <2>3, <3>1, <3>2, <3>3, <3>4 DEF FetchInv, payload
  <2>4. QED
    BY <2>1, <2>2, <2>3 DEF FetchNext, ParseOf, payload
<1>3. QED
  BY <1>1, <1>2, PTL DEF FetchSpec

\* Whatever a provider's fetch makes of an exchange, a refusal is final and a
\* throttling is retried, through any payload it delivers instead.
THEOREM RefusalsFinalHold == FetchSpec => []RefusalsFinal
<1>1. FetchInv => RefusalsFinal
  BY DEF FetchInv
<1>2. QED
  BY <1>1, FetchSafe, PTL

-----------------------------------------------------------------------------
(***************************************************************************)
(* The two ways a decoded payload ends, for the properties of the verdict: *)
(* a failure, of which they ask nothing, and a provider's report.          *)
(***************************************************************************)
NoVerdict ==
    /\ reading \in Readings /\ ~HasQuota(reading.state) /\ windows = {}
    /\ AnswersExpected

Reports(report) == reading = report.reading /\ windows = report.windows

LEMMA FetchCases ==
    ASSUME FetchInv
    PROVE  \/ NoVerdict
           \/ wire.provider = "claude" /\ ClaudePayload(payload) /\ Reports(ParseClaude(payload))
           \/ wire.provider = "codex" /\ CodexPayload(payload) /\ Reports(ParseCodex(payload))
           \/ wire.provider = "agy" /\ AgyPayload(payload) /\ Reports(ParseAgy(payload))
           \/ wire.provider = "kiro" /\ KiroPayload(payload) /\ Reports(ParseKiro(payload))
           \/ wire.provider = "copilot" /\ CopilotPayload(payload)
                                       /\ Reports(ParseCopilot(payload))
           \/ wire.provider = "deepseek" /\ DeepSeekPayload(payload)
                                        /\ Reports(ParseDeepSeek(payload))
<1>1. CASE Failed(reading) /\ windows = {} /\ AnswersExpected
  BY <1>1 DEF Failed, NoVerdict
<1>2. CASE /\ Decoded
           /\ wire.provider \in {"claude", "codex", "agy", "kiro", "copilot", "deepseek"}
           /\ Reports(ParseOf(wire.provider, payload))
  <2>1. wire \in Delivered
    BY <1>2 DEF FetchInv
  <2>2. payload \in Payloads /\ payload.provider = wire.provider
    BY <2>1 DEF Delivered, payload
  <2>3. CASE wire.provider = "claude"
    BY <1>2, <2>2, <2>3, PayloadAssumption DEF ParseOf
  <2>4. CASE wire.provider = "codex"
    BY <1>2, <2>2, <2>4, PayloadAssumption DEF ParseOf
  <2>5. CASE wire.provider = "agy"
    BY <1>2, <2>2, <2>5, PayloadAssumption DEF ParseOf
  <2>6. CASE wire.provider = "kiro"
    BY <1>2, <2>2, <2>6, PayloadAssumption DEF ParseOf
  <2>7. CASE wire.provider = "copilot"
    BY <1>2, <2>2, <2>7, PayloadAssumption DEF ParseOf
  <2>8. CASE wire.provider = "deepseek"
    BY <1>2, <2>2, <2>8, PayloadAssumption DEF ParseOf
  <2>9. QED
    BY <1>2, <2>3, <2>4, <2>5, <2>6, <2>7, <2>8
<1>3. QED
  BY <1>1, <1>2 DEF FetchInv, Reports

\* What DeriveState makes of windows none of which is a balance.
LEMMA DeriveLimited ==
    ASSUME NEW ws, \A w \in ws : w.kind # "balance"
    PROVE  DeriveState(ws) = "limited" <=> \E w \in ws : w.binding /\ Depleted(w)
  BY DEF DeriveState, UsedUp

\* What every report of a parser is.
WellFormed(report) ==
    /\ Sound(report.reading) /\ report.reading.retryAfter = 0
    /\ \A w \in report.windows : WindowType(w)

\* The causes of a parser's failure.
OwnCauses == Causes \ ({Unset} \cup Refusals)

LEMMA FailureFormed ==
    ASSUME NEW st \in {"error", "auth_required"}, NEW cause \in OwnCauses
    PROVE  /\ WellFormed(Failure(st, cause))
           /\ ~HasQuota(Failure(st, cause).reading.state)
<1> DEFINE r == Failure(st, cause)
           f == Fail(st, cause)
<1>1. st \in States /\ ~HasQuota(st)
  BY DEF States, QuotaStates, HasQuota
<1>2. Sound(f) /\ f.retryAfter = 0
  BY FailSound DEF OwnCauses
<1>3. f.state = st
  BY <1>1, FailFacts DEF OwnCauses
<1>4. r.reading = f /\ r.windows = {}
  BY DEF Failure
<1> HIDE DEF r, f
<1>5. WellFormed(r) /\ ~HasQuota(r.reading.state)
  BY <1>1, <1>2, <1>3, <1>4 DEF WellFormed
<1>6. QED
  BY <1>5 DEF r

LEMMA SchemaFormed ==
    /\ WellFormed(Failure("error", "schema"))
    /\ ~HasQuota(Failure("error", "schema").reading.state)
<1>1. "schema" \in OwnCauses
  BY DEF OwnCauses, Causes, Unset, Refusals
<1>2. QED
  BY <1>1, FailureFormed

LEMMA ReportFormed ==
    ASSUME NEW st \in QuotaStates \cup {Unset}, NEW ws,
           \A w \in ws : WindowType(w)
    PROVE  /\ WellFormed(Report(st, ws))
           /\ Report(st, ws).windows = ws
           /\ Report(st, ws).reading.state = IF st = Unset THEN DeriveState(ws) ELSE st
<1> DEFINE r == Report(st, ws)
<1>1. /\ r.windows = ws
      /\ r.reading.state = IF st = Unset THEN DeriveState(ws) ELSE st
      /\ \E s \in QuotaStates : r.reading = Measured(s)
  BY ReportFacts
<1> HIDE DEF r
<1>2. Sound(r.reading) /\ r.reading.retryAfter = 0
  BY <1>1, MeasuredSound
<1>3. WellFormed(r)
  BY <1>1, <1>2 DEF WellFormed
<1>4. QED
  BY <1>1, <1>3 DEF r

\* The entries of a list.
LEMMA ListFacts ==
    ASSUME NEW T, NEW s \in Seq(T)
    PROVE  /\ IsFiniteSet(DOMAIN s) /\ \A i \in DOMAIN s : s[i] \in T
           /\ IsFiniteSet(ToSet(s)) /\ ToSet(s) \subseteq T
<1> DEFINE D == DOMAIN s
           all == ToSet(s)
           g == [i \in D |-> s[i]]
<1>1. D = 1..Len(s) /\ Len(s) \in Nat /\ \A i \in D : s[i] \in T
  OBVIOUS
<1>2. IsFiniteSet(D)
  BY <1>1, FS_Interval
<1>3. g \in [D -> all] /\ (\A x \in all : \E i \in D : x = g[i]) /\ all \subseteq T
  BY <1>1 DEF ToSet
<1> HIDE DEF D, all, g
<1>4. IsFiniteSet(all)
  BY <1>2, <1>3, ImageFinite
<1>5. QED
  BY <1>1, <1>2, <1>3, <1>4 DEF D, all

-----------------------------------------------------------------------------
(***************************************************************************)
(* DeepSeek.                                                               *)
(***************************************************************************)
LEMMA DeepSeekReport ==
    ASSUME NEW p, DeepSeekPayload(p)
    PROVE  /\ WellFormed(ParseDeepSeek(p))
           /\ HasQuota(ParseDeepSeek(p).reading.state) =>
                /\ \E b \in ToSet(p.balances) : Known(b.total)
                /\ ParseDeepSeek(p).reading.state = "exhausted" <=>
                      \/ ~p.available
                      \/ \A b \in ToSet(p.balances) : Known(b.total) => b.total <= 0
<1> DEFINE rated == {i \in DOMAIN p.balances : Known(p.balances[i].total)}
           total(i) == p.balances[i].total
           window(i) == BalanceWindow(p.balances[i])
           ws == {window(i) : i \in rated}
           st == IF Cardinality(rated) > 1
                 THEN IF AnyMoneyLeft(ws) THEN "ok" ELSE "exhausted"
                 ELSE DeriveState(ws)
           final == IF p.available THEN st ELSE "exhausted"
           broke == \A w \in ws : w.remaining <= 0
<1>1. IsFiniteSet(rated) /\ \A i \in rated : total(i) \in Int
  <2>1. /\ IsFiniteSet(DOMAIN p.balances)
        /\ \A i \in DOMAIN p.balances : p.balances[i] \in DeepSeekBalances
    BY ListFacts DEF DeepSeekPayload
  <2>2. \A i \in DOMAIN p.balances : p.balances[i].total \in Numbers
    BY <2>1 DEF DeepSeekBalances
  <2>3. QED
    BY <2>1, <2>2, FS_Subset, KnownNumber
<1>2. \A i \in rated : /\ window(i).kind = "balance" /\ window(i).binding = TRUE
                      /\ window(i).remaining = total(i)
                      /\ window(i).remainingPct = Absent
  BY DEF BalanceWindow
<1>w. ws = {window(i) : i \in rated} /\ (ws = {} <=> rated = {})
  OBVIOUS
<1>s. ToSet(p.balances) = {p.balances[i] : i \in DOMAIN p.balances}
  BY DEF ToSet
<1> HIDE DEF window, ws
<1>3. \A w \in ws : /\ WindowType(w) /\ w.binding = TRUE /\ w.kind = "balance"
                    /\ w.remaining \in Int
                    /\ Depleted(w) <=> w.remaining <= 0
  <2>1. ASSUME NEW i \in rated
        PROVE  /\ WindowType(window(i))
               /\ window(i).binding = TRUE /\ window(i).kind = "balance"
               /\ window(i).remaining \in Int
               /\ Depleted(window(i)) <=> window(i).remaining <= 0
    BY <1>1, <1>2, KnownInt DEF WindowType, Known, Depleted, Kinds
  <2> HIDE DEF rated
  <2>2. QED
    BY <1>w, <2>1
<1>5. broke <=> \A b \in ToSet(p.balances) : Known(b.total) => b.total <= 0
  <2>1. broke <=> \A i \in rated : total(i) <= 0
    BY <1>w, <1>2
  <2>2. QED
    BY <1>s, <2>1
<1>r. rated # {} => \E b \in ToSet(p.balances) : Known(b.total)
  BY <1>s
<1>6. ParseDeepSeek(p) = IF rated = {} THEN Failure("error", "schema") ELSE Report(final, ws)
  BY DEF ParseDeepSeek, ws, window
<1>7. CASE rated = {}
  BY <1>6, <1>7, SchemaFormed
<1>8. CASE rated # {}
  <2>1. DeriveState(ws) = IF \E w \in ws : Depleted(w) THEN "exhausted" ELSE "ok"
    BY <1>3 DEF DeriveState, UsedUp
  <2>2. ASSUME Cardinality(rated) > 1
        PROVE  st = IF broke THEN "exhausted" ELSE "ok"
    <3>1. AnyMoneyLeft(ws) <=> ~broke
      BY <1>3 DEF AnyMoneyLeft
    <3>2. QED
      BY <2>2, <3>1
  <2>3. ASSUME ~(Cardinality(rated) > 1)
        PROVE  st = IF broke THEN "exhausted" ELSE "ok"
    <3>1. PICK i \in rated : rated = {i}
      <4>1. Cardinality(rated) \in Nat /\ Cardinality(rated) # 0
        BY <1>1, <1>8, FS_CardinalityType, FS_EmptySet
      <4>2. Cardinality(rated) = 1
        BY <2>3, <4>1
      <4>3. QED
        BY <1>1, <4>2, FS_Singleton
    <3>2. ws = {window(i)} /\ window(i) \in ws
      BY <1>w, <3>1
    <3>3. (\E x \in ws : Depleted(x)) <=> broke
      BY <1>3, <3>2
    <3>4. QED
      BY <2>1, <2>3, <3>3
  <2>4. st = IF broke THEN "exhausted" ELSE "ok"
    BY <2>2, <2>3
  <2> HIDE DEF st, broke, rated
  <2>5. /\ final \in QuotaStates
        /\ final = "exhausted" <=> ~p.available \/ broke
    BY <2>4 DEF QuotaStates
  <2> HIDE DEF final
  <2>6. /\ WellFormed(Report(final, ws)) /\ Report(final, ws).reading.state = final
    <3>1. final # Unset
      BY <2>5 DEF QuotaStates, Unset
    <3>2. QED
      BY <1>3, <2>5, <3>1, ReportFormed
  <2>7. QED
    BY <1>5, <1>6, <1>8, <1>r, <2>5, <2>6
<1>9. QED
  BY <1>7, <1>8

-----------------------------------------------------------------------------
(***************************************************************************)
(* Agy, and what the tightest window says of windows that are percentages. *)
(***************************************************************************)
Percentages(ws) ==
    \A w \in ws : w.binding => w.remaining \in 0..100 /\ w.remainingPct = w.remaining

LEMMA TightestRight ==
    ASSUME NEW ws, Percentages(ws), \A w \in ws : w.kind # "balance"
    PROVE  DeriveState(ws) = "limited" <=> \E w \in Tightest(ws) : Depleted(w)
<1>1. ASSUME NEW w \in ws, w.binding
      PROVE  /\ Known(w.remainingPct) /\ w.remainingPct \in 0..100
             /\ Depleted(w) <=> w.remainingPct = 0
  <2>1. w.remaining \in 0..100 /\ w.remainingPct = w.remaining
    BY <1>1 DEF Percentages
  <2>2. Known(w.remaining)
    BY <2>1, KnownInt
  <2>3. QED
    BY <2>1, <2>2 DEF Depleted
<1>2. ASSUME NEW w \in ws, w.binding, Depleted(w)
      PROVE  w \in Tightest(ws)
  <2>1. \A v \in ws : v.binding => w.remainingPct <= v.remainingPct
    BY <1>1, <1>2
  <2>2. QED
    BY <1>1, <1>2, <2>1 DEF Tightest
<1>3. ASSUME NEW w \in Tightest(ws)
      PROVE  w \in ws /\ w.binding
  BY <1>3 DEF Tightest
<1>4. QED
  BY <1>2, <1>3, DeriveLimited

LEMMA AgyKindType == \A window : AgyKind(window) \in Kinds \ {"balance"}
  BY DEF AgyKind, Kinds

LEMMA AgyReport ==
    ASSUME NEW p, AgyPayload(p)
    PROVE  LET r == ParseAgy(p)
           IN  /\ WellFormed(r)
               /\ HasQuota(r.reading.state) =>
                    /\ p.run = "json" /\ \E b \in ToSet(p.buckets) : Known(b.left)
                    /\ r.reading.state = "limited" <=> \E w \in Tightest(r.windows) : Depleted(w)
<1> DEFINE rated == {b \in ToSet(p.buckets) : Known(b.left)}
           ws == {AgyWindow(b) : b \in rated}
           failures == {Failure("error", "not_installed"),
                        Failure("auth_required", "login_required"),
                        Failure("error", "timeout"), Failure("error", "exit_status"),
                        Failure("error", "schema"), Failure("error", "agy_status")}
           r == ParseAgy(p)
<1>1. \/ r \in failures
      \/ p.run = "json" /\ rated # {} /\ r = Report(Unset, ws)
  BY DEF ParseAgy, AgyPayload
<1>2. CASE r \in failures
  <2>1. {"not_installed", "login_required", "timeout", "exit_status", "schema",
         "agy_status"} \subseteq OwnCauses
    BY DEF OwnCauses, Causes, Unset, Refusals
  <2>2. \A f \in failures : WellFormed(f) /\ ~HasQuota(f.reading.state)
    BY <2>1, FailureFormed
  <2> HIDE DEF r, failures
  <2>3. QED
    BY <1>2, <2>2 DEF r
<1>3. CASE p.run = "json" /\ rated # {} /\ r = Report(Unset, ws)
  <2>1. ASSUME NEW b \in rated
        PROVE  LET w == AgyWindow(b)
               IN  /\ WindowType(w) /\ w.kind # "balance"
                   /\ w.remaining \in 0..100 /\ w.remainingPct = w.remaining
    <3> DEFINE v == 100 - b.left
               id == <<b.id, b.pool>>
               kind == AgyKind(b.window)
               w == AgyWindow(b)
    <3>1. b \in AgyBuckets
      BY ListFacts DEF AgyPayload
    <3>2. b.left \in Int /\ v \in Int
      BY <3>1, KnownNumber DEF AgyBuckets
    <3>3. kind \in Kinds \ {"balance"}
      BY AgyKindType
    <3>4. w = PctWindow(id, kind, v)
      BY DEF AgyWindow
    <3> HIDE DEF v, id, kind, w
    <3>5. IsRated(w, id, kind, TRUE, v)
      BY <3>2, <3>4, PctWindowIs
    <3>6. WindowType(w)
      BY <3>3, <3>5, RatedType
    <3>7. w.kind # "balance" /\ w.remaining \in 0..100 /\ w.remainingPct = w.remaining
      BY <3>3, <3>5 DEF IsRated
    <3>8. QED
      BY <3>6, <3>7 DEF w
  <2>2. \A w \in ws : \E b \in rated : w = AgyWindow(b)
    OBVIOUS
  <2>3. \E b \in ToSet(p.buckets) : Known(b.left)
    BY <1>3
  <2> HIDE DEF rated, ws
  <2>4. \A w \in ws : /\ WindowType(w) /\ w.kind # "balance"
                      /\ w.remaining \in 0..100 /\ w.remainingPct = w.remaining
    BY <2>1, <2>2
  <2>5. DeriveState(ws) = "limited" <=> \E w \in Tightest(ws) : Depleted(w)
    BY <2>4, TightestRight DEF Percentages
  <2>6. /\ WellFormed(r) /\ r.windows = ws /\ r.reading.state = DeriveState(ws)
    BY <1>3, <2>4, ReportFormed DEF Unset
  <2> HIDE DEF r
  <2>7. QED
    BY <1>3, <2>3, <2>5, <2>6 DEF r
<1>4. QED
  BY <1>1, <1>2, <1>3

-----------------------------------------------------------------------------
(***************************************************************************)
(* Codex.                                                                  *)
(***************************************************************************)
CodexWindowType == {Absent} \cup [used : Numbers, left : Numbers, mins : Int]

\* A window of the account or a feature that its percentage says is used up.
UsedOut(w) == IF Known(w.used) THEN w.used >= 100 ELSE Known(w.left) /\ w.left <= 0

CodexKinds == {"five_hour", "daily", "weekly", "monthly"}

LEMMA CodexKindType ==
    ASSUME NEW mins \in Int, NEW fallback \in CodexKinds
    PROVE  CodexKind(mins, fallback) \in CodexKinds
<1>1. CodexKind(mins, fallback) \in
        {fallback, "five_hour", "daily", "weekly", "monthly"}
  BY DEF CodexKind
<1>2. QED
  BY <1>1 DEF CodexKinds

\* A window of a payload that carries a percentage, and a limit that has one.
HasPct(w) == Known(w) /\ (Known(w.used) \/ Known(w.left))

LimitRated(l) == Known(l) /\ \E w \in {l.primary, l.secondary} : HasPct(w)

LEMMA CodexWindowFacts ==
    ASSUME NEW w \in CodexWindowType, NEW scope, NEW fallback \in CodexKinds
    PROVE  \A x \in CodexWindows(w, scope, fallback) :
             /\ HasPct(w) /\ WindowType(x) /\ x.kind \in CodexKinds
             /\ x.binding <=> scope = NoScope
             /\ Depleted(x) <=> UsedOut(w)
<1> DEFINE kind == CodexKind(w.mins, fallback)
           used == IF Known(w.used) THEN w.used ELSE 100 - w.left
           id == <<kind, scope>>
           bound == scope = NoScope
           x == [PctWindow(id, kind, used) EXCEPT !.binding = bound]
<1>1. CASE ~HasPct(w)
  <2>1. CodexWindows(w, scope, fallback) = {}
    BY <1>1 DEF CodexWindows, HasPct
  <2>2. QED
    BY <2>1
<1>2. CASE HasPct(w)
  <2>1. CodexWindows(w, scope, fallback) = {x}
    BY <1>2 DEF CodexWindows, HasPct
  <2>2. w.used \in Numbers /\ w.left \in Numbers /\ w.mins \in Int
    BY <1>2 DEF CodexWindowType, Known, HasPct
  <2>0. kind \in CodexKinds
    BY <2>2, CodexKindType
  <2>3. /\ used \in Int
        /\ used >= 100 <=> UsedOut(w)
    BY <1>2, <2>2, KnownNumber DEF UsedOut, HasPct
  <2>4. bound \in BOOLEAN /\ (bound <=> scope = NoScope)
    OBVIOUS
  <2>5. kind \in Kinds
    BY <2>0 DEF Kinds, CodexKinds
  <2> HIDE DEF kind, used, id, bound
  <2>6. IsRated(x, id, kind, bound, used)
    BY <2>3, PctWindowIs
  <2> HIDE DEF x
  <2>7. WindowType(x)
    BY <2>4, <2>5, <2>6, RatedType
  <2>8. /\ x.kind = kind
        /\ x.binding <=> scope = NoScope
        /\ Depleted(x) <=> UsedOut(w)
    BY <2>3, <2>4, <2>6 DEF IsRated
  <2>9. QED
    BY <1>2, <2>0, <2>1, <2>7, <2>8
<1>3. QED
  BY <1>1, <1>2

LEMMA CodexLimitFacts ==
    ASSUME NEW l \in CodexLimits, NEW scope
    PROVE  \A x \in CodexLimit(l, scope) :
             /\ LimitRated(l) /\ WindowType(x) /\ x.kind \in CodexKinds
             /\ x.binding <=> scope = NoScope
             /\ Depleted(x) => \E w \in {l.primary, l.secondary} : Known(w) /\ UsedOut(w)
<1>1. CASE ~Known(l)
  <2>1. CodexLimit(l, scope) = {}
    BY <1>1 DEF CodexLimit
  <2>2. QED
    BY <2>1
<1>2. CASE Known(l)
  <2> DEFINE pri == CodexWindows(l.primary, scope, "five_hour")
             sec == CodexWindows(l.secondary, scope, "weekly")
  <2>1. CodexLimit(l, scope) = pri \cup sec
    BY <1>2 DEF CodexLimit
  <2>2. l.primary \in CodexWindowType /\ l.secondary \in CodexWindowType
    BY <1>2 DEF CodexLimits, CodexWindowType, Known
  <2>3. "five_hour" \in CodexKinds /\ "weekly" \in CodexKinds
    BY DEF CodexKinds
  <2>4. \A x \in pri :
             /\ HasPct(l.primary) /\ WindowType(x) /\ x.kind \in CodexKinds
             /\ x.binding <=> scope = NoScope
             /\ Depleted(x) <=> UsedOut(l.primary)
    BY <2>2, <2>3, CodexWindowFacts
  <2>5. \A x \in sec :
             /\ HasPct(l.secondary) /\ WindowType(x) /\ x.kind \in CodexKinds
             /\ x.binding <=> scope = NoScope
             /\ Depleted(x) <=> UsedOut(l.secondary)
    BY <2>2, <2>3, CodexWindowFacts
  <2> HIDE DEF pri, sec
  <2>6. QED
    BY <1>2, <2>1, <2>4, <2>5 DEF LimitRated, HasPct
<1>3. QED
  BY <1>1, <1>2

LEMMA CodexReport ==
    ASSUME NEW p, CodexPayload(p)
    PROVE  LET r == ParseCodex(p)
           IN  /\ WellFormed(r)
               /\ HasQuota(r.reading.state) =>
                    \E l \in {p.limit} \cup {f.limit : f \in p.features} : LimitRated(l)
               /\ HasQuota(r.reading.state) /\ r.reading.state = "limited" =>
                    /\ Known(p.limit)
                    /\ \/ p.limit.reached
                       \/ \E w \in {p.limit.primary, p.limit.secondary} :
                            Known(w) /\ UsedOut(w)
<1> DEFINE own == CodexLimit(p.limit, NoScope)
           of(f) == CodexLimit(f.limit, f.scope)
           theirs == UNION {of(f) : f \in p.features}
           credits == CodexCredits(p.balance)
           all == own \cup theirs \cup credits
           reached == Known(p.limit) /\ p.limit.reached
           st == IF reached THEN "limited" ELSE DeriveState(all)
           rated == \E l \in {p.limit} \cup {f.limit : f \in p.features} : LimitRated(l)
           r == ParseCodex(p)
<1>1. \A x \in own :
         /\ LimitRated(p.limit) /\ WindowType(x) /\ x.kind \in CodexKinds
         /\ Depleted(x) => \E w \in {p.limit.primary, p.limit.secondary} :
                              Known(w) /\ UsedOut(w)
  BY CodexLimitFacts DEF CodexPayload
<1>2. ASSUME NEW f \in p.features
      PROVE  \A x \in of(f) :
                LimitRated(f.limit) /\ WindowType(x) /\ x.kind \in CodexKinds /\ ~x.binding
  <2>1. f.scope # NoScope /\ f.limit \in CodexLimits
    BY DEF CodexPayload
  <2>2. QED
    BY <2>1, CodexLimitFacts
<1>3. \A x \in theirs : \E f \in p.features : x \in of(f)
  OBVIOUS
<1>4. ASSUME NEW x \in credits
      PROVE  WindowType(x) /\ x.kind = "credits" /\ ~x.binding
  <2> DEFINE w == [id |-> <<"credits", NoScope>>, kind |-> "credits", binding |-> FALSE,
                   remaining |-> p.balance, remainingPct |-> Absent]
  <2>1. credits = {w} /\ p.balance \in Int
    BY KnownNumber DEF CodexCredits, CodexPayload
  <2>2. /\ w.kind = "credits" /\ w.binding = FALSE
        /\ w.remaining \in Int /\ w.remainingPct = Absent
    BY <2>1
  <2> HIDE DEF w
  <2>3. WindowType(w)
    BY <2>2 DEF WindowType, Kinds, Known
  <2>4. QED
    BY <2>1, <2>2, <2>3
<1>5. \/ r = Failure("error", "schema")
      \/ r = Report(st, all) /\ own \cup theirs # {}
  BY DEF ParseCodex
<1> HIDE DEF own, of, theirs, credits
<1>6. \A x \in all : WindowType(x) /\ x.kind # "balance"
  BY <1>1, <1>2, <1>3, <1>4 DEF CodexKinds
<1>7. own \cup theirs # {} => rated
  <2>1. CASE own # {}
    BY <1>1, <2>1
  <2>2. CASE theirs # {}
    <3>1. PICK f \in p.features : LimitRated(f.limit)
      BY <1>2, <1>3, <2>2
    <3>2. QED
      BY <3>1
  <2>3. QED
    BY <2>1, <2>2
<1>8. ASSUME st = "limited"
      PROVE  /\ Known(p.limit)
             /\ \/ p.limit.reached
                \/ \E w \in {p.limit.primary, p.limit.secondary} : Known(w) /\ UsedOut(w)
  <2>1. CASE reached
    BY <2>1
  <2>2. CASE ~reached
    <3>1. PICK x \in all : x.binding /\ Depleted(x)
      BY <1>6, <1>8, <2>2, DeriveLimited
    <3>2. x \in own
      BY <1>2, <1>3, <1>4, <3>1
    <3>3. QED
      BY <1>1, <3>1, <3>2 DEF LimitRated
  <2>3. QED
    BY <2>1, <2>2
<1>9. st \in QuotaStates /\ st # Unset
  BY DeriveType DEF QuotaStates, Unset
<1> HIDE DEF st, all, rated
<1>10. CASE r = Failure("error", "schema")
  BY <1>10, SchemaFormed
<1>11. CASE r = Report(st, all) /\ own \cup theirs # {}
  <2>1. WellFormed(r) /\ r.reading.state = st
    BY <1>6, <1>9, <1>11, ReportFormed
  <2> HIDE DEF r
  <2>2. QED
    BY <1>7, <1>8, <1>11, <2>1 DEF r, rated
<1>12. QED
  BY <1>5, <1>10, <1>11

-----------------------------------------------------------------------------
(***************************************************************************)
(* Copilot.                                                                *)
(***************************************************************************)
Snapshots == {Absent} \cup [unlimited : BOOLEAN, entitled : Numbers, left : Numbers,
                            pct : Numbers]

SnapshotRated(s) ==
    /\ Known(s)
    /\ s.unlimited \/ (Known(s.entitled) /\ Known(s.left)) \/ Known(s.pct)

LEMMA SnapshotFacts ==
    ASSUME NEW s \in Snapshots, NEW name
    PROVE  \A x \in SnapshotWindows(name, s) : WindowType(x) /\ SnapshotRated(s)
<1> DEFINE id == <<name, NoScope>>
           amounts == Known(s.entitled) /\ Known(s.left)
           a == AmountWindow(id, "monthly", s.entitled - s.left, s.entitled)
           c == PctWindow(id, "monthly", 100 - s.pct)
<1>1. "monthly" \in Kinds /\ TRUE \in BOOLEAN
  BY DEF Kinds
<1>2. CASE SnapshotWindows(name, s) = {}
  BY <1>2
<1>3. CASE Known(s) /\ amounts /\ SnapshotWindows(name, s) = {a}
  <2> DEFINE used == s.entitled - s.left
             limit == s.entitled
  <2>1. used \in Int /\ limit \in Int /\ limit - used \in Int
    <3>1. s.entitled \in Int /\ s.left \in Int
      BY <1>3, KnownNumber DEF Snapshots, Known
    <3>2. QED
      BY <3>1
  <2> HIDE DEF id, used, limit
  <2>2. IsAmount(AmountWindow(id, "monthly", used, limit), id, "monthly", TRUE, limit - used)
    BY <2>1, AmountIs
  <2>3. IsAmount(a, id, "monthly", TRUE, limit - used)
    BY <2>2 DEF used, limit
  <2> HIDE DEF a
  <2>4. WindowType(a)
    BY <1>1, <2>1, <2>3, AmountType
  <2>5. QED
    BY <1>3, <2>4 DEF SnapshotRated
<1>4. CASE Known(s) /\ Known(s.pct) /\ SnapshotWindows(name, s) = {c}
  <2> DEFINE v == 100 - s.pct
  <2>1. v \in Int
    BY <1>4, KnownNumber DEF Snapshots, Known
  <2> HIDE DEF id, v
  <2>2. IsRated(PctWindow(id, "monthly", v), id, "monthly", TRUE, v)
    BY <2>1, PctWindowIs
  <2>3. IsRated(c, id, "monthly", TRUE, v)
    BY <2>2 DEF v
  <2> HIDE DEF c
  <2>4. WindowType(c)
    BY <1>1, <2>3, RatedType
  <2>5. QED
    BY <1>4, <2>4 DEF SnapshotRated
<1>5. QED
  BY <1>2, <1>3, <1>4 DEF SnapshotWindows

Quotas == [left : Numbers, limit : Numbers]

LEMMA FreeFacts ==
    ASSUME NEW free, \A n \in DOMAIN free : free[n] \in Quotas
    PROVE  \A x \in FreeWindows(free) :
             /\ WindowType(x)
             /\ \E n \in DOMAIN free : Known(free[n].left) /\ Known(free[n].limit)
<1> DEFINE rated == {n \in DOMAIN free : Known(free[n].left) /\ Known(free[n].limit)}
           window(n) == AmountWindow(<<n, NoScope>>, "monthly",
                                     free[n].limit - free[n].left, free[n].limit)
<1>1. ASSUME NEW n \in rated
      PROVE  WindowType(window(n))
  <2> DEFINE id == <<n, NoScope>>
             used == free[n].limit - free[n].left
             limit == free[n].limit
  <2>1. used \in Int /\ limit \in Int /\ limit - used \in Int
    <3>1. free[n].limit \in Int /\ free[n].left \in Int
      BY KnownNumber DEF Quotas
    <3>2. QED
      BY <3>1
  <2>2. "monthly" \in Kinds /\ TRUE \in BOOLEAN
    BY DEF Kinds
  <2> HIDE DEF id, used, limit
  <2> DEFINE a == AmountWindow(id, "monthly", used, limit)
  <2>3. IsAmount(a, id, "monthly", TRUE, limit - used)
    BY <2>1, AmountIs
  <2> HIDE DEF a
  <2>4. WindowType(a)
    BY <2>1, <2>2, <2>3, AmountType
  <2>5. QED
    BY <2>4 DEF a, id, used, limit
<1>2. FreeWindows(free) = {window(n) : n \in rated}
  BY DEF FreeWindows
<1>3. \A x \in FreeWindows(free) : \E n \in rated : x = window(n)
  BY <1>2
<1> HIDE DEF window
<1>4. QED
  BY <1>1, <1>3

LEMMA CopilotReport ==
    ASSUME NEW p, CopilotPayload(p)
    PROVE  LET r == ParseCopilot(p)
           IN  /\ WellFormed(r)
               /\ HasQuota(r.reading.state) =>
                    \/ \E s \in Range(p.snapshots) : SnapshotRated(s)
                    \/ \E q \in Range(p.free) : Known(q.left) /\ Known(q.limit)
<1> DEFINE of(n) == SnapshotWindows(n, p.snapshots[n])
           paid == UNION {of(n) : n \in DOMAIN p.snapshots}
           free == FreeWindows(p.free)
           ws == IF paid = {} THEN free ELSE paid
           unlimited == \E s \in Range(p.snapshots) : Known(s) /\ s.unlimited
           rated == \/ \E s \in Range(p.snapshots) : SnapshotRated(s)
                    \/ \E q \in Range(p.free) : Known(q.left) /\ Known(q.limit)
           r == ParseCopilot(p)
<1>1. ASSUME NEW n \in DOMAIN p.snapshots
      PROVE  \A x \in of(n) : WindowType(x) /\ rated
  <2>1. p.snapshots[n] \in Snapshots /\ p.snapshots[n] \in Range(p.snapshots)
    BY DEF CopilotPayload, Named, Snapshots, Range
  <2>2. QED
    BY <2>1, SnapshotFacts
<1>2. \A x \in paid : \E n \in DOMAIN p.snapshots : x \in of(n)
  OBVIOUS
<1>3. \A x \in free : WindowType(x) /\ rated
  <2>1. \A n \in DOMAIN p.free : p.free[n] \in Quotas /\ p.free[n] \in Range(p.free)
    BY DEF CopilotPayload, Named, Quotas, Range
  <2>2. QED
    BY <2>1, FreeFacts
<1>4. unlimited => rated
  BY DEF SnapshotRated
<1>5. \/ r = Failure("error", "schema")
      \/ r = Report(Unset, ws) /\ (ws # {} \/ unlimited)
  BY DEF ParseCopilot
<1> HIDE DEF of, paid, free, unlimited, rated
<1>6. \A x \in ws : WindowType(x) /\ rated
  BY <1>1, <1>2, <1>3
<1> HIDE DEF ws
<1>7. CASE r = Failure("error", "schema")
  BY <1>7, SchemaFormed
<1>8. CASE r = Report(Unset, ws) /\ (ws # {} \/ unlimited)
  <2>1. WellFormed(r)
    BY <1>6, <1>8, ReportFormed
  <2>2. rated
    BY <1>4, <1>6, <1>8
  <2> HIDE DEF r
  <2>3. QED
    BY <2>1, <2>2 DEF r, rated
<1>9. QED
  BY <1>5, <1>7, <1>8

-----------------------------------------------------------------------------
(***************************************************************************)
(* Kiro.                                                                   *)
(***************************************************************************)
LEMMA HeadroomIsZero ==
    ASSUME NEW ws, IsFiniteSet(ws), \A w \in ws : w.remaining \in Int
    PROVE  KiroHeadroom(ws) <= 0 <=> \A w \in ws : w.remaining <= 0
<1> DEFINE v == [w \in ws |-> AtLeast0(w.remaining)]
           Body(g) == [s \in SUBSET ws |->
                         IF s = {} THEN 0
                         ELSE AtLeast0((CHOOSE x \in s : TRUE).remaining)
                                + g[s \ {CHOOSE x \in s : TRUE}]]
           f == CHOOSE f : f = Body(f)
<1>1. v \in [ws -> Nat] /\ \A w \in ws : v[w] = 0 <=> w.remaining <= 0
  BY DEF AtLeast0
<1>2. \A g : SumsTo(g, ws, v) <=> g = Body(g)
  <2>1. \A s \in SUBSET ws : s # {} => (CHOOSE x \in s : TRUE) \in ws
    OBVIOUS
  <2>2. \A s \in SUBSET ws : s # {} =>
           v[CHOOSE x \in s : TRUE] = AtLeast0((CHOOSE x \in s : TRUE).remaining)
    BY <2>1
  <2>3. QED
    BY <2>2 DEF SumsTo
<1>3. \E g : SumsTo(g, ws, v)
  BY <1>1, SumExists
<1>4. f = Body(f)
  <2>1. PICK g : SumsTo(g, ws, v)
    BY <1>3
  <2>2. g = Body(g)
    BY <1>2, <2>1
  <2>3. QED
    BY <2>2
<1>5. KiroHeadroom(ws) = f[ws]
  BY DEF KiroHeadroom, MapThenSumSet, MapThenFoldSet
<1>6. SumsTo(f, ws, v)
  BY <1>2, <1>4
<1> HIDE DEF f, v
<1>7. f[ws] \in Nat /\ (f[ws] = 0 <=> \A w \in ws : v[w] = 0)
  BY <1>1, <1>6, SumIsZero
<1>8. QED
  BY <1>1, <1>5, <1>7

LEMMA OrZeroType == \A v \in Numbers : OrZero(v) \in Int
  BY KnownNumber DEF OrZero

\* A window of further credits.
LEMMA FurtherIs ==
    ASSUME NEW id, NEW used \in Numbers, NEW limit \in Numbers
    PROVE  LET w == Further(id, used, limit)
           IN  /\ WindowType(w)
               /\ w.remaining <= 0 <=> ~(OrZero(used) < OrZero(limit))
<1> DEFINE u == OrZero(used)
           l == OrZero(limit)
           left == l - u
           w == Further(id, used, limit)
<1>1. u \in Int /\ l \in Int
  BY OrZeroType
<1>2. "credits" \in Kinds /\ FALSE \in BOOLEAN
  BY DEF Kinds
<1>3. w = Informational(AmountWindow(id, "credits", u, l))
  BY DEF Further
<1> HIDE DEF u, l, w
<1>4. left \in Int /\ (left <= 0 <=> ~(u < l))
  BY <1>1
<1>5. IsAmount(w, id, "credits", FALSE, left)
  BY <1>1, <1>3, AmountIs
<1> HIDE DEF left
<1>6. WindowType(w) /\ w.remaining = left
  BY <1>2, <1>4, <1>5, AmountType DEF IsAmount
<1>7. QED
  BY <1>4, <1>6 DEF u, l, w

\* Nothing is left in a breakdown.
KiroEmpty(p, b) ==
    /\ b.used - OrZero(b.over) >= b.limit
    /\ Known(b.trial) /\ b.trial.active => ~LeftIn(b.trial)
    /\ \A n \in ToSet(b.bonuses) : n.active => ~LeftIn(n)
    /\ p.overage /\ Known(b.cap) /\ b.cap > 0 => OrZero(b.over) >= b.cap

LEMMA KiroWindowsFacts ==
    ASSUME NEW p, p.overage \in BOOLEAN, NEW b, KiroBreakdown(b),
           Known(b.used), Known(b.limit)
    PROVE  LET ws == KiroWindows(p, b)
           IN  /\ IsFiniteSet(ws)
               /\ \A w \in ws : WindowType(w)
               /\ (\A w \in ws : w.remaining <= 0) <=> KiroEmpty(p, b)
<1> DEFINE scope == IF Len(p.breakdowns) > 1 THEN b.type ELSE NoScope
           used == b.used - OrZero(b.over)
           planId == <<"plan", scope>>
           trialId == <<"free_trial", scope>>
           overId == <<"overage", scope>>
           plan == AmountWindow(planId, "monthly", used, b.limit)
           onTrial == Known(b.trial) /\ b.trial.active
           trials == IF onTrial THEN {Further(trialId, b.trial.used, b.trial.limit)} ELSE {}
           active == {n \in ToSet(b.bonuses) : n.active}
           bonus(n) == Further(<<"bonus", n.code>>, n.used, n.limit)
           bonuses == {bonus(n) : n \in active}
           capped == p.overage /\ Known(b.cap) /\ b.cap > 0
           overs == IF capped THEN {Further(overId, b.over, b.cap)} ELSE {}
           ws == KiroWindows(p, b)
<1>1. ws = {plan} \cup trials \cup bonuses \cup overs
  BY DEF KiroWindows
<1>n. b.used \in Int /\ b.limit \in Int /\ b.over \in Numbers /\ b.cap \in Numbers
  BY KnownNumber DEF KiroBreakdown
<1> HIDE DEF planId, trialId, overId
<1>2. /\ WindowType(plan)
      /\ plan.remaining <= 0 <=> b.used - OrZero(b.over) >= b.limit
  <2> DEFINE left == b.limit - used
             limit == b.limit
  <2>1. /\ used \in Int /\ limit \in Int /\ left \in Int /\ left = limit - used
        /\ left <= 0 <=> b.used - OrZero(b.over) >= b.limit
    <3>1. OrZero(b.over) \in Int
      BY <1>n, OrZeroType
    <3>2. QED
      BY <1>n, <3>1
  <2>2. "monthly" \in Kinds /\ TRUE \in BOOLEAN
    BY DEF Kinds
  <2> HIDE DEF used, left, limit
  <2> DEFINE w == AmountWindow(planId, "monthly", used, limit)
  <2>3. IsAmount(w, planId, "monthly", TRUE, left)
    BY <2>1, AmountIs
  <2> HIDE DEF w
  <2>4. WindowType(w) /\ w.remaining = left
    BY <2>1, <2>2, <2>3, AmountType DEF IsAmount
  <2>5. plan = w
    BY DEF w, limit
  <2>6. QED
    BY <2>1, <2>4, <2>5
<1>3. /\ \A w \in trials : WindowType(w)
      /\ (\A w \in trials : w.remaining <= 0) <=> (onTrial => ~LeftIn(b.trial))
      /\ IsFiniteSet(trials)
  <2>1. CASE onTrial
    <3>1. b.trial.used \in Numbers /\ b.trial.limit \in Numbers
      BY <2>1 DEF KiroBreakdown, KiroCredits, Known
    <3> DEFINE w == Further(trialId, b.trial.used, b.trial.limit)
    <3>2. WindowType(w) /\ (w.remaining <= 0 <=> ~LeftIn(b.trial))
      BY <3>1, FurtherIs DEF LeftIn
    <3>3. trials = {w}
      BY <2>1
    <3> HIDE DEF w, trials
    <3>4. IsFiniteSet(trials)
      BY <3>3, FS_Singleton
    <3>5. QED
      BY <2>1, <3>2, <3>3, <3>4
  <2>2. CASE ~onTrial
    BY <2>2, FS_EmptySet
  <2>3. QED
    BY <2>1, <2>2
<1>4. /\ \A w \in bonuses : WindowType(w)
      /\ (\A w \in bonuses : w.remaining <= 0)
            <=> \A n \in ToSet(b.bonuses) : n.active => ~LeftIn(n)
      /\ IsFiniteSet(bonuses)
  <2>1. ASSUME NEW n \in active
        PROVE  WindowType(bonus(n)) /\ (bonus(n).remaining <= 0 <=> ~LeftIn(n))
    <3> DEFINE id == <<"bonus", n.code>>
    <3>1. n.used \in Numbers /\ n.limit \in Numbers
      <4>1. n \in KiroBonuses
        BY ListFacts DEF KiroBreakdown
      <4>2. QED
        BY <4>1 DEF KiroBonuses
    <3> HIDE DEF id
    <3>2. LET w == Further(id, n.used, n.limit)
          IN  WindowType(w) /\ (w.remaining <= 0 <=> ~LeftIn(n))
      BY <3>1, FurtherIs DEF LeftIn
    <3>3. QED
      BY <3>2 DEF id
  <2>2. /\ \A w \in bonuses : \E n \in active : w = bonus(n)
        /\ \A n \in active : bonus(n) \in bonuses
    OBVIOUS
  <2> DEFINE f == [n \in active |-> bonus(n)]
  <2>3. f \in [active -> bonuses]
    BY <2>2
  <2>4. \A w \in bonuses : \E n \in active : w = f[n]
    BY <2>2
  <2>5. IsFiniteSet(active)
    <3>1. IsFiniteSet(ToSet(b.bonuses))
      BY ListFacts DEF KiroBreakdown
    <3>2. QED
      BY <3>1, FS_Subset
  <2>6. (\A n \in active : ~LeftIn(n)) <=> \A n \in ToSet(b.bonuses) : n.active => ~LeftIn(n)
    OBVIOUS
  <2> HIDE DEF bonus, bonuses, f, active
  <2>7. IsFiniteSet(bonuses)
    BY <2>3, <2>4, <2>5, ImageFinite
  <2>8. QED
    BY <2>1, <2>2, <2>6, <2>7
<1>5. /\ \A w \in overs : WindowType(w)
      /\ (\A w \in overs : w.remaining <= 0) <=> (capped => OrZero(b.over) >= b.cap)
      /\ IsFiniteSet(overs)
  <2>1. CASE capped
    <3>1. b.cap \in Int /\ OrZero(b.over) \in Int /\ OrZero(b.cap) = b.cap
      BY <1>n, <2>1, KnownNumber, OrZeroType DEF OrZero
    <3> DEFINE w == Further(overId, b.over, b.cap)
    <3>2. overs = {w}
      BY <2>1
    <3>3. WindowType(w) /\ (w.remaining <= 0 <=> ~(OrZero(b.over) < OrZero(b.cap)))
      BY <1>n, FurtherIs
    <3> HIDE DEF w, overs
    <3>4. IsFiniteSet(overs)
      BY <3>2, FS_Singleton
    <3>5. QED
      BY <2>1, <3>1, <3>2, <3>3, <3>4
  <2>2. CASE ~capped
    BY <2>2, FS_EmptySet
  <2>3. QED
    BY <2>1, <2>2
<1> HIDE DEF plan, trials, bonuses, overs
<1>6. IsFiniteSet(ws)
  <2>1. IsFiniteSet({plan})
    BY FS_Singleton
  <2>2. IsFiniteSet({plan} \cup trials)
    BY <1>3, <2>1, FS_Union
  <2>3. IsFiniteSet(({plan} \cup trials) \cup bonuses)
    BY <1>4, <2>2, FS_Union
  <2>4. IsFiniteSet((({plan} \cup trials) \cup bonuses) \cup overs)
    BY <1>5, <2>3, FS_Union
  <2>5. QED
    BY <1>1, <2>4
<1>7. (\A w \in ws : w.remaining <= 0) <=> KiroEmpty(p, b)
  BY <1>1, <1>2, <1>3, <1>4, <1>5 DEF KiroEmpty
<1>8. \A w \in ws : WindowType(w)
  BY <1>1, <1>2, <1>3, <1>4, <1>5
<1>9. QED
  BY <1>6, <1>7, <1>8

LEMMA KiroReport ==
    ASSUME NEW p, KiroPayload(p)
    PROVE  LET r == ParseKiro(p)
           IN  /\ WellFormed(r)
               /\ HasQuota(r.reading.state) =>
                    /\ p.breakdowns # <<>>
                    /\ \A b \in ToSet(p.breakdowns) : Known(b.used) /\ Known(b.limit)
                    /\ r.reading.state = "limited" <=>
                         \A b \in ToSet(p.breakdowns) : KiroEmpty(p, b)
<1> DEFINE B == ToSet(p.breakdowns)
           of(b) == KiroWindows(p, b)
           ws == UNION {of(b) : b \in B}
           unrated == \/ p.breakdowns = <<>>
                      \/ \E b \in B : ~Known(b.used) \/ ~Known(b.limit)
           st == IF KiroHeadroom(ws) <= 0 THEN "limited" ELSE "ok"
           r == ParseKiro(p)
<1>1. r = IF unrated THEN Failure("error", "schema") ELSE Report(st, ws)
  BY DEF ParseKiro
<1>2. CASE unrated
  BY <1>1, <1>2, SchemaFormed
<1>3. CASE ~unrated
  <2>1. IsFiniteSet(B)
    BY ListFacts DEF KiroPayload
  <2>2. ASSUME NEW b \in B
        PROVE  KiroBreakdown(b) /\ Known(b.used) /\ Known(b.limit)
    BY <1>3 DEF KiroPayload
  <2>3. ASSUME NEW b \in B
        PROVE  /\ IsFiniteSet(of(b))
               /\ \A w \in of(b) : WindowType(w)
               /\ (\A w \in of(b) : w.remaining <= 0) <=> KiroEmpty(p, b)
    BY <2>2, KiroWindowsFacts DEF KiroPayload
  <2>4. /\ \A w \in ws : \E b \in B : w \in of(b)
        /\ \A b \in B : of(b) \subseteq ws
    OBVIOUS
  <2>5. IsFiniteSet(ws)
    <3> DEFINE sets == {of(b) : b \in B}
               f == [b \in B |-> of(b)]
    <3>1. f \in [B -> sets] /\ \A s \in sets : \E b \in B : s = f[b]
      OBVIOUS
    <3>2. \A s \in sets : IsFiniteSet(s)
      BY <2>3
    <3> HIDE DEF f, sets, B
    <3>3. IsFiniteSet(sets)
      BY <2>1, <3>1, ImageFinite
    <3>4. IsFiniteSet(UNION sets)
      BY <3>2, <3>3, FS_UNION
    <3>5. QED
      BY <3>4 DEF sets
  <2> HIDE DEF of, ws
  <2>6. \A w \in ws : WindowType(w)
    BY <2>3, <2>4
  <2>7. KiroHeadroom(ws) <= 0 <=> \A b \in B : KiroEmpty(p, b)
    <3>1. KiroHeadroom(ws) <= 0 <=> \A w \in ws : w.remaining <= 0
      BY <2>5, <2>6, HeadroomIsZero DEF WindowType
    <3>2. (\A w \in ws : w.remaining <= 0)
             <=> \A b \in B : \A w \in of(b) : w.remaining <= 0
      BY <2>4
    <3>3. QED
      BY <2>3, <3>1, <3>2
  <2>8. WellFormed(r) /\ r.reading.state = st
    <3>1. st \in QuotaStates /\ st # Unset
      BY DEF QuotaStates, Unset
    <3> HIDE DEF st
    <3>2. QED
      BY <1>1, <1>3, <2>6, <3>1, ReportFormed
  <2> HIDE DEF r
  <2>9. QED
    BY <1>3, <2>7, <2>8 DEF r
<1>4. QED
  BY <1>2, <1>3

-----------------------------------------------------------------------------
(***************************************************************************)
(* Claude.                                                                 *)
(***************************************************************************)
\* A window of paid overflow.
Extra(id, a) == Informational(AmountWindow(id, "credits", a.used, a.limit))

LEMMA ExtraIs ==
    ASSUME NEW id, NEW a \in Amounts
    PROVE  /\ Extra(id, a).id = id /\ WindowType(Extra(id, a))
           /\ Extra(id, a).kind = "credits" /\ ~Extra(id, a).binding
<1> DEFINE w == Extra(id, a)
           left == a.limit - a.used
<1>1. a.used \in Int /\ a.limit \in Int /\ left \in Int
  BY DEF Amounts
<1>2. "credits" \in Kinds /\ FALSE \in BOOLEAN
  BY DEF Kinds
<1>3. IsAmount(w, id, "credits", FALSE, left)
  BY <1>1, AmountIs DEF Extra
<1> HIDE DEF w, left
<1>4. WindowType(w) /\ w.id = id /\ w.kind = "credits" /\ ~w.binding
  BY <1>1, <1>2, <1>3, AmountType DEF IsAmount
<1>5. QED
  BY <1>4 DEF w

\* A window of the rating v that binds when it is account-wide.
IsCap(w, id, v) ==
    /\ w.id = id /\ WindowType(w) /\ w.kind # "balance"
    /\ w.binding <=> id[2] = NoScope
    /\ w.remaining \in 0..100 /\ w.remainingPct = w.remaining
    /\ Depleted(w) <=> v >= 100

LEMMA ClaudeWindowIs ==
    ASSUME NEW base, NEW kind \in Kinds \ {"balance"}, NEW scope, NEW v \in Int
    PROVE  IsCap(ClaudeWindow(base, kind, scope, v), <<base, scope>>, v)
<1> DEFINE id == <<base, scope>>
           b == scope = NoScope
           w == ClaudeWindow(base, kind, scope, v)
<1>1. b \in BOOLEAN /\ (b <=> id[2] = NoScope)
  OBVIOUS
<1>2. w = [PctWindow(id, kind, v) EXCEPT !.binding = b]
  BY DEF ClaudeWindow
<1> HIDE DEF id, b, w
<1>3. IsRated(w, id, kind, b, v)
  BY <1>2, PctWindowIs
<1>4. WindowType(w)
  BY <1>1, <1>3, RatedType
<1>5. IsCap(w, id, v)
  BY <1>1, <1>3, <1>4 DEF IsRated, IsCap
<1>6. QED
  BY <1>5 DEF w, id

LEMMA ClaudeKindType == \A name : ClaudeKind(name) \in Kinds \ {"balance"}
  BY DEF ClaudeKind, Kinds

LimitType == [name : ClaudeNames, model : {Absent} \cup STRING, pct : Numbers]

LEMMA LimitWindowIs ==
    ASSUME NEW l \in LimitType, Known(l.pct)
    PROVE  IsCap(LimitWindow(l), LimitWindow(l).id, l.pct)
<1>1. \E base, scope : LimitWindow(l) = ClaudeWindow(base, ClaudeKind(l.name), scope, l.pct)
  BY DEF LimitWindow
<1>2. PICK base, scope :
          LimitWindow(l) = ClaudeWindow(base, ClaudeKind(l.name), scope, l.pct)
  BY <1>1
<1>3. l.pct \in Int
  BY KnownNumber DEF LimitType
<1> DEFINE kind == ClaudeKind(l.name)
           w == ClaudeWindow(base, kind, scope, l.pct)
<1>4. kind \in Kinds \ {"balance"}
  BY ClaudeKindType
<1> HIDE DEF kind
<1>5. IsCap(w, <<base, scope>>, l.pct)
  BY <1>3, <1>4, ClaudeWindowIs
<1> HIDE DEF w
<1>6. IsCap(w, w.id, l.pct)
  BY <1>5 DEF IsCap
<1>7. QED
  BY <1>2, <1>6 DEF w, kind

LEMMA BucketWindowIs ==
    ASSUME NEW name, NEW v \in Int
    PROVE  /\ IsCap(BucketWindow(name, v), BucketWindow(name, v).id, v)
           /\ BucketWindow(name, v).id =
                <<IF name = "seven_day_opus" THEN "seven_day" ELSE name, ClaudeScope(name)>>
<1> DEFINE base == IF name = "seven_day_opus" THEN "seven_day" ELSE name
           kind == ClaudeKind(name)
           scope == ClaudeScope(name)
           w == ClaudeWindow(base, kind, scope, v)
<1>1. BucketWindow(name, v) = w
  BY DEF BucketWindow
<1>2. kind \in Kinds \ {"balance"}
  BY ClaudeKindType
<1> HIDE DEF base, kind, scope
<1>3. IsCap(w, <<base, scope>>, v)
  BY <1>2, ClaudeWindowIs
<1> HIDE DEF w
<1>4. w.id = <<base, scope>> /\ IsCap(w, w.id, v)
  BY <1>3 DEF IsCap
<1>5. QED
  BY <1>1, <1>4 DEF base, scope

\* The limits that are added: the first rated one of each id.
Counts(limits, i) == Known(limits[i].pct)

LimitId(limits, i) == LimitWindow(limits[i]).id

IsFirst(limits, i) ==
    /\ Counts(limits, i)
    /\ \A j \in 1..(i - 1) : Counts(limits, j) => LimitId(limits, j) # LimitId(limits, i)

Firsts(limits, k) ==
    {LimitWindow(limits[i]) : i \in {i \in 1..k : IsFirst(limits, i)}}

LEMMA FirstOfId ==
    ASSUME NEW limits, NEW i \in Nat \ {0}, Counts(limits, i)
    PROVE  \E j \in 1..i : IsFirst(limits, j) /\ LimitId(limits, j) = LimitId(limits, i)
<1> DEFINE T == {j \in 1..i : Counts(limits, j) /\ LimitId(limits, j) = LimitId(limits, i)}
<1>1. T \in SUBSET Nat /\ T # {}
  OBVIOUS
<1>2. PICK j \in T : \A k \in T : j <= k
  <2> HIDE DEF T
  <2>1. QED
    BY <1>1, Least
<1>3. ASSUME NEW k \in 1..(j - 1), Counts(limits, k)
      PROVE  LimitId(limits, k) # LimitId(limits, j)
  <2>1. k \in 1..i /\ ~(j <= k)
    BY <1>2
  <2>2. k \notin T
    BY <1>2, <2>1
  <2>3. QED
    BY <1>2, <1>3, <2>1, <2>2
<1>4. QED
  BY <1>2, <1>3 DEF IsFirst

LEMMA ClaudeLoop ==
    ASSUME NEW limits \in Seq(LimitType)
    PROVE  ClaudeLimits(limits) = Firsts(limits, Len(limits))
<1> DEFINE L == Len(limits)
           X == SUBSET {LimitWindow(limits[i]) : i \in 1..L}
           Step(ws, i) == IF Known(limits[i].pct) THEN AddNew(ws, LimitWindow(limits[i]))
                                                  ELSE ws
           h == [i \in 1..L |-> [ws \in X |-> Step(ws, i)]]
           Body(g) == [S \in SUBSET DOMAIN limits |->
                         IF S = {} THEN {} ELSE Step(g[S \ {Max(S)}], Max(S))]
           f == CHOOSE f : f = Body(f)
<1>1. L \in Nat /\ DOMAIN limits = 1..L
  OBVIOUS
<1>2. h \in [1..L -> [X -> X]] /\ {} \in X
  BY DEF AddNew
<1>3. ClaudeLimits(limits) = f[DOMAIN limits]
  BY DEF ClaudeLimits, FoldLeft, MapThenFoldSet
<1>4. f = Body(f)
  <2> HIDE DEF L, X, Step
  <2>1. PICK g : FoldsTo(g, L, X, {}, h)
    <3> HIDE DEF h
    <3>1. QED
      BY <1>1, <1>2, FoldExists, Zenon
  <2>2. ASSUME NEW S \in SUBSET (1..L), S # {}
        PROVE  h[Max(S)][g[S \ {Max(S)}]] = Step(g[S \ {Max(S)}], Max(S))
    <3>1. Max(S) \in 1..L
      BY <1>1, <2>2, MaxOf
    <3>2. g[S \ {Max(S)}] \in X
      BY <2>1 DEF FoldsTo
    <3>3. QED
      BY <3>1, <3>2
  <2> HIDE DEF h
  <2>3. g = Body(g)
    BY <1>1, <2>1, <2>2 DEF FoldsTo
  <2>4. QED
    BY <2>3
<1> HIDE DEF f, Step
<1>5. f[1..0] = {}
  <2>1. 1..0 = {}
    OBVIOUS
  <2>2. QED
    BY <1>4, <2>1
<1>6. ASSUME NEW k \in Nat, k + 1 <= L
      PROVE  f[1..(k + 1)] = Step(f[1..k], k + 1)
  <2>1. 1..(k + 1) \in SUBSET DOMAIN limits
    BY <1>1, <1>6
  <2>2. f[1..(k + 1)] = IF 1..(k + 1) = {} THEN {}
                        ELSE Step(f[(1..(k + 1)) \ {Max(1..(k + 1))}], Max(1..(k + 1)))
    BY <1>4, <2>1, Zenon
  <2>3. QED
    BY <2>2, MaxOfPrefix, Zenon
<1> DEFINE T == {k \in Nat : k <= L => f[1..k] = Firsts(limits, k)}
<1>7. 0 \in T
  BY <1>5 DEF Firsts
<1>8. ASSUME NEW k \in Nat, k \in T
      PROVE  k + 1 \in T
  <2> SUFFICES ASSUME k + 1 <= L
               PROVE  f[1..(k + 1)] = Firsts(limits, k + 1)
    OBVIOUS
  <2> DEFINE ws == Firsts(limits, k)
             w == LimitWindow(limits[k + 1])
  <2>1. f[1..(k + 1)] = IF Counts(limits, k + 1)
                        THEN IF w.id \in Ids(ws) THEN ws ELSE ws \cup {w}
                        ELSE ws
    <3>1. f[1..k] = ws
      BY <1>1, <1>8
    <3>2. QED
      BY <1>6, <3>1 DEF Step, Counts, AddNew
  <2>2. Firsts(limits, k + 1) = IF IsFirst(limits, k + 1) THEN ws \cup {w} ELSE ws
    <3>1. \A i : i \in 1..(k + 1) <=> i \in 1..k \/ i = k + 1
      OBVIOUS
    <3>2. QED
      BY <3>1 DEF Firsts
  <2>3. ASSUME Counts(limits, k + 1)
        PROVE  IsFirst(limits, k + 1) <=> w.id \notin Ids(ws)
    <3>1. ASSUME w.id \in Ids(ws)
          PROVE  ~IsFirst(limits, k + 1)
      <4>1. PICK i \in 1..k : IsFirst(limits, i) /\ w.id = LimitId(limits, i)
        BY <3>1 DEF Ids, Firsts, LimitId
      <4>2. i \in 1..((k + 1) - 1) /\ Counts(limits, i)
        BY <4>1 DEF IsFirst
      <4>3. QED
        BY <4>1, <4>2 DEF IsFirst, LimitId
    <3>2. ASSUME ~IsFirst(limits, k + 1)
          PROVE  w.id \in Ids(ws)
      <4>1. PICK i \in 1..k : Counts(limits, i) /\ LimitId(limits, i) = w.id
        BY <2>3, <3>2 DEF IsFirst, LimitId
      <4>2. PICK j \in 1..i : IsFirst(limits, j) /\ LimitId(limits, j) = w.id
        BY <4>1, FirstOfId
      <4>3. j \in 1..k
        BY <4>1, <4>2
      <4>4. QED
        BY <4>2, <4>3 DEF Ids, Firsts, LimitId
    <3>3. QED
      BY <3>1, <3>2
  <2>4. ~Counts(limits, k + 1) => ~IsFirst(limits, k + 1)
    BY DEF IsFirst
  <2> HIDE DEF ws, w
  <2>5. QED
    BY <2>1, <2>2, <2>3, <2>4
<1> HIDE DEF T
<1>9. L \in T
  BY <1>1, <1>7, <1>8, Induction
<1>10. QED
  BY <1>1, <1>3, <1>9 DEF T

\* ClaudeRated, of any payload.
LimitEntry(p, i) ==
    [id |-> LimitWindow(p.limits[i]).id, at |-> i, out |-> p.limits[i].pct >= 100]

BucketEntry(p, n) ==
    [id |-> BucketWindow(n, p.buckets[n]).id, at |-> Len(p.limits) + 1,
     out |-> p.buckets[n] >= 100]

RatedLimits(p) == {i \in DOMAIN p.limits : Known(p.limits[i].pct)}

RatedBuckets(p) ==
    {n \in DOMAIN p.buckets : Known(p.buckets[n]) /\ ClaudeKind(n) # "unknown"}

Entries(p) == {LimitEntry(p, i) : i \in RatedLimits(p)}
              \cup {BucketEntry(p, n) : n \in RatedBuckets(p)}

CapOut(p) == \E e \in Entries(p) : /\ e.id[2] = NoScope /\ e.out
                                   /\ \A f \in Entries(p) : f.id = e.id => e.at <= f.at

\* The windows of the two parts of a payload, and where each is from.
ClaudeParts(p) == ClaudeBuckets(p.buckets, ClaudeLimits(p.limits))

LEMMA ClaudePartsAre ==
    ASSUME NEW p, ClaudePayload(p)
    PROVE  /\ Len(p.limits) \in Nat /\ RatedLimits(p) \subseteq 1..Len(p.limits)
           /\ \A i \in RatedLimits(p) :
                /\ IsCap(LimitWindow(p.limits[i]), LimitId(p.limits, i), p.limits[i].pct)
                /\ IsFirst(p.limits, i) => LimitWindow(p.limits[i]) \in ClaudeParts(p)
           /\ \A n \in RatedBuckets(p) :
                LET w == BucketWindow(n, p.buckets[n])
                IN  /\ IsCap(w, w.id, p.buckets[n])
                    /\ (\A i \in RatedLimits(p) : LimitId(p.limits, i) # w.id)
                         => w \in ClaudeParts(p)
           /\ \A w \in ClaudeParts(p) :
                \/ \E i \in RatedLimits(p) :
                     IsFirst(p.limits, i) /\ w = LimitWindow(p.limits[i])
                \/ \E n \in RatedBuckets(p) :
                     /\ w = BucketWindow(n, p.buckets[n])
                     /\ \A i \in RatedLimits(p) : LimitId(p.limits, i) # w.id
<1> DEFINE limits == p.limits
           L == Len(limits)
           first == ClaudeLimits(limits)
           bucket(n) == BucketWindow(n, p.buckets[n])
           found == {bucket(n) : n \in RatedBuckets(p)}
           ws == ClaudeParts(p)
<1>1. /\ limits \in Seq(LimitType) /\ L \in Nat /\ RatedLimits(p) \subseteq 1..L
      /\ \A i \in RatedLimits(p) : limits[i] \in LimitType /\ Counts(limits, i)
      /\ \A i \in 1..L : Counts(limits, i) => i \in RatedLimits(p)
  <2>1. limits \in Seq(LimitType)
    BY DEF ClaudePayload, LimitType
  <2>2. L \in Nat /\ DOMAIN limits = 1..L /\ \A i \in 1..L : limits[i] \in LimitType
    BY <2>1
  <2>3. \A i : i \in RatedLimits(p) <=> i \in DOMAIN limits /\ Counts(limits, i)
    BY DEF RatedLimits, Counts
  <2> HIDE DEF limits, L
  <2>4. QED
    BY <2>1, <2>2, <2>3
<1>2. \A i \in RatedLimits(p) :
          IsCap(LimitWindow(limits[i]), LimitId(limits, i), limits[i].pct)
  BY <1>1, LimitWindowIs DEF LimitId, Counts
<1>3. first = Firsts(limits, L)
  BY <1>1, ClaudeLoop
<1>4. /\ \A i \in RatedLimits(p) : IsFirst(limits, i) => LimitWindow(limits[i]) \in first
      /\ \A w \in first : \E i \in RatedLimits(p) :
            IsFirst(limits, i) /\ w = LimitWindow(limits[i])
  BY <1>1, <1>3 DEF Firsts, IsFirst
<1>5. \A x : x \notin Ids(first) <=> \A i \in RatedLimits(p) : LimitId(limits, i) # x
  <2>1. ASSUME NEW x, x \in Ids(first)
        PROVE  \E i \in RatedLimits(p) : LimitId(limits, i) = x
    BY <1>4, <2>1 DEF Ids, LimitId
  <2>2. ASSUME NEW i \in RatedLimits(p)
        PROVE  LimitId(limits, i) \in Ids(first)
    <3>1. i \in Nat \ {0} /\ Counts(limits, i)
      BY <1>1
    <3>2. PICK j \in 1..i : IsFirst(limits, j) /\ LimitId(limits, j) = LimitId(limits, i)
      BY <3>1, FirstOfId
    <3>3. j \in RatedLimits(p)
      BY <1>1, <3>2 DEF IsFirst
    <3>4. QED
      BY <1>4, <3>2, <3>3 DEF Ids, LimitId
  <2>3. QED
    BY <2>1, <2>2
<1>6. \A n \in RatedBuckets(p) :
          /\ IsCap(bucket(n), bucket(n).id, p.buckets[n])
          /\ bucket(n).id = <<IF n = "seven_day_opus" THEN "seven_day" ELSE n,
                              ClaudeScope(n)>>
  <2>1. \A n \in RatedBuckets(p) : p.buckets[n] \in Int
    BY KnownNumber DEF RatedBuckets, ClaudePayload, Named
  <2>2. QED
    BY <2>1, BucketWindowIs
<1>7. ws = first \cup {w \in found : w.id \notin Ids(first)}
  BY DEF ClaudeParts, ClaudeBuckets, RatedBuckets
<1> HIDE DEF limits, first, bucket, ws
<1>8. \A w \in ws :
          \/ \E i \in RatedLimits(p) : IsFirst(limits, i) /\ w = LimitWindow(limits[i])
          \/ \E n \in RatedBuckets(p) :
               w = bucket(n) /\ \A i \in RatedLimits(p) : LimitId(limits, i) # w.id
  BY <1>4, <1>5, <1>7
<1>9. \A n \in RatedBuckets(p) :
          (\A i \in RatedLimits(p) : LimitId(limits, i) # bucket(n).id) => bucket(n) \in ws
  BY <1>5, <1>7
<1>10. QED
  BY <1>1, <1>2, <1>4, <1>6, <1>7, <1>8, <1>9 DEF limits, bucket, ws

\* What the entries say of the windows.
LEMMA EntriesSay ==
    ASSUME NEW p, ClaudePayload(p)
    PROVE  /\ (\E w \in ClaudeParts(p) : w.binding /\ Depleted(w)) <=> CapOut(p)
           /\ ClaudeParts(p) # {} => Entries(p) # {}
<1> DEFINE limits == p.limits
           L == Len(limits)
           bucket(n) == BucketWindow(n, p.buckets[n])
           ws == ClaudeParts(p)
           le(i) == LimitEntry(p, i)
           be(n) == BucketEntry(p, n)
<1>1. /\ L \in Nat /\ RatedLimits(p) \subseteq 1..L
      /\ \A i \in RatedLimits(p) :
           /\ IsCap(LimitWindow(limits[i]), LimitId(limits, i), limits[i].pct)
           /\ IsFirst(limits, i) => LimitWindow(limits[i]) \in ws
      /\ \A n \in RatedBuckets(p) :
           /\ IsCap(bucket(n), bucket(n).id, p.buckets[n])
           /\ (\A i \in RatedLimits(p) : LimitId(limits, i) # bucket(n).id)
                => bucket(n) \in ws
      /\ \A w \in ws :
           \/ \E i \in RatedLimits(p) : IsFirst(limits, i) /\ w = LimitWindow(limits[i])
           \/ \E n \in RatedBuckets(p) :
                w = bucket(n) /\ \A i \in RatedLimits(p) : LimitId(limits, i) # w.id
  BY ClaudePartsAre
<1>2. \A i \in RatedLimits(p) :
          /\ le(i) \in Entries(p) /\ le(i).id = LimitId(limits, i) /\ le(i).at = i
          /\ le(i).out <=> limits[i].pct >= 100
          /\ Counts(limits, i)
  BY DEF Entries, LimitEntry, LimitId, RatedLimits, Counts
<1>3. \A n \in RatedBuckets(p) :
          /\ be(n) \in Entries(p) /\ be(n).id = bucket(n).id /\ be(n).at = L + 1
          /\ be(n).out <=> p.buckets[n] >= 100
  BY DEF Entries, BucketEntry
<1>4. \A e \in Entries(p) : \/ \E i \in RatedLimits(p) : e = le(i)
                            \/ \E n \in RatedBuckets(p) : e = be(n)
  BY DEF Entries
<1>5. \A i \in 1..L : Counts(limits, i) => i \in RatedLimits(p)
  <2>1. DOMAIN limits = 1..L
    BY DEF ClaudePayload
  <2>2. QED
    BY <2>1 DEF RatedLimits, Counts
<1> HIDE DEF limits, L, bucket, ws, le, be
<1>6. ASSUME NEW w \in ws, w.binding, Depleted(w)
      PROVE  CapOut(p)
  <2>1. CASE \E i \in RatedLimits(p) : IsFirst(limits, i) /\ w = LimitWindow(limits[i])
    <3>1. PICK i \in RatedLimits(p) : IsFirst(limits, i) /\ w = LimitWindow(limits[i])
      BY <2>1
    <3>2. le(i).id[2] = NoScope /\ le(i).out
      BY <1>1, <1>2, <1>6, <3>1 DEF IsCap
    <3>3. ASSUME NEW f \in Entries(p), f.id = le(i).id
          PROVE  le(i).at <= f.at
      <4>1. ASSUME NEW j \in RatedLimits(p), f = le(j)
            PROVE  le(i).at <= f.at
        <5>1. i \in 1..L /\ j \in 1..L /\ Counts(limits, j)
          BY <1>1, <1>2
        <5>2. LimitId(limits, j) = LimitId(limits, i)
          BY <1>2, <3>3, <4>1
        <5>3. j \notin 1..(i - 1)
          BY <3>1, <5>1, <5>2 DEF IsFirst
        <5>4. QED
          BY <1>2, <4>1, <5>1, <5>3
      <4>2. ASSUME NEW n \in RatedBuckets(p), f = be(n)
            PROVE  le(i).at <= f.at
        BY <1>1, <1>2, <1>3, <4>2
      <4>3. QED
        BY <1>4, <4>1, <4>2
    <3>4. QED
      BY <1>2, <3>2, <3>3 DEF CapOut
  <2>2. CASE \E n \in RatedBuckets(p) :
               w = bucket(n) /\ \A i \in RatedLimits(p) : LimitId(limits, i) # w.id
    <3>1. PICK n \in RatedBuckets(p) :
               w = bucket(n) /\ \A i \in RatedLimits(p) : LimitId(limits, i) # w.id
      BY <2>2
    <3>2. be(n).id[2] = NoScope /\ be(n).out
      BY <1>1, <1>3, <1>6, <3>1 DEF IsCap
    <3>3. ASSUME NEW f \in Entries(p), f.id = be(n).id
          PROVE  be(n).at <= f.at
      <4>1. ~ \E j \in RatedLimits(p) : f = le(j)
        BY <1>2, <1>3, <3>1, <3>3
      <4>2. QED
        BY <1>1, <1>3, <1>4, <4>1
    <3>4. QED
      BY <1>3, <3>2, <3>3 DEF CapOut
  <2>3. QED
    BY <1>1, <2>1, <2>2
<1>7. ASSUME CapOut(p)
      PROVE  \E w \in ws : w.binding /\ Depleted(w)
  <2>1. PICK e \in Entries(p) : /\ e.id[2] = NoScope /\ e.out
                                /\ \A f \in Entries(p) : f.id = e.id => e.at <= f.at
    BY <1>7 DEF CapOut
  <2>2. ASSUME NEW i \in RatedLimits(p), e = le(i)
        PROVE  \E w \in ws : w.binding /\ Depleted(w)
    <3>1. ASSUME NEW j \in 1..(i - 1), Counts(limits, j)
          PROVE  LimitId(limits, j) # LimitId(limits, i)
      <4>1. i \in 1..L /\ j \in 1..L /\ j < i
        BY <1>1
      <4>2. j \in RatedLimits(p)
        BY <1>5, <3>1, <4>1
      <4>3. ~(le(i).at <= le(j).at)
        BY <1>2, <4>1, <4>2
      <4>4. QED
        BY <1>2, <2>1, <2>2, <4>2, <4>3
    <3>2. IsFirst(limits, i)
      BY <1>2, <3>1 DEF IsFirst
    <3>3. LimitWindow(limits[i]).binding /\ Depleted(LimitWindow(limits[i]))
      BY <1>1, <1>2, <2>1, <2>2 DEF IsCap
    <3>4. QED
      BY <1>1, <3>2, <3>3
  <2>3. ASSUME NEW n \in RatedBuckets(p), e = be(n)
        PROVE  \E w \in ws : w.binding /\ Depleted(w)
    <3>1. ASSUME NEW i \in RatedLimits(p)
          PROVE  LimitId(limits, i) # bucket(n).id
      <4>1. ~(be(n).at <= le(i).at)
        BY <1>1, <1>2, <1>3
      <4>2. QED
        BY <1>2, <1>3, <2>1, <2>3, <4>1
    <3>2. bucket(n).binding /\ Depleted(bucket(n))
      BY <1>1, <1>3, <2>1, <2>3 DEF IsCap
    <3>3. QED
      BY <1>1, <3>1, <3>2
  <2>4. QED
    BY <1>4, <2>1, <2>2, <2>3
<1>8. ws # {} => Entries(p) # {}
  BY <1>1, <1>2, <1>3
<1>9. QED
  BY <1>6, <1>7, <1>8 DEF ws

LEMMA ClaudeReport ==
    ASSUME NEW p, ClaudePayload(p)
    PROVE  LET r == ParseClaude(p)
           IN  /\ WellFormed(r)
               /\ HasQuota(r.reading.state) =>
                    /\ Entries(p) # {}
                    /\ r.reading.state = "limited" <=> CapOut(p)
                    /\ r.reading.state = "limited"
                         <=> \E w \in Tightest(r.windows) : Depleted(w)
<1> DEFINE ws == ClaudeParts(p)
           id == <<"extra_usage", NoScope>>
           extra == Extra(id, p.extra)
           all == ClaudeExtra(p.extra, ws)
           r == ParseClaude(p)
<1>1. r = IF ws = {} THEN Failure("error", "schema") ELSE Report(Unset, all)
  BY DEF ParseClaude, ClaudeParts
<1>2. \A w \in ws : /\ WindowType(w) /\ w.kind # "balance"
                    /\ w.remaining \in 0..100 /\ w.remainingPct = w.remaining
  <2> DEFINE lw(i) == LimitWindow(p.limits[i])
             bw(n) == BucketWindow(n, p.buckets[n])
  <2>1. /\ \A i \in RatedLimits(p) : IsCap(lw(i), LimitId(p.limits, i), p.limits[i].pct)
        /\ \A n \in RatedBuckets(p) : IsCap(bw(n), bw(n).id, p.buckets[n])
        /\ \A w \in ws : \/ \E i \in RatedLimits(p) : w = lw(i)
                         \/ \E n \in RatedBuckets(p) : w = bw(n)
    BY ClaudePartsAre
  <2> HIDE DEF lw, bw, ws
  <2>2. ASSUME NEW w \in ws
        PROVE  \E id0, v : IsCap(w, id0, v)
    BY <2>1, Zenon
  <2>3. QED
    BY <2>2 DEF IsCap
<1>4. \/ all = ws
      \/ all = ws \cup {extra} /\ extra.id \notin Ids(ws) /\ p.extra \in Amounts
  BY DEF ClaudeExtra, AddNew, Extra, Known, ClaudePayload
<1>5. p.extra \in Amounts => /\ WindowType(extra) /\ extra.kind # "balance"
                             /\ ~extra.binding
  <2> HIDE DEF id
  <2>1. QED
    BY ExtraIs
<1> HIDE DEF ws, extra, all
<1>6. \A w \in all : /\ WindowType(w) /\ w.kind # "balance"
                     /\ w \in ws \/ ~w.binding
  BY <1>2, <1>4, <1>5
<1>8. (\E w \in all : w.binding /\ Depleted(w)) <=> CapOut(p)
  <2>1. (\E w \in all : w.binding /\ Depleted(w)) <=> \E w \in ws : w.binding /\ Depleted(w)
    BY <1>4, <1>6
  <2>2. QED
    BY <2>1, EntriesSay DEF ws
<1>9. DeriveState(all) = "limited" <=> CapOut(p)
  BY <1>6, <1>8, DeriveLimited
<1>10. DeriveState(all) = "limited" <=> \E w \in Tightest(all) : Depleted(w)
  <2>1. Percentages(all)
    BY <1>2, <1>6 DEF Percentages
  <2>2. QED
    BY <1>6, <2>1, TightestRight
<1>11. CASE ws = {}
  BY <1>1, <1>11, SchemaFormed
<1>12. CASE ws # {}
  <2>1. WellFormed(r) /\ r.windows = all /\ r.reading.state = DeriveState(all)
    BY <1>1, <1>6, <1>12, ReportFormed
  <2>2. Entries(p) # {}
    BY <1>12, EntriesSay DEF ws
  <2> HIDE DEF r
  <2>3. QED
    BY <1>9, <1>10, <2>1, <2>2 DEF r
<1>13. QED
  BY <1>11, <1>12

-----------------------------------------------------------------------------
(***************************************************************************)
(* The properties of Fetch.                                                *)
(***************************************************************************)
LEMMA FetchFormed == FetchInv => FetchTypeOK /\ AnswersExpected
<1> SUFFICES ASSUME FetchInv PROVE FetchTypeOK /\ AnswersExpected
  OBVIOUS
<1>1. ASSUME NEW report, WellFormed(report), Reports(report)
      PROVE  FetchTypeOK /\ AnswersExpected
  <2>1. FetchTypeOK
    BY <1>1 DEF WellFormed, WindowType, Sound, IsAnswer, Reports, FetchTypeOK
  <2>2. AnswersExpected
    BY <1>1 DEF WellFormed, Sound, Reports, AnswersExpected
  <2>3. QED
    BY <2>1, <2>2
<1>2. CASE NoVerdict
  BY <1>2 DEF NoVerdict, FetchTypeOK
<1>3. CASE wire.provider = "claude" /\ ClaudePayload(payload) /\ Reports(ParseClaude(payload))
  BY <1>1, <1>3, ClaudeReport
<1>4. CASE wire.provider = "codex" /\ CodexPayload(payload) /\ Reports(ParseCodex(payload))
  BY <1>1, <1>4, CodexReport
<1>5. CASE wire.provider = "agy" /\ AgyPayload(payload) /\ Reports(ParseAgy(payload))
  BY <1>1, <1>5, AgyReport
<1>6. CASE wire.provider = "kiro" /\ KiroPayload(payload) /\ Reports(ParseKiro(payload))
  BY <1>1, <1>6, KiroReport
<1>7. CASE wire.provider = "copilot" /\ CopilotPayload(payload)
                                    /\ Reports(ParseCopilot(payload))
  BY <1>1, <1>7, CopilotReport
<1>8. CASE wire.provider = "deepseek" /\ DeepSeekPayload(payload)
                                     /\ Reports(ParseDeepSeek(payload))
  BY <1>1, <1>8, DeepSeekReport
<1>9. QED
  BY <1>2, <1>3, <1>4, <1>5, <1>6, <1>7, <1>8, FetchCases

\* A provider's verdict is what its parser made of the payload.
LEMMA JudgedBy ==
    ASSUME FetchInv, HasQuota(reading.state)
    PROVE  /\ wire.provider = "claude" =>
                ClaudePayload(payload) /\ Reports(ParseClaude(payload))
           /\ wire.provider = "codex" =>
                CodexPayload(payload) /\ Reports(ParseCodex(payload))
           /\ wire.provider = "agy" =>
                AgyPayload(payload) /\ Reports(ParseAgy(payload))
           /\ wire.provider = "kiro" =>
                KiroPayload(payload) /\ Reports(ParseKiro(payload))
           /\ wire.provider = "copilot" =>
                CopilotPayload(payload) /\ Reports(ParseCopilot(payload))
           /\ wire.provider = "deepseek" =>
                DeepSeekPayload(payload) /\ Reports(ParseDeepSeek(payload))
           /\ wire.provider \in {"claude", "codex", "agy", "kiro", "copilot", "deepseek"}
<1>1. ~NoVerdict
  BY DEF NoVerdict
<1>2. QED
  BY <1>1, FetchCases, Zenon

LEMMA RatedAreEntries == ClaudeRated = Entries(payload)
  BY DEF ClaudeRated, Entries, RatedLimits, RatedBuckets, LimitEntry, BucketEntry

LEMMA ClaudeVerdict ==
    ASSUME FetchInv, Judged("claude")
    PROVE  /\ ClaudeRated # {}
           /\ reading.state = "limited" <=> CapOut(payload)
           /\ reading.state = "limited" <=> \E w \in Tightest(windows) : Depleted(w)
<1>1. ClaudePayload(payload) /\ Reports(ParseClaude(payload)) /\ HasQuota(reading.state)
  BY JudgedBy DEF Judged
<1>2. QED
  BY <1>1, ClaudeReport, RatedAreEntries DEF Reports

LEMMA AgyVerdict ==
    ASSUME FetchInv, Judged("agy")
    PROVE  /\ payload.run = "json" /\ \E b \in ToSet(payload.buckets) : Known(b.left)
           /\ reading.state = "limited" <=> \E w \in Tightest(windows) : Depleted(w)
<1>1. AgyPayload(payload) /\ Reports(ParseAgy(payload)) /\ HasQuota(reading.state)
  BY JudgedBy DEF Judged
<1>2. QED
  BY <1>1, AgyReport DEF Reports

\* Every reading a fetch ends with is well formed, whatever the payload, and no
\* window of it claims more than everything left, or less than nothing.
THEOREM FetchTypeCorrect == FetchSpec => []FetchTypeOK
  BY FetchFormed, FetchSafe, PTL

\* For every payload and every failure of every provider, a fetch returns what the
\* Client's own theorems assume of it (AnswersAssumption of Client).
THEOREM AnswersExpectedHold == FetchSpec => []AnswersExpected
  BY FetchFormed, FetchSafe, PTL

\* However many limits and buckets a Claude payload has, in any order and of any
\* name, the account is limited exactly when an account-wide cap is used up.
THEOREM AccountCapsEnforcedHold == FetchSpec => []AccountCapsEnforced
<1>1. FetchInv => AccountCapsEnforced
  <2> SUFFICES ASSUME FetchInv, Judged("claude")
               PROVE  reading.state = "limited" <=>
                        \E e \in ClaudeRated :
                            /\ e.id[2] = NoScope /\ e.out
                            /\ \A f \in ClaudeRated : f.id = e.id => e.at <= f.at
    BY DEF AccountCapsEnforced
  <2>1. QED
    BY ClaudeVerdict, RatedAreEntries DEF CapOut
<1>2. QED
  BY <1>1, FetchSafe, PTL

\* Features and credits never limit a Codex account, however many it has.
THEOREM ScopedNeverDecidesHolds == FetchSpec => []ScopedNeverDecides
<1>1. FetchInv => ScopedNeverDecides
  <2> SUFFICES ASSUME FetchInv, Judged("codex"), reading.state = "limited"
               PROVE  /\ Known(payload.limit)
                      /\ \/ payload.limit.reached
                         \/ \E w \in {payload.limit.primary, payload.limit.secondary} :
                              Known(w) /\ UsedOut(w)
    BY DEF ScopedNeverDecides, UsedOut
  <2>1. CodexPayload(payload) /\ Reports(ParseCodex(payload)) /\ HasQuota(reading.state)
    BY JudgedBy DEF Judged
  <2>2. QED
    BY <2>1, CodexReport DEF Reports
<1>2. QED
  BY <1>1, FetchSafe, PTL

\* Whichever provider sends it, a payload in which no entry has the numbers a verdict
\* takes is never shown as healthy or limited, nor a Kiro payload with a breakdown
\* that lacks those of its plan.
THEOREM UnrecognizedNeverHealthyHolds == FetchSpec => []UnrecognizedNeverHealthy
<1>1. FetchInv => UnrecognizedNeverHealthy
  <2> SUFFICES ASSUME FetchInv, HasQuota(reading.state)
               PROVE  Rated
    BY DEF UnrecognizedNeverHealthy
  <2>1. CASE wire.provider = "claude"
    BY <2>1, ClaudeVerdict DEF Judged, Rated
  <2>2. CASE wire.provider = "codex"
    <3>1. CodexPayload(payload) /\ Reports(ParseCodex(payload))
      BY <2>2, JudgedBy
    <3>2. \E l \in {payload.limit} \cup {f.limit : f \in payload.features} : LimitRated(l)
      BY <3>1, CodexReport DEF Reports
    <3>3. CodexRated
      BY <3>2, Zenon DEF CodexRated, LimitRated, HasPct
    <3>4. QED
      BY <2>2, <3>3 DEF Rated
  <2>3. CASE wire.provider = "agy"
    BY <2>3, AgyVerdict DEF Judged, Rated
  <2>4. CASE wire.provider = "kiro"
    <3>1. KiroPayload(payload) /\ Reports(ParseKiro(payload))
      BY <2>4, JudgedBy
    <3>2. /\ payload.breakdowns # <<>>
          /\ \A b \in ToSet(payload.breakdowns) : Known(b.used) /\ Known(b.limit)
      BY <3>1, KiroReport DEF Reports
    <3>3. QED
      BY <2>4, <3>2 DEF Rated
  <2>5. CASE wire.provider = "copilot"
    <3>1. CopilotPayload(payload) /\ Reports(ParseCopilot(payload))
      BY <2>5, JudgedBy
    <3>2. \/ \E s \in Range(payload.snapshots) : SnapshotRated(s)
          \/ \E q \in Range(payload.free) : Known(q.left) /\ Known(q.limit)
      BY <3>1, CopilotReport DEF Reports
    <3>3. CopilotRated
      BY <3>2 DEF CopilotRated, SnapshotRated
    <3>4. QED
      BY <2>5, <3>3 DEF Rated
  <2>6. CASE wire.provider = "deepseek"
    <3>1. DeepSeekPayload(payload) /\ Reports(ParseDeepSeek(payload))
      BY <2>6, JudgedBy
    <3>2. \E b \in ToSet(payload.balances) : Known(b.total)
      BY <3>1, DeepSeekReport DEF Reports
    <3>3. QED
      BY <2>6, <3>2 DEF Rated
  <2>7. QED
    BY <2>1, <2>2, <2>3, <2>4, <2>5, <2>6, JudgedBy
<1>2. QED
  BY <1>1, FetchSafe, PTL

\* However many breakdowns and bonuses a Kiro payload has, a window in debt takes
\* nothing from what the others have left.
THEOREM KiroLimitedWhenEmptyHolds == FetchSpec => []KiroLimitedWhenEmpty
<1>1. FetchInv => KiroLimitedWhenEmpty
  <2> SUFFICES ASSUME FetchInv, Judged("kiro")
               PROVE  reading.state = "limited" <=>
                        \A b \in ToSet(payload.breakdowns) : KiroEmpty(payload, b)
    BY DEF KiroLimitedWhenEmpty, KiroEmpty
  <2>1. KiroPayload(payload) /\ Reports(ParseKiro(payload)) /\ HasQuota(reading.state)
    BY JudgedBy DEF Judged
  <2>2. QED
    BY <2>1, KiroReport DEF Reports
<1>2. QED
  BY <1>1, FetchSafe, PTL

\* A DeepSeek account with money left in any of its currencies is not exhausted,
\* unless the provider says it is unavailable.
THEOREM ExhaustedWhenBrokeHolds == FetchSpec => []ExhaustedWhenBroke
<1>1. FetchInv => ExhaustedWhenBroke
  <2> SUFFICES ASSUME FetchInv, Judged("deepseek")
               PROVE  reading.state = "exhausted" <=>
                        \/ ~payload.available
                        \/ \A b \in ToSet(payload.balances) : Known(b.total) => b.total <= 0
    BY DEF ExhaustedWhenBroke
  <2>1. DeepSeekPayload(payload) /\ Reports(ParseDeepSeek(payload)) /\ HasQuota(reading.state)
    BY JudgedBy DEF Judged
  <2>2. QED
    BY <2>1, DeepSeekReport DEF Reports
<1>2. QED
  BY <1>1, FetchSafe, PTL

\* The tightest window a caller shows never contradicts the verdict.
THEOREM TightestDecidesHolds == FetchSpec => []TightestDecides
<1>1. FetchInv => TightestDecides
  BY ClaudeVerdict, AgyVerdict DEF TightestDecides
<1>2. QED
  BY <1>1, FetchSafe, PTL
=============================================================================
