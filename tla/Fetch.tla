-------------------------------- MODULE Fetch --------------------------------
(***************************************************************************)
(* A provider's fetch as a whole: the exchange with its endpoint (or the   *)
(* run of agy) and, when that brought a payload, what its parser makes of  *)
(* it.                                                                     *)
(***************************************************************************)
EXTENDS Exchange, Usage

CONSTANT Payloads   \* what endpoints and agy may answer

ASSUME PayloadAssumption ==
    \A p \in Payloads :
        CASE p.provider = "claude"   -> ClaudePayload(p)
          [] p.provider = "codex"    -> CodexPayload(p)
          [] p.provider = "agy"      -> AgyPayload(p)
          [] p.provider = "kiro"     -> KiroPayload(p)
          [] p.provider = "copilot"  -> CopilotPayload(p)
          [] p.provider = "deepseek" -> DeepSeekPayload(p)

VARIABLE windows    \* the windows of the reading

fetchVars == <<vars, windows>>

\* The payload of a wire stands where Exchange has the verdict it leads to.
Delivered ==
    {[provider |-> p.provider, says |-> "nothing",
      exchange |-> [outcome |-> "decoded", payload |-> p]] : p \in Payloads}

FetchInit ==
    /\ wire \in {w \in Wires : w.exchange.outcome # "decoded"} \cup Delivered
    /\ reading = NoReading
    /\ windows = {}

\* httpJSON returned a Reading, and the fetch ends with it.
FetchFails ==
    /\ wire.exchange.outcome # "decoded"
    /\ Next
    /\ UNCHANGED windows

\* The parser's report is what the fetch returns.
Parsed(provider, report) ==
    /\ From(provider)
    /\ wire.exchange.outcome = "decoded"
    /\ reading' = report.reading
    /\ windows' = report.windows
    /\ UNCHANGED wire

FetchNext ==
    \/ FetchFails
    \/ Parsed("claude", ParseClaude(wire.exchange.payload))
    \/ Parsed("codex", ParseCodex(wire.exchange.payload))
    \/ Parsed("agy", ParseAgy(wire.exchange.payload))
    \/ Parsed("kiro", ParseKiro(wire.exchange.payload))
    \/ Parsed("copilot", ParseCopilot(wire.exchange.payload))
    \/ Parsed("deepseek", ParseDeepSeek(wire.exchange.payload))

FetchSpec == FetchInit /\ [][FetchNext]_fetchVars

-----------------------------------------------------------------------------
(***************************************************************************)
(* Properties; RefusalsFinal of Exchange is another.                       *)
(***************************************************************************)

payload == wire.exchange.payload

Judged(provider) == wire.provider = provider /\ HasQuota(reading.state)

\* Every Reading is well formed, and every window has a kind, a remaining amount
\* and, where it has one, a percentage between 0 and 100.
FetchTypeOK ==
    /\ reading \in Readings
    /\ \A w \in windows :
         /\ w.kind \in Kinds
         /\ w.binding \in BOOLEAN
         /\ w.remaining \in Int
         /\ Known(w.remainingPct) => w.remainingPct \in 0..100

\* What reaches the Client is what it relies on: no verdict, refusal or unsupported
\* login is marked for a retry, nothing is finished before its time, and a
\* Retry-After comes with something to retry; but for a credential that Kiro
\* denies in the body of a throttled or failing answer, which keeps its header's.
AnswersExpected ==
    Answered =>
        /\ IsAnswer(reading)
        /\ reading.state = "unsupported" => ~reading.transient
        /\ reading.retryAfter > 0 => reading.transient \/ KiroSays("denied")

\* An account-wide Claude cap is enforced whichever part of the payload reports
\* it, an unknown kind included: the account is limited exactly when the first
\* rated entry of some unscoped id, the limits before the buckets, is used up.
ClaudeRated ==
    {[id |-> LimitWindow(payload.limits[i]).id, at |-> i,
      out |-> payload.limits[i].pct >= 100] :
        i \in {i \in DOMAIN payload.limits : Known(payload.limits[i].pct)}}
    \cup
    {[id |-> BucketWindow(n, payload.buckets[n]).id, at |-> Len(payload.limits) + 1,
      out |-> payload.buckets[n] >= 100] :
        n \in {n \in DOMAIN payload.buckets :
                 Known(payload.buckets[n]) /\ ClaudeKind(n) # "unknown"}}

AccountCapsEnforced ==
    Judged("claude") =>
        (reading.state = "limited" <=>
            \E e \in ClaudeRated :
                /\ e.id[2] = NoScope /\ e.out
                /\ \A f \in ClaudeRated : f.id = e.id => e.at <= f.at)

\* Payloads that report no account-wide cap used up, whatever their features,
\* models and credits say, leave a Codex account ok (README.md:94).
ScopedNeverDecides ==
    Judged("codex") =>
        (reading.state = "limited" =>
            /\ Known(payload.limit)
            /\ \/ payload.limit.reached
               \/ \E w \in {payload.limit.primary, payload.limit.secondary} :
                    /\ Known(w)
                    /\ IF Known(w.used) THEN w.used >= 100
                       ELSE Known(w.left) /\ w.left <= 0)

\* A payload that rates nothing is a failure, never a healthy or a limited reading
\* (README.md:96): some entry of it has the numbers a verdict takes, and of Kiro
\* every breakdown has those of its plan.  The overage of a Kiro plan, its trial
\* and its bonuses count as nothing where their numbers are missing.
CodexRated ==
    \E l \in {payload.limit} \cup {f.limit : f \in payload.features} :
        /\ Known(l)
        /\ \E w \in {l.primary, l.secondary} :
             Known(w) /\ (Known(w.used) \/ Known(w.left))

CopilotRated ==
    \/ \E s \in Range(payload.snapshots) :
         /\ Known(s)
         /\ s.unlimited \/ (Known(s.entitled) /\ Known(s.left)) \/ Known(s.pct)
    \/ \E q \in Range(payload.free) : Known(q.left) /\ Known(q.limit)

Rated ==
    CASE wire.provider = "claude"  -> ClaudeRated # {}
      [] wire.provider = "codex"   -> CodexRated
      [] wire.provider = "agy"     ->
            payload.run = "json" /\ \E b \in ToSet(payload.buckets) : Known(b.left)
      [] wire.provider = "kiro"    ->
            /\ payload.breakdowns # <<>>
            /\ \A b \in ToSet(payload.breakdowns) : Known(b.used) /\ Known(b.limit)
      [] wire.provider = "copilot" -> CopilotRated
      [] wire.provider = "deepseek" -> \E b \in ToSet(payload.balances) : Known(b.total)

UnrecognizedNeverHealthy == HasQuota(reading.state) => Rated

\* A Kiro account is limited exactly when nothing is left anywhere: not in the
\* plan, whose usage includes the overage, nor in an active trial, active bonuses
\* or overage.  A missing limit leaves nothing, a missing usage everything.
LeftIn(a) == OrZero(a.used) < OrZero(a.limit)

KiroLimitedWhenEmpty ==
    Judged("kiro") =>
        (reading.state = "limited" <=>
            \A b \in ToSet(payload.breakdowns) :
                /\ b.used - OrZero(b.over) >= b.limit
                /\ Known(b.trial) /\ b.trial.active => ~LeftIn(b.trial)
                /\ \A n \in ToSet(b.bonuses) : n.active => ~LeftIn(n)
                /\ payload.overage /\ Known(b.cap) /\ b.cap > 0 => OrZero(b.over) >= b.cap)

\* A DeepSeek account is exhausted exactly when no currency has money left or
\* the provider says it is unavailable.
ExhaustedWhenBroke ==
    Judged("deepseek") =>
        (reading.state = "exhausted" <=>
            \/ ~payload.available
            \/ \A b \in ToSet(payload.balances) : Known(b.total) => b.total <= 0)

\* What a caller shows as the tightest window agrees with the verdict: where all
\* windows are percentages, Binding() has nothing left exactly when the account
\* is limited (README.md:112).
TightestDecides ==
    Judged("claude") \/ Judged("agy") =>
        (reading.state = "limited" <=> \E w \in Tightest(windows) : Depleted(w))
=============================================================================
