------------------------------ MODULE ClientGate ------------------------------
(***************************************************************************)
(* Client implements QuotaGate: the call in flight is the measurement in   *)
(* progress, and the last reading recorded is the reply.                   *)
(***************************************************************************)
EXTENDS Client

ReplyKind(r) ==
    CASE r = NoReading                                -> "none"
      [] r # NoReading /\ ~r.transient                -> "answer"
      [] r # NoReading /\ r.transient /\ r.state = "rate_limited" -> "throttled"
      [] OTHER                                        -> "failure"

\* Only a failure's Retry-After counts.
ReplyOf(r) ==
    [kind |-> ReplyKind(r), at |-> r.fetched,
     after |-> IF r.transient THEN r.retryAfter ELSE 0]

Gate == INSTANCE QuotaGate WITH
    Keys     <- Accounts,
    Interval <- MinInterval,
    Slack    <- [k \in Accounts |-> MinIntervalSlack(MinInterval[k])],
    clock    <- now,
    busy     <- {k \in Accounts : inflight[k] # NoCaller},
    reply    <- [k \in Accounts |-> ReplyOf(entries[k].last)]

\* However callers, logins, failures and time interleave, a quota endpoint sees
\* the behaviour QuotaGate promises: one measurement of an account at a time,
\* each no sooner than the interval, the 429 or the Retry-After before it allows
\* (client.go:28-31).
ImplementsQuotaGate == Gate!GateSpec
=============================================================================
