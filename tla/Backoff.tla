------------------------------- MODULE Backoff -------------------------------
(***************************************************************************)
(* How long a Client waits before the next upstream call (client.go):      *)
(* the jittered exponential backoff after a failure, and the interval and  *)
(* its slack after an answer.  Time is counted in whole ticks.             *)
(***************************************************************************)
EXTENDS Integers

CONSTANTS
    BaseBackoff,    \* Client.BaseBackoff after defaulting (30s)
    MaxBackoff,     \* Client.MaxBackoff after defaulting (30m)
    Jitter,         \* Client.Jitter in percent; at most 100
    SlackDivisor,   \* the slack is this fraction of the interval (20: 5%)
    SlackCap        \* and never more than this (30s)

ASSUME BackoffAssumption ==
    /\ BaseBackoff \in Nat \ {0}
    /\ MaxBackoff \in Nat \ {0}
    /\ Jitter \in 0..100
    /\ SlackDivisor \in Nat \ {0}
    /\ SlackCap \in Nat

\* d after the loop "for i := 1; i < failures && d < max; i++ { d *= 2 }".
Doubled[failures \in Nat] ==
    IF failures <= 1 THEN BaseBackoff
    ELSE LET d == Doubled[failures - 1]
         IN  IF d < MaxBackoff THEN 2 * d ELSE d

\* The delay before jitter.
Delay(failures) ==
    IF Doubled[failures] > MaxBackoff THEN MaxBackoff ELSE Doubled[failures]

\* d * (1 +/- Jitter): every whole delay the random draw can give.
Jittered(d) ==
    {x \in 0..(2 * MaxBackoff) :
        /\ d * (100 - Jitter) <= 100 * x
        /\ 100 * x <= d * (100 + Jitter)}

\* Wrong: Retry-After is dropped.
WaitsNoHeader(failures, retryAfter) == Jittered(Delay(failures))

\* Client.backoff: a longer Retry-After wins.
Waits(failures, retryAfter) ==
    {IF retryAfter > x THEN retryAfter ELSE x : x \in Jittered(Delay(failures))}

\* minIntervalSlack
MinIntervalSlack(interval) ==
    LET s == interval \div SlackDivisor
    IN  IF s > SlackCap THEN SlackCap ELSE s
=============================================================================
