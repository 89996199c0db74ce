------------------------------ MODULE QuotaGate ------------------------------
(***************************************************************************)
(* What Client promises a quota endpoint (the comment on type Client, and  *)
(* the README's "Client behaviour"), without callers, caches or backoff:   *)
(* one account has at most one measurement in progress, and the next one   *)
(* begins no sooner than the reply to the last one asked for.              *)
(***************************************************************************)
EXTENDS Integers

CONSTANTS
    Keys,       \* accounts
    Interval,   \* the minimum interval of each
    Slack       \* the tolerance on it after an answer

VARIABLES
    clock,
    busy,       \* the accounts a measurement is in progress for
    reply       \* reply[k]: how its last one ended

gateVars == <<clock, busy, reply>>

\* Nothing yet; an answer; HTTP 429; or a failure.  The endpoint may have
\* asked to be left alone for "after".
Kinds == {"none", "answer", "throttled", "failure"}
Replies == [kind : Kinds, at : Nat, after : Nat]

\* When the endpoint may be asked again.
Polite(r, k, t) ==
    CASE r.kind = "none"      -> TRUE
      [] r.kind = "answer"    -> t + Slack[k] >= r.at + Interval[k]
      [] r.kind = "throttled" -> /\ t >= r.at + Interval[k]
                                 /\ t >= r.at + r.after
      [] r.kind = "failure"   -> t >= r.at + r.after

GateInit ==
    /\ clock \in Nat
    /\ busy = {}
    /\ reply = [k \in Keys |-> [kind |-> "none", at |-> 0, after |-> 0]]

Begin(k) ==
    /\ k \notin busy
    /\ Polite(reply[k], k, clock)
    /\ busy' = busy \cup {k}
    /\ UNCHANGED <<clock, reply>>

\* The measurement took place between the last reply and now.
End(k) ==
    /\ k \in busy
    /\ busy' = busy \ {k}
    /\ reply'[k] \in Replies
    /\ reply'[k].kind # "none"
    /\ reply[k].at <= reply'[k].at /\ reply'[k].at <= clock
    /\ reply' = [reply EXCEPT ![k] = reply'[k]]
    /\ UNCHANGED clock

Advance ==
    /\ clock' \in Nat
    /\ clock' > clock
    /\ UNCHANGED <<busy, reply>>

GateNext == Advance \/ \E k \in Keys : Begin(k) \/ End(k)

GateSpec == GateInit /\ [][GateNext]_gateVars
=============================================================================
