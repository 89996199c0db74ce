------------------------------- MODULE Reading -------------------------------
(***************************************************************************)
(* The result of one probe (reading.go) and how a failure, a local answer  *)
(* and a finished probe are turned into one.                               *)
(*                                                                         *)
(* A Reading keeps the fields the Client decides by: the account, the      *)
(* state, the cause, the time of measurement, the stale and transient      *)
(* marks, Retry-After and the next attempt.  Windows, plan and message are *)
(* determined by the measurement and are identified by "fetched".  An      *)
(* account stands for a (provider, fingerprint) pair.                      *)
(***************************************************************************)
EXTENDS Integers

CONSTANTS
    Accounts,   \* (provider, fingerprint) pairs
    NoAccount   \* the empty fingerprint

ASSUME NoAccountAssumption == NoAccount \notin Accounts

\* Go's zero time and nil *time.Time; real instants are positive.
NoTime == 0

\* The empty string of an unset State or Cause.
Unset == "unset"

QuotaStates == {"ok", "limited", "exhausted"}

States == QuotaStates \cup
          {"rate_limited", "auth_required", "unsupported", "error"}

\* What a home's local files say of its credential (the providers' identify
\* functions); also the cause of the terminal answer when it is not usable.
Verdicts == {"usable", "token_expired", "login_expired", "no_credentials",
             "api_key_login", "api_shutdown"}

\* The logins that report no quota at all.
UnsupportedLogins == {"api_key_login", "api_shutdown"}

\* The machine-readable causes; statuses are banded.
Causes == {Unset, "network", "timeout", "schema", "not_installed", "exit_status",
           "agy_status", "login_required", "throttled", "no_copilot", "http_401", "http_403",
           "http_404", "http_429", "http_5xx", "http_other",
           "unknown_provider"} \cup Verdicts

HasQuota(st) == st \in QuotaStates

\* The type of a Reading; state Unset is the zero value.
Readings == [account    : Accounts \cup {NoAccount},
             state      : States \cup {Unset},
             cause      : Causes,
             fetched    : Nat,
             stale      : BOOLEAN,
             transient  : BOOLEAN,
             retryAfter : Nat,
             retryAt    : Nat]

\* The zero Reading: an unset entry.last, and a nil entry.lastGood.
NoReading == [account |-> NoAccount, state |-> Unset, cause |-> Unset,
              fetched |-> NoTime, stale |-> FALSE, transient |-> FALSE,
              retryAfter |-> 0, retryAt |-> NoTime]

\* Wrong: of the answers, only a denied credential is final.
FailUnlessDenied(st, cause) ==
    [NoReading EXCEPT !.state = st, !.cause = cause, !.transient = st # "auth_required"]

(***************************************************************************)
(* fail: a classified failure; a throttled or broken measurement is        *)
(* transient, a refused or unsupported one is an answer.                   *)
(***************************************************************************)
Fail(st, cause) ==
    [NoReading EXCEPT !.state = st, !.cause = cause,
                      !.transient = st \in {"rate_limited", "error"}]

\* A measurement that came back: Reading{Windows: ws} with its verdict.
Measured(st) == [NoReading EXCEPT !.state = st]

(***************************************************************************)
(* Prober.finish: stamp the account, the time of measurement and the next  *)
(* attempt, unless the provider already set them.                          *)
(***************************************************************************)
Finish(r, account, now) ==
    LET at == IF r.fetched = NoTime THEN now ELSE r.fetched
    IN  [r EXCEPT !.account = IF @ = NoAccount THEN account ELSE @,
                  !.fetched = at,
                  !.retryAt = IF @ = NoTime /\ r.retryAfter > 0
                              THEN at + r.retryAfter ELSE @]

\* The causes of an endpoint's refusal.
Refusals == {"http_401", "http_403", "http_404"}

\* What a provider's fetch may return: a Reading that is not yet finished; only a
\* failure is transient, a failure has a cause, and a refusal is final.
IsAnswer(r) ==
    /\ r \in Readings
    /\ r.account = NoAccount /\ r.fetched = NoTime /\ r.retryAt = NoTime
    /\ ~r.stale /\ r.state # Unset
    /\ r.transient => ~HasQuota(r.state) /\ r.cause # Unset
    /\ r.cause \in Refusals => ~r.transient

-----------------------------------------------------------------------------
(***************************************************************************)
(* The login in a home's files: an account, and a verdict.  Every verdict  *)
(* but "usable" and "token_expired" is final; an access token that only    *)
(* the CLI may refresh is "token_expired", and transient.                  *)
(***************************************************************************)
Logins == {l \in [account : Accounts \cup {NoAccount}, verdict : Verdicts] :
             l.verdict \in {"usable", "token_expired"} => l.account # NoAccount}

Usable(login) == login.verdict = "usable"

\* The terminal Reading Prober.Identify returns for a login that is not usable.
LocalReading(login, now) ==
    LET st == IF login.verdict \in UnsupportedLogins THEN "unsupported"
                                                     ELSE "auth_required"
        r  == [Fail(st, login.verdict) EXCEPT
                 !.transient = login.verdict = "token_expired"]
    IN  Finish(r, login.account, now)
=============================================================================
