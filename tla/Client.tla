-------------------------------- MODULE Client --------------------------------
(***************************************************************************)
(* Client.Get (client.go): many goroutines ask for the quota of a home,    *)
(* and at most one of them at a time asks the account's quota endpoint.    *)
(*                                                                         *)
(* A caller resolves the account from the home's local files, then takes   *)
(* the Client's mutex to be answered from the cache, to join the call in   *)
(* flight or to lead a new one.  The leader identifies AGAIN inside        *)
(* Prober.Probe, measures with no lock held, records the result under the  *)
(* mutex, closes the call and runs the OnUpstream hook.  Every section     *)
(* that holds the mutex is one action; everything between two of them      *)
(* interleaves, the passing of time and a login in a home included.        *)
(***************************************************************************)
EXTENDS Reading, Backoff

CONSTANTS
    Homes,        \* the sources
    NoHome,       \* a caller outside Get asks for no home
    Callers,      \* goroutines inside Get
    NoCaller,     \* no leader: no call in flight, or the call's channel closed
    FirstLogin,   \* the login in each home's files at the start
    NextLogins,   \* the logins the CLI may write to each home afterwards
    Answers,      \* what a provider's measurement may return
    Unasked,      \* the causes a fetch may give up with before it asks anything
    MinInterval,  \* minInterval of the account's provider
    MaxTime       \* bound on the clock

ASSUME ClientAssumption ==
    /\ NoCaller \notin Callers
    /\ NoHome \notin Homes
    /\ FirstLogin \in [Homes -> Logins]
    /\ \A s \in Homes : NextLogins[s] \subseteq Logins
    /\ MinInterval \in [Accounts -> Nat]
    /\ MaxTime \in Nat

\* AnswersExpected of Fetch.
ASSUME AnswersAssumption == \A r \in Answers : IsAnswer(r)

\* An agy that is not installed, or a context that has ended.
ASSUME UnaskedAssumption == Unasked \subseteq Causes \ (Refusals \cup {Unset})

VARIABLES
    now,        \* the Prober's clock
    login,      \* login[s]: what the files of home s say
    entries,    \* Client.entries
    inflight,   \* Client.calls: who leads the account's call
    pc,         \* where each caller is in Get
    src,        \* the home it asks for
    key,        \* the account it resolved
    ident,      \* the account Probe resolved (leader only)
    cl,         \* the call it waits on, by its leader
    box,        \* the Reading it is working on
    res,        \* the Reading Get returned to it, until it asks again
    ctxDone,    \* its context has ended
    requests,   \* requests[k]: requests and agy runs begun in the name of k
    upstream,   \* upstream[k]: what calls of k have added to Client.upstream
    reported,   \* reported[k]: the OnUpstream calls of leaders of k
    measured    \* measured[a]: when account a's quota was really measured

callerVars == <<pc, src, key, ident, cl, box, res, ctxDone>>
clientVars == <<entries, inflight, upstream, reported>>
worldVars  == <<login, requests, measured>>
vars == <<now, callerVars, clientVars, worldVars>>

Steps == {"idle", "local", "gate", "wait", "identify", "fetch", "record",
          "close", "hook"}

-----------------------------------------------------------------------------
(* The entry of an account.  A missing entry and a zero one are the same to *)
(* every reader: neither gates a call nor holds a last-good reading.        *)

Entries == [last : Readings, lastGood : Readings, failures : Nat,
            nextAllowed : Nat, slack : Nat]

NoEntry == [last |-> NoReading, lastGood |-> NoReading, failures |-> 0,
            nextAllowed |-> NoTime, slack |-> 0]

\* Wrong: the last good reading is given the time of the failed attempt.
StaleOrRestamped(e, failed) ==
    IF e.lastGood = NoReading THEN failed
    ELSE [e.lastGood EXCEPT !.stale = TRUE, !.cause = failed.cause,
                            !.retryAt = failed.retryAt, !.transient = TRUE,
                            !.fetched = failed.fetched]

\* staleOr: the last good reading marked stale, or the failure itself.
StaleOr(e, failed) ==
    IF e.lastGood = NoReading THEN failed
    ELSE [e.lastGood EXCEPT !.stale = TRUE, !.cause = failed.cause,
                            !.retryAt = failed.retryAt, !.transient = TRUE]

\* Wrong: the last good reading stands in for every failure, refusals included.
FromCacheUnlessGood(e) == IF HasQuota(e.last.state) THEN e.last ELSE StaleOr(e, e.last)

\* cached: the answer an entry gives without an upstream call.
FromCache(e) == IF e.last.transient THEN StaleOr(e, e.last) ELSE e.last

\* Wrong: the gate opens a tick early.
GatedLoosely(e, t) == t + e.slack + 1 < e.nextAllowed

\* The gate of Get: too early for another upstream call.
Gated(e, t) == t + e.slack < e.nextAllowed

\* Wrong: the first good reading is kept for ever.
RecordAnswerFirstGood(e, r, k, t) ==
    [last        |-> r,
     lastGood    |-> IF HasQuota(r.state) /\ e.lastGood = NoReading
                     THEN r ELSE e.lastGood,
     failures    |-> 0,
     nextAllowed |-> t + MinInterval[k],
     slack       |-> MinIntervalSlack(MinInterval[k])]

\* Wrong: the interval is subtracted.
RecordAnswerEarly(e, r, k, t) ==
    [last |-> r, lastGood |-> r, failures |-> 0,
     nextAllowed |-> t - MinInterval[k], slack |-> 0]

\* record, for an answer that is not transient.
RecordAnswer(e, r, k, t) ==
    [last        |-> r,
     lastGood    |-> IF HasQuota(r.state) THEN r ELSE e.lastGood,
     failures    |-> 0,
     nextAllowed |-> t + MinInterval[k],
     slack       |-> MinIntervalSlack(MinInterval[k])]

\* A 429 waits at least the interval.
FailureWait(r, k, w) ==
    IF r.state = "rate_limited" /\ w < MinInterval[k] THEN MinInterval[k] ELSE w

\* Wrong: the slack of the last good interval is kept.
RecordFailureKeepsSlack(e, r, k, t, w) ==
    LET next == t + FailureWait(r, k, w)
    IN  [last |-> [r EXCEPT !.retryAt = next], lastGood |-> e.lastGood,
         failures |-> e.failures + 1, nextAllowed |-> next, slack |-> e.slack]

\* Wrong: a 429 is raised to the interval in what callers are told only.
RecordFailureToldOnly(e, r, k, t, w) ==
    [last |-> [r EXCEPT !.retryAt = t + FailureWait(r, k, w)], lastGood |-> e.lastGood,
     failures |-> e.failures + 1, nextAllowed |-> t + w, slack |-> 0]

\* record, for a transient failure, when backoff draws w.
RecordFailure(e, r, k, t, w) ==
    LET next == t + FailureWait(r, k, w)
    IN  [last        |-> [r EXCEPT !.retryAt = next],
         lastGood    |-> e.lastGood,
         failures    |-> e.failures + 1,
         nextAllowed |-> next,
         slack       |-> 0]

\* Every entry record can leave behind.
Recorded(e, r, k, t) ==
    IF r.transient
    THEN {RecordFailure(e, r, k, t, w) : w \in Waits(e.failures + 1, r.retryAfter)}
    ELSE {RecordAnswer(e, r, k, t)}

-----------------------------------------------------------------------------
Init ==
    /\ now = 1
    /\ login = FirstLogin
    /\ entries = [a \in Accounts |-> NoEntry]
    /\ inflight = [a \in Accounts |-> NoCaller]
    /\ pc = [c \in Callers |-> "idle"]
    /\ src = [c \in Callers |-> NoHome]
    /\ key = [c \in Callers |-> NoAccount]
    /\ ident = [c \in Callers |-> NoAccount]
    /\ cl = [c \in Callers |-> NoCaller]
    /\ box = [c \in Callers |-> NoReading]
    /\ res = [c \in Callers |-> NoReading]
    /\ ctxDone = [c \in Callers |-> FALSE]
    /\ requests = [k \in Accounts |-> 0]
    /\ upstream = [k \in Accounts |-> 0]
    /\ reported = [k \in Accounts |-> 0]
    /\ measured = [a \in Accounts |-> {}]

At(c, step) == pc[c] = step

Goto(c, step) == pc' = [pc EXCEPT ![c] = step]

\* Get returns r to caller c, whose locals die with the call.
Return(c, r) ==
    /\ Goto(c, "idle")
    /\ res' = [res EXCEPT ![c] = r]
    /\ src' = [src EXCEPT ![c] = NoHome]
    /\ key' = [key EXCEPT ![c] = NoAccount]
    /\ ident' = [ident EXCEPT ![c] = NoAccount]
    /\ box' = [box EXCEPT ![c] = NoReading]
    /\ ctxDone' = [ctxDone EXCEPT ![c] = FALSE]

(***************************************************************************)
(* Get(ctx, src) up to its first lock: Prober.Identify reads the files.    *)
(***************************************************************************)

\* A usable credential: go on to the gate.
CallUsable(c, s) ==
    /\ At(c, "idle")
    /\ Usable(login[s])
    /\ Goto(c, "gate")
    /\ src' = [src EXCEPT ![c] = s]
    /\ key' = [key EXCEPT ![c] = login[s].account]
    /\ res' = [res EXCEPT ![c] = NoReading]
    /\ UNCHANGED <<now, ident, cl, box, ctxDone, clientVars, worldVars>>

\* A transient local failure of a known account: look for its last-good.
CallExpired(c, s) ==
    /\ At(c, "idle")
    /\ login[s].verdict = "token_expired"
    /\ Goto(c, "local")
    /\ src' = [src EXCEPT ![c] = s]
    /\ key' = [key EXCEPT ![c] = login[s].account]
    /\ box' = [box EXCEPT ![c] = LocalReading(login[s], now)]
    /\ res' = [res EXCEPT ![c] = NoReading]
    /\ UNCHANGED <<now, ident, cl, ctxDone, clientVars, worldVars>>

\* Any other terminal answer is returned as it is.
CallTerminal(c, s) ==
    /\ At(c, "idle")
    /\ login[s].verdict \notin {"usable", "token_expired"}
    /\ Return(c, LocalReading(login[s], now))
    /\ UNCHANGED <<now, cl, clientVars, worldVars>>

\* The locked section of a transient local failure.
LocalAnswer(c) ==
    /\ At(c, "local")
    /\ Return(c, StaleOr(entries[key[c]], box[c]))
    /\ UNCHANGED <<now, cl, clientVars, worldVars>>

(***************************************************************************)
(* The locked section of Get: cached, joined or leading.                   *)
(***************************************************************************)

\* Wrong: an answer from the cache is counted as an upstream call.
CachedCounted(c) ==
    /\ At(c, "gate")
    /\ Gated(entries[key[c]], now)
    /\ Return(c, FromCache(entries[key[c]]))
    /\ upstream' = [upstream EXCEPT ![key[c]] = @ + 1]
    /\ UNCHANGED <<now, cl, entries, inflight, reported, worldVars>>

Cached(c) ==
    /\ At(c, "gate")
    /\ Gated(entries[key[c]], now)
    /\ Return(c, FromCache(entries[key[c]]))
    /\ UNCHANGED <<now, cl, clientVars, worldVars>>

Join(c) ==
    /\ At(c, "gate")
    /\ ~Gated(entries[key[c]], now)
    /\ inflight[key[c]] # NoCaller
    /\ cl' = [cl EXCEPT ![c] = inflight[key[c]]]
    /\ Goto(c, "wait")
    /\ UNCHANGED <<now, src, key, ident, box, res, ctxDone, clientVars, worldVars>>

\* Wrong: a caller leads without looking for a call in flight.
LeadAnyway(c) ==
    /\ At(c, "gate")
    /\ ~Gated(entries[key[c]], now)
    /\ inflight' = [inflight EXCEPT ![key[c]] = c]
    /\ Goto(c, "identify")
    /\ UNCHANGED <<now, src, key, ident, cl, box, res, ctxDone, entries, upstream,
                   reported, worldVars>>

Lead(c) ==
    /\ At(c, "gate")
    /\ ~Gated(entries[key[c]], now)
    /\ inflight[key[c]] = NoCaller
    /\ inflight' = [inflight EXCEPT ![key[c]] = c]
    /\ Goto(c, "identify")
    /\ UNCHANGED <<now, src, key, ident, cl, box, res, ctxDone, entries, upstream,
                   reported, worldVars>>

(***************************************************************************)
(* Prober.Probe, with no lock held: it identifies again, then measures.    *)
(***************************************************************************)

\* The files still hold a usable credential, of whichever account, and it is
\* sent.
ProbeIdentify(c) ==
    /\ At(c, "identify")
    /\ Usable(login[src[c]])
    /\ ident' = [ident EXCEPT ![c] = login[src[c]].account]
    /\ Goto(c, "fetch")
    /\ requests' = [requests EXCEPT ![key[c]] = @ + 1]
    /\ UNCHANGED <<now, src, key, cl, box, res, ctxDone, clientVars, login, measured>>

\* How Probe ends before it asks anything: the credential went away between the
\* two looks, or the fetch gives up at once.
UnaskedReadings(l) ==
    IF Usable(l) THEN {Finish(Fail("error", cause), l.account, now) : cause \in Unasked}
                 ELSE {LocalReading(l, now)}

ProbeUnasked(c) ==
    /\ At(c, "identify")
    /\ \E r \in UnaskedReadings(login[src[c]]) : box' = [box EXCEPT ![c] = r]
    /\ Goto(c, "record")
    /\ UNCHANGED <<now, src, key, ident, cl, res, ctxDone, clientVars, worldVars>>

\* The measurement of account ident[c] returns.
Fetch(c) ==
    /\ At(c, "fetch")
    /\ \E r \in Answers :
         /\ box' = [box EXCEPT ![c] = Finish(r, ident[c], now)]
         /\ measured' = IF HasQuota(r.state)
                        THEN [measured EXCEPT ![ident[c]] = @ \cup {now}]
                        ELSE measured
    /\ Goto(c, "record")
    /\ UNCHANGED <<now, src, key, ident, cl, res, ctxDone, clientVars, login, requests>>

\* The leader's own context ends the measurement.
Abort(c) ==
    /\ At(c, "fetch")
    /\ ctxDone[c]
    /\ box' = [box EXCEPT ![c] = Finish(Fail("error", "network"), ident[c], now)]
    /\ Goto(c, "record")
    /\ UNCHANGED <<now, src, key, ident, cl, res, ctxDone, clientVars, worldVars>>

(***************************************************************************)
(* The second locked section: count, record, publish, retire the call.     *)
(***************************************************************************)
Record(c) ==
    /\ At(c, "record")
    /\ upstream' = [upstream EXCEPT ![key[c]] = @ + 1]
    /\ \E e \in Recorded(entries[key[c]], box[c], key[c], now) :
         /\ entries' = [entries EXCEPT ![key[c]] = e]
         /\ box' = [box EXCEPT ![c] = FromCache(e)]
    /\ inflight' = [inflight EXCEPT ![key[c]] = NoCaller]
    /\ Goto(c, "close")
    /\ UNCHANGED <<now, src, key, ident, cl, res, ctxDone, reported, worldVars>>

\* Wrong: the channel is closed only when the measurement succeeded.
CloseUnlessFailed(c) ==
    /\ At(c, "close")
    /\ LET woken == {d \in Callers : cl[d] = c /\ ~box[c].transient}
       IN  /\ box' = [d \in Callers |-> IF d \in woken THEN box[c] ELSE box[d]]
           /\ cl' = [d \in Callers |-> IF d \in woken THEN NoCaller ELSE cl[d]]
    /\ Goto(c, "hook")
    /\ UNCHANGED <<now, src, key, ident, res, ctxDone, clientVars, worldVars>>

\* close(cl.done): everyone who joined this call can read its result.
Close(c) ==
    /\ At(c, "close")
    /\ box' = [d \in Callers |-> IF cl[d] = c THEN box[c] ELSE box[d]]
    /\ cl' = [d \in Callers |-> IF cl[d] = c THEN NoCaller ELSE cl[d]]
    /\ Goto(c, "hook")
    /\ UNCHANGED <<now, src, key, ident, res, ctxDone, clientVars, worldVars>>

\* OnUpstream, and the return of the leader.
Hook(c) ==
    /\ At(c, "hook")
    /\ reported' = [reported EXCEPT ![key[c]] = @ + 1]
    /\ Return(c, box[c])
    /\ UNCHANGED <<now, cl, entries, inflight, upstream, worldVars>>

(***************************************************************************)
(* A joined caller: the select on the call's channel and its own context.  *)
(***************************************************************************)
WaitDone(c) ==
    /\ At(c, "wait")
    /\ cl[c] = NoCaller
    /\ Return(c, box[c])
    /\ UNCHANGED <<now, cl, clientVars, worldVars>>

WaitTimeout(c) ==
    /\ At(c, "wait")
    /\ ctxDone[c]
    /\ cl' = [cl EXCEPT ![c] = NoCaller]
    /\ Return(c, [Fail("error", "timeout") EXCEPT !.account = key[c]])
    /\ UNCHANGED <<now, clientVars, worldVars>>

(***************************************************************************)
(* The environment: contexts end, CLIs log in and rotate tokens, time      *)
(* passes.                                                                 *)
(***************************************************************************)
\* A context is looked at in two places only; where it ends before them it
\* ends, to Get, when they are reached.
Cancel(c) ==
    /\ pc[c] \in {"wait", "fetch"}
    /\ ~ctxDone[c]
    /\ ctxDone' = [ctxDone EXCEPT ![c] = TRUE]
    /\ UNCHANGED <<now, pc, src, key, ident, cl, box, res, clientVars, worldVars>>

Relogin(s) ==
    /\ \E l \in NextLogins[s] \ {login[s]} : login' = [login EXCEPT ![s] = l]
    /\ UNCHANGED <<now, callerVars, clientVars, requests, measured>>

Tick ==
    /\ now < MaxTime
    /\ now' = now + 1
    /\ UNCHANGED <<callerVars, clientVars, worldVars>>

\* The steps of Get after its first: they need no one else's permission.
Continue(c) ==
    \/ LocalAnswer(c) \/ Cached(c) \/ Join(c) \/ Lead(c)
    \/ ProbeIdentify(c) \/ ProbeUnasked(c) \/ Fetch(c) \/ Abort(c)
    \/ Record(c) \/ Close(c) \/ Hook(c)
    \/ WaitDone(c) \/ WaitTimeout(c)

Next ==
    \/ \E c \in Callers :
         \/ \E s \in Homes : CallUsable(c, s) \/ CallExpired(c, s) \/ CallTerminal(c, s)
         \/ Continue(c)
         \/ Cancel(c)
    \/ \E s \in Homes : Relogin(s)
    \/ Tick

Spec == Init /\ [][Next]_vars

-----------------------------------------------------------------------------
(***************************************************************************)
(* Properties                                                              *)
(***************************************************************************)

Probing == {"identify", "fetch", "record"}

\* Every variable holds what Get keeps in it: no nil entry, call or reading is
\* ever dereferenced.
TypeOK ==
    /\ now \in Nat
    /\ login \in [Homes -> Logins]
    /\ entries \in [Accounts -> Entries]
    /\ inflight \in [Accounts -> Callers \cup {NoCaller}]
    /\ pc \in [Callers -> Steps]
    /\ src \in [Callers -> Homes \cup {NoHome}]
    /\ key \in [Callers -> Accounts \cup {NoAccount}]
    /\ ident \in [Callers -> Accounts \cup {NoAccount}]
    /\ cl \in [Callers -> Callers \cup {NoCaller}]
    /\ box \in [Callers -> Readings]
    /\ res \in [Callers -> Readings]
    /\ ctxDone \in [Callers -> BOOLEAN]
    /\ requests \in [Accounts -> Nat]
    /\ upstream \in [Accounts -> Nat] /\ reported \in [Accounts -> Nat]
    /\ measured \in [Accounts -> SUBSET Nat]
    /\ \A c \in Callers : pc[c] # "idle" => key[c] \in Accounts /\ src[c] \in Homes
    /\ \A c \in Callers : pc[c] = "fetch" => ident[c] \in Accounts

\* Single-flight (client.go:28): however callers, logins and contexts
\* interleave, no two goroutines probe for the same account.
SingleFlight ==
    \A c, d \in Callers :
        /\ pc[c] \in Probing
        /\ pc[d] \in Probing
        /\ key[c] = key[d]
        => c = d

\* Whoever waits on a call has a leader that has still to close it, or finds it
\* closed: no wake-up is lost when the call leaves Client.calls before its
\* channel is closed.
NoLostWaiter ==
    \A c \in Callers :
        pc[c] = "wait" /\ cl[c] # NoCaller =>
            pc[cl[c]] \in Probing \cup {"close"}

\* Results are recorded in the order they were measured: an entry's last and
\* last-good readings are never replaced by older ones, nor lost.
RecordsInOrder ==
    [][\A k \in Accounts :
         /\ entries'[k].last.fetched >= entries[k].last.fetched
         /\ entries'[k].lastGood.fetched >= entries[k].lastGood.fetched]_entries

\* A quota verdict handed to a caller was measured at its own account at the
\* very time it says, whatever cache, failure or login came between; one served
\* in place of a failure says so and carries the failure's cause.
Honest(r, taken) ==
    HasQuota(r.state) =>
        /\ r.account \in Accounts
        /\ r.fetched \in taken[r.account]
        /\ r.stale = r.transient
        /\ r.stale => r.cause # Unset

HonestReadings == \A c \in Callers : Honest(res[c], measured)

\* No call is led to an account sooner than its last outcome allows, counted
\* from the end of that measurement: the interval less its slack after an
\* answer, the whole interval after a 429, a backoff of the right step after any
\* other failure.  The slack of a good interval never shortens a backoff, and a
\* waiter, another home or a second caller never starts a call early.
PacedRequests ==
    [][\A k \in Accounts :
         LET e == entries[k]
         IN  /\ inflight[k] = NoCaller
             /\ inflight'[k] # NoCaller
             /\ e.last # NoReading
             => IF e.last.transient
                THEN \E w \in Waits(e.failures, e.last.retryAfter) :
                        /\ now >= e.last.fetched + w
                        /\ e.last.state = "rate_limited" =>
                              now >= e.last.fetched + MinInterval[k]
                ELSE now + MinIntervalSlack(MinInterval[k])
                       >= e.last.fetched + MinInterval[k]]_vars

\* Where every home keeps its account, what anyone was told of the next attempt
\* (RetryAt, reading.go:174) binds everyone: no caller leads a call before it,
\* with the slack of an earlier interval or after whatever the others recorded.
RetryAtKept ==
    [][\A k \in Accounts :
         inflight[k] = NoCaller /\ inflight'[k] # NoCaller =>
             \A c \in Callers : res[c].account = k => now >= res[c].retryAt]_vars

\* A refusal (401, 403, 404) is an answer: no last-good reading is ever served
\* in its name.
RefusalsAsIs ==
    \A c \in Callers :
        res[c].cause \in Refusals => ~res[c].stale

\* Where every home keeps its account, no caller holds a verdict newer than the
\* account's last-good reading, so nobody who asks later is answered from the
\* cache with an older verdict than anyone has already seen.
NeverAheadOfCache ==
    \A c \in Callers :
        HasQuota(res[c].state) =>
            res[c].fetched <= entries[res[c].account].lastGood.fetched

\* Once Get has returned to all, every request made has been counted and the hook
\* was called as often as was counted, however many callers joined, gave up or
\* failed: nothing asked of an account is hidden from an operator.  More may be
\* counted than was asked (CountsOnlyRequests).
EveryRequestCounted ==
    (\A c \in Callers : pc[c] = "idle") =>
        \A k \in Accounts : requests[k] <= upstream[k] /\ upstream[k] = reported[k]

\* Every Get returns: no leader, waiter or cached caller is left behind.
GetReturns == \A c \in Callers : pc[c] # "idle" ~> pc[c] = "idle"

-----------------------------------------------------------------------------
(***************************************************************************)
(* What the documentation says and the code does not do; each is refuted   *)
(* by a run of its own.                                                    *)
(***************************************************************************)

\* README.md:168: a schema failure is definitive and returned as it is.
SchemaAsIs == \A c \in Callers : res[c].cause = "schema" => ~res[c].stale

\* client.go:49-52, README.md:203: only upstream requests are counted, never an
\* answer from local files.
CountsOnlyRequests == \A k \in Accounts : upstream[k] <= requests[k]

\* client.go:26: entries are keyed by account.
OwnEntry == \A k \in Accounts : entries[k].last.account \in {k, NoAccount}
=============================================================================
