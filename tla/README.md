# Verification of ccleft

TLA+ specifications of ccleft, a Go library and command that reads how much
quota is left on AI coding accounts, with the TLC runs that check them on small
instances and the theorems TLAPS proves about them for every instance. Source
paths are relative to the repository; `PROJECT.json` lists every run, mutant,
finding, hazard and theorem, and maps every definition to the lines it models.

## The system

| part | state it keeps | operations | what is hard about it |
|---|---|---|---|
| `Client.Get` (client.go) | under one mutex: an entry per account (last, last-good, failures, next attempt, slack), the calls in flight, upstream counters | gate, answer from the cache, join a call, lead one, record, close, OnUpstream hook | goroutines interleave between two locked sections; the measurement runs unlocked; waiters have contexts of their own; files and clock move meanwhile |
| `Client.GetAll`, `Merge` (client.go) | a semaphore of 8, the results | one goroutine per source, wait for all, one reading per account | a goroutine keeps its slot while it waits for another's call |
| `Prober` (prober.go) | none | Identify, Probe, finish, httpJSON, classifyHTTP | Probe identifies again, so the login can change between Get's look and Probe's |
| `Reading`, `Window` (reading.go) | none | fail, deriveState, Binding, pctWindow, amountWindow | which failures are transient decides retry, last-good and caching |
| HTTP classification (classify.go, prober.go, kiro.go, copilot.go) | none | status and Retry-After to class, state, cause, transient | Kiro names refusals and throttling in the body of a 400 |
| payload parsers (claude, codex, agy, kiro, copilot, deepseek) | none | payload to windows and a verdict | two spellings of one cap, scopes, missing numbers, paid overflow, debts |
| credentials (identify of each provider) | files, environment | account and credential, or a final local answer | several files, read one after the other while other programs rewrite them; fallbacks that identify a token and not its account |
| sources (cmd/ccleft/config.go, detect.go) | none | flags + configuration to plan; plan + files to sources | home providers against `--provider`, one key for many homes |
| `ccleft serve` (cmd/ccleft/main.go) | the snapshot and its error under a lock; the ticker; contexts | refresh cycle, /readings, /metrics, /healthz, signal and shutdown | long sweeps drop ticks; scrapes race refreshes; slow clients at shutdown |
| registry (provider.go) | providers by name under a lock | Register, Get, All | filled at start-up |
| metrics (metrics.go) | none | the series of each reading, window and counter | one state per account must be 1; readings must not share series |
| `ccleft probe` and its table | none | formatting, exit code | |

`serve` (or `probe`) builds sources and calls `GetAll`; its goroutines call
`Get`; a leader calls `Probe`, which identifies, fetches, classifies or parses,
and finishes a Reading; `Get` records it and every waiter shares it; `Merge`
reduces the readings to one per account; `serve` publishes the snapshot that the
handlers read. The hook and the counters report leaders' calls.

## Modules

| module | models | used by |
|---|---|---|
| `Reading` | a Reading as the Client sees it; `fail`, `finish`, the local answers; what a fetch may return (`IsAnswer`) | all |
| `Windows` | windows and the verdict they add up to | `Usage` |
| `Usage` | the six payload parsers | `Fetch` |
| `Classify` | `ClassifyHTTPResponse`, `classifyHTTP`, `httpJSON`, `kiroFetch`, `copilotFetch` | `Exchange`, `MCClient` |
| `Exchange` | one HTTP exchange from the wire to the reading a failed fetch returns | `Fetch` |
| `Metrics` | `WritePrometheus`: the series of a reading | `Fleet` |
| `Fetch` | a provider's fetch as a whole: `Exchange`, then the parser of `Usage` | |
| `Identify` | the identify functions over the files the agents' CLIs write | |
| `Backoff` | `backoff` and `minIntervalSlack` | `Client` |
| `Client` | `Client.Get`, `record`, `cached`, `staleOr`, around `Prober.Probe` | `Fleet` |
| `QuotaGate` | abstract: what a quota endpoint is promised | `ClientGate` |
| `ClientGate` | the refinement mapping from `Client` to `QuotaGate` | |
| `Fleet` | `GetAll` and `Merge`, over `Client`'s callers | |
| `Sources` | `plan`, `DetectHome`, `DetectEnv`, `buildSources` | `Serve` |
| `Serve` | `runServe`: refresher, snapshot, handlers, shutdown | |
| `MC*` | constants for TLC | |
| `*Proofs` | theorems | |
| `RecursionLemmas` | lemmas about folds, sums and insertion | `FleetProofs`, `FetchProofs`, `IdentifyProofs` |

### Client

A caller is a goroutine inside `Get`, or outside it when `idle`; it may call
again for ever. `pc` says between which two sections it is:

    idle -> gate -> idle                           Cached
    idle -> gate -> wait -> idle                   Join, WaitDone / WaitTimeout
    idle -> gate -> identify -> [fetch ->] record -> close -> hook -> idle
                                                   Lead; no fetch: ProbeUnasked
    idle -> local -> idle                          an expired token: last-good
    idle                                           any other local answer

`gate`, `local` and `record` are the sections that hold the mutex, each a single
action (`Cached`/`Join`/`Lead`, `LocalAnswer`, `Record`). `identify` and `fetch` are
`Prober.Probe`, which holds no lock. `Close` is `close(cl.done)`, which comes after the
unlock; `Hook` is `OnUpstream`, which comes after the close. `Abort` is a measurement
ended by the leader's own context. `Relogin` changes what a home's files say at
any moment, `Tick` passes time, `Cancel` ends a context.

A missing entry and a zero one are one value, `NoEntry`: no reader tells them apart.
`call` is identified by its leader, and a closed channel by `NoCaller`; `Close` hands
the result to the callers that joined. Windows, plan and message of a Reading are
identified by when and for whom it was measured (`fetched`, `account`). `requests`
and `measured` are history: requests and agy runs really begun under each key, and
when each account's quota was really measured. A probe may end before it asks
anything (`ProbeUnasked`): the credential is gone, or agy is not installed
(`Unasked`). `upstream` and `reported` are the counter and the hook, per key; they
move with every probe, asked or not, as in the code. An account stands for a (provider, fingerprint) pair, and
`MinInterval` is therefore per account.

`Answers` are made by `HttpJSON` in `MCClient`, so the runs and `Classify` cannot disagree.

### Fleet

`Fleet` adds to each caller of `Client` its place in `GetAll` (`queued`, `running`,
`done`); `Acquire` takes a slot and enters `Get`, `Release` gives it back, `Collect` is
`wg.Wait` and `Merge`. Several sweeps share the Client, as handlers and library users may.

`Merge` is written as the code is: the readings in the order of the sources, each
either merged into the entry of its account (`MergeOne`) or appended, then a stable
insertion sort by provider and fingerprint (`SortIn`). An account stands for its
provider, so `ProviderOf` only sorts the readings without one; `Rank` is the order of the
fingerprints.

### Exchange, Usage, Fetch

Sequential: the initial states are the inputs, one step computes the reading. What
is checked is the function, over all combinations of small inputs, against a
statement that is written from the payload and not from the parser. `Fetch` composes
the two halves of a fetch: `FetchFails` is an exchange that brought no payload,
`Parsed` a parser's report on one. A window's id is the pair of what names it in
the payload and its scope. Lists of a payload are sequences, whose members may
repeat a name: Kiro's breakdowns a type, its bonuses a code, agy's buckets an id,
DeepSeek's balances a currency. Any number may be missing where the code looks at it.
A report's windows are a set, so two equal ones are one; no verdict depends on which
(`ParseDeepSeek` counts the balances and not the windows).

`IsAnswer` (`Reading`) is the contract between `Fetch` and `Client`: `Client` assumes it of its
`Answers`, and `AnswersExpected` of `Fetch` says that every fetch of every provider keeps it. The
two are not composed into one behaviour: to `Client` a fetch is one step whose outcome is chosen,
and the contract is all that it needs to know of it.

A Claude limit of an unknown kind has that kind's name (claude.go:182-185); the model gives all
such kinds one name. A Claude limit or an agy window of the literal kind `balance` or `credits` is
left out: it would count as money.

### Identify

One source, identified again and again (`Begin`, one `Read` per file in `Order`,
`Conclude`), and its home's CLI, which works at any moment: `LogIn`, `Refresh` and
`LogOut` decide what is to be written, `Truncate` and `Write` write it file by file, so
that a look may find a file half written or two files of different logins. A token is
its holder and a serial number; a fingerprint is the tag and the identity it is
made of, as `fingerprint` hashes both. A file is `Missing`, `Garbage`, or the fields
that identify reads. `named` says that every login of this home's CLI names its account;
where it is false, each login may or may not. Each `.claude.json` of a Claude home may at the start
be one that an earlier login, or another home's, left behind, whatever `named` says. A
Claude login may come without a refresh token, and is over when its token expires. A Codex token
may tell its date without naming its account, and the reverse. An agy file may name its account
in its id_token, by its refresh token, at top level, or not at all.

`holder` is the CLI's own view. `clean` and `known` are history: whether a login, a refresh or a
logout overlaps the identification, and which accounts each holder's clean
identifications gave. `Client` takes what `Identify` finds as a `Login` (`TypeOK` of `Identify`
says that it is one) and lets it change between any two steps. Torn looks are in
the model, and no property but `TypeOK` is about them: a login overlapping the look
gives one account's token under another's fingerprint (see below). Nor does `RightAccount` speak of
homes where a login that need not name its account stands beside a `.claude.json` that names
somebody else (`Misleading`): there the code takes the wrong account with nothing moving at all, and
without this exception TLC refutes the property.

### Sources, Serve

The world (files, keys, secrets) changes at any time. A sweep is opaque: it ends at
any time up to `WaitDelay` after the end of its context, which is a refresh interval away
or the signal, and counts calls while it runs. The delay is that of a killed agy
whose children hold its output pipe (prober.go:454). Its
readings are identified by the sources they are of and the calls counted by then.
The ticker has a channel of one, and drops ticks. `Urgent` lists what a goroutine
does without waiting for the clock: time does not pass while a select, a build or
a sweep that is past its delay has a step to take.

## Runs

| run | question | bounds, and why they suffice |
|---|---|---|
| `client_safety` | single-flight, no lost waiter, no request uncounted or unreported, cache order, pacing, the next attempt as it was told, refusals, refinement of `QuotaGate` | 3 callers of 1 account: a leader, its waiter and a late-comer; 5 ticks; an answer of each kind that `Client` tells apart (good, refused, timed out, throttled with and without a Retry-After); interval 3, backoff 1, 2, 4, slack 1, a Retry-After of 4, so that each of them is the longest somewhere; agy may be missing |
| `client_logins` | honest readings, recording order | 2 callers, 2 accounts, a home whose token expires, that logs out, or in to the other account and back out, between any two steps |
| `identify_files` | the right account, one account to each owner, a login asked for exactly when one is needed | 2 people, 3 tokens: a login, a refresh and another login, of either; 2 tokens where a Claude or agy login may name nobody (`FewLogins`): a login and another, or its refresh, the first leaving behind what the second does not write; 9 files, each `.claude.json` empty or anyone's at the start; each provider's home with and without configuration directory and with and without names, and each order of override and variables. The two people are symmetric: the sources have the same keys of either |
| `fetch_answers` | refusals and throttling keep their meaning; a fetch returns what `Client` relies on; verdicts; a payload that rates nothing is a failure | each class of status code and its boundary, four kinds of Retry-After, three kinds of body; per provider every payload over two or three numbers round each boundary: two limits and three buckets, two windows, two agy buckets of one pool or one id, two breakdowns of one type or two with bonuses that share a code, two snapshots, three balances in two currencies; every number that the code looks at also missing |
| `fleet_sweeps` | slots, at most one request in the name of each account, one reading and one state per account, every home named, the order | 1 sweep of 3 sources with 2 slots, so that one goroutine queues; 2 homes of one provider, one of which may log out or in to the other's account |
| `fleet_live` | every `Get` and `GetAll` returns | 2 sweeps (2 + 1 goroutines) of one account with 1 slot each, so that a waiter holds the only slot; cancellations at any time |
| `serve_refresh` | freshness, sources, snapshot, scrapes, a signal ends the process | refresh 2, delay 1, 11 ticks: long enough for a sweep of three ticks, a dropped tick and the 8 ticks after the last change that `ChangesPickedUp` allows; with a tick less in the bounds of `FreshWhileHealthy` and `ChangesPickedUp`, TLC refutes them; 3 worlds, one of which cannot be built; a home whose providers are detected, one whose are given, and a configured source |

`serve_refresh` has one set of flags and one configuration; `--provider`, `--no-env`, `$HOME` as
the only home and names that are not providers are modelled in `Sources` and not instantiated.

Deadlock is checked for the Client, the Fleet and Identify, which never stop. `Exchange` and
`Fetch` stop after their one step, and `Serve` when the process has exited.

Every property has a mutant: a plausible bug in the code, written beside the
definition it stands in for and marked "Wrong:", that makes TLC refute the property.

### Where the code and its documentation disagree

The runs whose name begins with `doc_` expect a violation. Each checks one sentence
of the documentation, which the code does not keep:

| run | the sentence | the code |
|---|---|---|
| `doc_schema` | schema failures are returned as they are (README.md:168) | they are transient: retried, and covered by last-good (reading.go:235) |
| `doc_local_count` | local answers are never counted or reported (client.go:50) | they are, when the credential goes away before Probe looks (client.go:209) |
| `doc_keying` | entries are keyed by account (client.go:26) | a login between the two looks stores one account's reading under another (client.go:202) |
| `doc_retry_after` | a longer Retry-After always wins (README.md:165) | one that is a date is dropped (classify.go:87) |
| `doc_fingerprint` | the account is a stable fingerprint of the account behind the credential (reading.go:151) | Copilot's is one of the token, of which an account has one per login (copilot.go:89) |

Read off the code while modelling it, and without a run:

- `client.go:29` promises one upstream call per `MinInterval`; a first backoff is shorter than
  every default interval, and only a 429 is raised to it (`FailureWait`, client.go:245).
- `client.go:49-52` and `README.md:203` count one per HTTP request or agy run. Besides the case of
  `doc_local_count`, an agy that is not installed runs nothing and is counted (agy.go:127-129), and so
  is a fetch whose context had ended before it began. `EveryRequestCounted` is about the other direction only.
- `README.md:96` makes an unrecognized payload a failure. A Kiro trial, bonus or overage without its
  numbers counts as zero used of zero (kiro.go:129, 143, 154); only the plan's must be there (`Rated`).
- `README.md:164-167` has last-good served on a timeout; a waiter whose own context ends gets
  a bare timeout (`WaitTimeout`, client.go:191).
- `classify.go:18` calls other 4xx non-retryable; they become a transient `error` (`FailedState`).
- `reading.go:62` says that ok has headroom in every binding window; Kiro is ok on a bonus
  with an empty plan (`ParseKiro`, kiro.go:173).
- `reading.go:160` says that every non-ok state has a cause; limited and exhausted have none (`Report`).
- A login that overlaps an identification can give a reading the token of one account and the
  fingerprint of another, read from another file (`RightAccount` asks for `clean`; claude.go:91).
- A Codex token that names no account is fingerprinted as an account id where it comes from the
  override (codex.go:76) and as a token where it comes from the file (codex.go:110).
- Two readings of one provider without an account have the same series (metrics.go:63).
- A Claude login that names nobody is filed under the account of any `.claude.json` that it finds: one of an
  earlier login, or the home's beside the configuration directory's (claude.go:102-106), with nothing moving
  meanwhile. `reading.go:149-151` has the account behind the credential.
- An agy home whose file names nothing has the home's own fingerprint, and successive holders share it
  (agy.go:88). A look at an agy file that is half written has it too, for one reading.
- A Claude credentials file that is half written is `no_credentials`, a final answer (claude.go:53-57).
- Windows may share an id, and so a series: two rated windows of a Codex limit in one band, two Codex
  features of one name, two Kiro breakdowns of one type or bonuses of one code, two agy buckets of one
  id, two DeepSeek balances of one currency. Claude's parser keeps the first of an id, Copilot's ids are the keys of a map.
- A 429 or 5xx of Kiro's whose body denies the credential is a final answer that keeps its
  Retry-After (kiro.go:107-109). It is recorded as an answer, so its `RetryAt` may be later than
  the attempt that the gate allows (`OnlyFailuresWait` excepts it).
- A configured credentials file that is empty is no override, and the home's files are used; a
  configured variable that is empty is an error (config.go).
- An unknown provider's reading is not finished: it has no fetch time (prober.go:178).
- `main.go:52` says that `--provider` limits the probes; a home's own list replaces it
  (`HomeSources`, config.go:133), as config_test.go expects.

`SingleFlight` and `OwnEntry` show the two sides of keying: calls are single-flight
per key in every case, while the key may be the wrong account's.

## Fairness

- `Fleet.FairFleet`: weak fairness of each goroutine of `GetAll`, through `Get`, and of `wg.Wait`.
  The Go scheduler runs every runnable goroutine, the mutex does not starve, every
  measurement ends because `Probe` runs under `WithTimeout`, and a closed channel wakes
  its waiters. A goroutine asks for a slot once in a sweep, so a slot that keeps coming
  free is enough; no order of the channel is assumed. Contexts, logins, the clock and the
  start of a sweep are not fair.
- `Serve.FairSpec`: the refresher, the shutdown and the clock. A client's reading of a
  response and the signal are not fair.

## Proofs

The theorems hold for every set of accounts, homes, callers and sweeps, every
interval, backoff, answer and payload that the assumptions of the modules allow. TLC
evaluates each assumption in the runs of its module.

| assumption | what it says |
|---|---|
| `NoAccountAssumption`, `AbsentAssumption` | the empty fingerprint is no account's; a missing number is no number |
| `BackoffAssumption` | backoffs are positive, jitter is at most 100% |
| `ClientAssumption` | the types of the homes' logins and of the intervals |
| `AnswersAssumption` | a fetch returns `IsAnswer`: not finished; only a failure is transient, and has a cause; a refusal is final. `AnswersExpectedHold` proves it of `Fetch` |
| `FleetAssumption` | finitely many accounts; sources of different sweeps are different goroutines; the empty fingerprint sorts first |
| `ExchangeAssumption` | codes outside 2xx are the failures |
| `PayloadAssumption` | the type of each provider's payload: what decoding its JSON can give |
| `UnaskedAssumption` | a fetch that asks nothing gives up with a cause, and no refusal |
| `ServeAssumption` | intervals, delays and bounds are numbers |
| `IdentifyAssumption`, `SourceAssumption` | the empty string, people, tokens and file contents are distinct; which fields a source has; no Codex token together with an account id; no GitHub file names an account |
| `AccountAssumption` | `Accounts` has every fingerprint that a tag and an identity make |

Two theorems about `Client` hold on conditions, which they name and state as
hypotheses, and which the constants of `client_safety` meet:

- `HomesKeepAccounts`: a home's CLI may log out, expire and log in, to one account. Without it the
  key of an entry can be another account than its reading's, as `doc_keying` shows.
- `OnlyFailuresWait`: only a transient answer carries a Retry-After. It is so for every provider but
  in one case of Kiro's (above); `AnswersExpectedHold` proves that there is no other.

| theorem | from |
|---|---|
| `TypeCorrect`: `Spec => []TypeOK` | `Init`, one step per action; lemmas on the types of `Fail`, `Finish`, `LocalReading`, `FromCache`, `Recorded` |
| `SingleFlightHolds`, `NoLostWaiterHolds` | `CallsInv` |
| `RecordsInOrderHold` | `OrderInv`, on `CallsInv` |
| `PacedRequestsHold` | `PacedInv` |
| `ImplementsQuotaGateHolds`: `Spec => Gate!GateSpec` | `TypeOK`, `CallsInv`, `OrderInv`, `PacedInv` |
| `HonestReadingsHold` | `HonestInv` |
| `RefusalsAsIsHold` | `RefusalInv`, on `CallsInv` |
| `NeverAheadOfCacheHolds`, `RetryAtKeptHolds` | `ShownInv`, on `KeptInv`, `AnsweredInv`, `HonestInv`, `OrderInv`, `CallsInv` |
| `EveryRequestCountedHolds` | `CountsInv` |
| `FleetRunsClient`: `FleetSpec => Spec` | step by step |
| `FleetSingleFlight`, `FleetKeepsPromises` | `FleetRunsClient` and the theorems of Client |
| `SlotsBound`: `FleetSpec => []FleetTypeOK` | `TasksInv`, `SlotsInv` |
| `OneRequestPerAccountHolds` | `OpenInv`, `BeganInv`, `BudgetInv`, on `TasksInv`; `DelayGrows`, on the steps of `Backoff` |
| `MergedByAccountHolds`, `OneStatePerAccountHolds` | `MergedInv`, on `AnsweredInv`; `MergeLoop`, `SortLoop` |
| `FetchTypeCorrect`, `RefusalsFinalHold`, `AnswersExpectedHold` | `FetchInv`; the classes of status codes, and the lemmas on `HttpJSON`, `KiroFetch`, `CopilotFetch` |
| `AccountCapsEnforcedHold`, `ScopedNeverDecidesHolds`, `UnrecognizedNeverHealthyHolds`, `KiroLimitedWhenEmptyHolds`, `ExhaustedWhenBrokeHolds`, `TightestDecidesHolds` | `FetchInv`, and one lemma per parser that says what its report is (`ClaudeReport`, `CodexReport`, `AgyReport`, `KiroReport`, `CopilotReport`, `DeepSeekReport`) |
| `ServeTypeCorrect`, `FreshWhileHealthyHolds`, `ChangesPickedUpHold`, `ScrapeCountsHold`, `SnapshotKeptHolds` | `ServeInv` |
| `RightAccountHolds`, `LoginAskedWhenNeededHolds` | `FilesInv`, `LookInv`; one lemma per provider |
| `IdentifyTypeCorrect`, `OneFingerprintHolds` | `FoundInv`; `FilesInv`, `LookInv` for the second |

### Client

- `CallsInv`. Single-flight alone is not inductive: nothing stops `Lead` unless a caller that
  probes is the one `inflight` names. The invariant says so in both directions (who
  probes is in `inflight` under its key; who is in `inflight` probes for that key), and that
  who waits on a call waits on a caller that has not closed it.
- `OrderInv`. An entry is not newer than the clock, and what a leader is about to
  record is not older than its entry. The second part rests on `CallsInv`: nobody else
  can have recorded to the key since the leader measured. The last-good reading is
  never newer than the last.
- `PacedInv`. An entry's next attempt is its last reading's time plus a wait that
  reading allows, and its slack is that of its interval after an answer, zero
  after a failure. So the gate, which looks at the entry only, is polite.
- The refinement maps `Lead` to `Begin`, `Record` to `End` and `Tick` to `Advance`; every other
  step stutters. `PacedInv` gives `Begin` its guard, `OrderInv` gives `End` its times.
- `HonestInv`. `Honest` for every entry, box and result; and what is recorded is
  explained, that is, transient only with a cause and without quota. `measured` only
  grows, so a reading once honest stays so.
- `RefusalInv`. A refusal, wherever Get keeps one, is neither stale nor transient. It is enough
  to say so of the last reading of an entry: a last-good reading is served only for a
  transient reading, whose cause it takes, or for a local one, whose cause is no refusal.
- `AnsweredInv`. An entry that gates has a reading, and whatever is about to be returned is one: no
  caller is handed Go's zero Reading.
- `KeptInv`. In homes that keep their accounts, the account that Get resolved is the one Probe
  measures, and an entry holds readings of its own key. It is what `OwnEntry` of `doc_keying` would
  need, and fails there.
- `ShownInv`. `NeverAheadOfCache` speaks of results, but a verdict is on its way to a result in the
  boxes of the leader and its waiters, and comes from an entry. In each of these places it is no
  newer than the account's last good reading; a `RetryAt` is past, or nobody is asking and the gate
  is shut until then. The leader's own box is excepted until it records: it alone knows a verdict
  that the cache does not have, and it is in `record`, where it returns to nobody.
- `CountsInv`. A request is counted when its leader records it and reported when the leader
  returns. Between these points the difference is at most the number of leaders between them, a
  finite set even where callers are not; when nobody is, no request is missing from the counter,
  and counter and hook agree. A probe that asks nothing only adds to the counter.

### Fleet

- `TasksInv`, `SlotsInv`. A goroutine outside Get is idle in `Client`; a sweep has no more running goroutines
  than slots.
- `OpenInv`, `BudgetInv`. `OneRequestPerAccount` bounds a number by a cardinality, so its invariant is an
  account of what has been spent: the requests since a sweep began are at most the accounts that
  are being asked, or whose gate is shut for longer than the sweep may last. `Lead` asks for an account that was
  not spent, because its gate was open and nobody was asking; `Record` leaves it spent, because the wait
  that it sets is at least the shortest wait of that account (`DelayGrows`, over any jitter).
- `MergedInv`. Who has been answered holds a real reading (`AnsweredInv`), and what a sweep returned is
  sorted, of distinct accounts, and names every one of its homes until it starts again. `MergeLoop` and
  `SortLoop` follow the two folds of `Merge` over the readings, one reading at a time.

### Fetch

- `FetchInv`. What was returned is a failure of the exchange, without windows and as `Client` expects it, or it is
  the parser's report on a payload. Each statement about verdicts then follows from what the parser's
  lemma says of its report, for payloads of any numbers and any length.
- `ClaudeLoop` says what the fold over the limits has made of its first `k`: a window for each id at
  the first place that names it. `EntriesSay` matches that with the statement, which speaks of entries
  and of no order of reading. `HeadroomIsZero` says that a sum of what is left is zero exactly when each of
  its parts is, a debt counting as nothing left.

### Serve

- `ServeInv`. `FreshWhileHealthy` says nothing of where the refresher is, so it is not inductive. `AgeInv`
  says how old a healthy snapshot can be at each of its steps: it waits for a tick that
  comes within an interval of the snapshot, begins the cycle at once, and the context of its sweep
  ends within another, the sweep a `WaitDelay` later. `SourcesInv` says that a sweep which is not of the present world began
  before the last change: its context ends within an interval of the change, and its snapshot
  is set no later than a `WaitDelay` after. The counters only grow, and a scrape reads them last.

### Identify

- `FilesInv`, `LookInv`. What is on the disk between two writes can be of two logins, so nothing
  about it is inductive. What the files will say once the CLI has written them all (`Files`) is:
  `Truncate` and `Write` leave it alone, and `LogIn`, `Refresh` and `LogOut` decide it whole. `FilesInv`
  says provider by provider which login that is. `LookInv` says that an identification which nothing has
  overlapped read the disk as it still is, between writes, and so as `Files` has it; then each
  identify function is followed through its cases (`ClaudeRight`, `CodexRight`, `AgyRight`, `CopilotRight`, `KeyRight`).
- `FoundInv`. Types need no clean look: each file by itself holds fields of its kind, whatever mixture of
  logins they are of, and each identify function gives a login for any such contents. `KnownInv` says that a
  holder whose files name him has been given no account but the one of his name.

### Recursion

A fold over a sequence or a set has no bound that the provers could unroll, and the library's induction theorems
take an operator. `RecursionLemmas` states induction for a set instead: a set that holds 0 and the successor of each of
its members holds every number. From it come the existence of the function that a fold computes (`FoldExists`),
of a sum over a finite set (`SumExists`) and of an iteration (`IterationExists`), and what an
insertion into a sequence keeps (`Inserted`). A proof about a fold then takes the set of the lengths up to which its claim holds.

### Only model-checked

- Liveness: `GetReturns`, `SweepReturns` and `SignalStops`, under the fairness above. Fairness and
  ENABLED are beyond this prover.
- The `doc_*` runs, which are counterexamples.

Every other property of a passing run is the statement of a theorem.

## Not modelled

- Formatting: the table, JSON, log lines, messages, masking of secrets; the values and
  the text of metrics, and the series of windows and counters. That series are unique is stated of
  readings with an account only: nothing in the code keeps windows from sharing one (above).
- The composition of `Identify` with `Client`: a caller's look is one step there, and the
  login may change between any two steps; the torn looks of `Identify` would only add logins
  whose account and token differ, and a `Login` has no token.
- `CHATGPT_ACCOUNT_ID` given together with a Codex token: the account is then whatever the
  variable says, and whose it is cannot be told.
- Endpoints, timeouts and HTTP clients per provider; the environment of agy's process.
- Number and time parsing (`flexNum`, `parseTime`): a number or `Absent`. Reset times.
- `ClassifyNetworkError` and `StateFromErrorClass`, which nothing calls.
- Integer widths: a Retry-After that overflows `time.Duration`.
- The registry: a map under a lock that is filled at start. `Prober.Register` replaces its
  pointer without a lock, but nothing registers a provider while it probes, and no line
  says that it may. Panics of custom providers.

## Plan

1. Done: the Client and its promise (`Client`, `ClientGate`), the fleet, classification, the parsers,
   sources and the server; the Client's safety theorems, the refinement, the fleet's and the exchange's theorems.
2. Done: credentials file by file (`Identify`), with the torn identity of Claude's two files.
3. Done: `Merge` in full (`Fleet`), the fetch as a whole (`Fetch`), the series of a scrape (`Metrics`).
4. Done: proofs of `RefusalsAsIs` and of the safety of `Serve`.
5. Done: `RightAccount` and `LoginAskedWhenNeeded` of `Identify`, for any number of people and tokens.
6. Done: proofs of every invariant and action property that the runs check; the theorems of
   `Client` carried over to `Fleet`, and `Fetch` shown to return what `Client` assumes of it.
7. Open: a bound on the rate, for `QuotaGate` and so for `Client` and `Fleet`: an account is asked at
   most once in each span that its intervals and waits allow, counted over a whole behaviour.
8. Open: `Identify` shown to give `Client` the `Logins` it assumes, as `Fetch` does the `Answers`: what
   `IdentifyTypeCorrect` says of one look, stated as a theorem about what a caller's two looks can be.
