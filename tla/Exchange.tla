------------------------------- MODULE Exchange -------------------------------
(***************************************************************************)
(* One HTTP exchange with a quota endpoint, from what came back over the   *)
(* wire to the classified Reading that a provider's fetch returns to the   *)
(* Client, which retries and serves last-good by it.                       *)
(***************************************************************************)
EXTENDS Classify

CONSTANTS
    Codes,      \* status codes that are not 2xx
    Seconds     \* what Retry-After may ask for

ASSUME ExchangeAssumption ==
    /\ Codes \subseteq Nat \ 200..299
    /\ Seconds \subseteq Nat

VARIABLES
    wire,       \* how the exchange ends, and what its error body says
    reading     \* what fetch returns

vars == <<wire, reading>>

Headers == [kind : {"absent", "garbage"}, seconds : {0}]
           \cup [kind : {"seconds", "date"}, seconds : Seconds]

Outcomes == [outcome : {"deadline", "transport", "undecoded"}]
            \cup [outcome : {"status"}, code : Codes, header : Headers]
            \cup [outcome : {"decoded"}, verdict : QuotaStates]

Says == {"nothing", "throttling", "denied"}

\* The fetches that go through httpJSON.
Wires == [provider : {"claude", "codex", "deepseek", "kiro", "copilot"},
          exchange : Outcomes, says : Says]

Init ==
    /\ wire \in Wires
    /\ reading = NoReading

From(provider) == reading = NoReading /\ wire.provider = provider

\* claudeFetch, codexFetch and deepSeekFetch return what httpJSON made of it.
FetchPlain ==
    /\ \E p \in {"claude", "codex", "deepseek"} : From(p)
    /\ reading' = HttpJSON(wire.exchange)
    /\ UNCHANGED wire

FetchKiro ==
    /\ From("kiro")
    /\ reading' = KiroFetch(wire.exchange, wire.says)
    /\ UNCHANGED wire

FetchCopilot ==
    /\ From("copilot")
    /\ reading' = CopilotFetch(wire.exchange)
    /\ UNCHANGED wire

Next == FetchPlain \/ FetchKiro \/ FetchCopilot

Spec == Init /\ [][Next]_vars

-----------------------------------------------------------------------------
(***************************************************************************)
(* Properties                                                              *)
(***************************************************************************)

Answered == reading # NoReading

Refusal(r) == r.state \in {"auth_required", "unsupported"} /\ ~r.transient

Throttling(r) == r.state = "rate_limited" /\ r.transient

Status(codes) == wire.exchange.outcome = "status" /\ wire.exchange.code \in codes

KiroSays(what) ==
    /\ wire.provider = "kiro"
    /\ wire.exchange.outcome # "decoded"
    /\ wire.says = what

Denied == KiroSays("denied") \/ (~KiroSays("throttling") /\ Status({401, 403, 404}))

Throttled == KiroSays("throttling") \/ (~KiroSays("denied") /\ Status({429}))

\* A refusal reaches the Client as an answer, by whichever name: 401, 403 and 404
\* of any provider, and what Kiro calls a denied credential in any failure, are
\* never retried with backoff nor papered over with last-good; a 429, and Kiro's
\* throttling under any status, always are.
RefusalsFinal ==
    Answered =>
        /\ Denied => Refusal(reading)
        /\ Throttled => Throttling(reading)

-----------------------------------------------------------------------------
(***************************************************************************)
(* What the documentation says and the code does not do.                   *)
(***************************************************************************)

\* README.md:163-164: Retry-After is honoured, and a longer one always wins; it
\* may be a date (prober.go:298).
RetryAfterWins ==
    Answered /\ reading.state = "rate_limited" /\ wire.provider # "kiro" =>
        (wire.exchange.header.kind \in {"seconds", "date"} =>
            reading.retryAfter >= wire.exchange.header.seconds)
=============================================================================
