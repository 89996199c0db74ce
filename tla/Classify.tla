------------------------------- MODULE Classify -------------------------------
(***************************************************************************)
(* What an HTTP exchange with a quota endpoint becomes: the error class of *)
(* a response (classify.go) and the Reading built from it (classifyHTTP    *)
(* and httpJSON in prober.go).                                             *)
(*                                                                         *)
(* A Retry-After header is a record: absent, whole seconds, an HTTP date   *)
(* (the seconds until it), or anything else.                               *)
(***************************************************************************)
EXTENDS Reading

\* retryAfterSeconds: only a positive integer counts; a date is ignored.
RetryAfterSeconds(header) ==
    IF header.kind = "seconds" /\ header.seconds > 0 THEN header.seconds ELSE 0

ErrorClass(code) ==
    CASE code \in 500..599 \cup {429} -> "transient"
      [] code \in {401, 403}          -> "authentication"
      [] code = 404                   -> "not_found"
      [] code \in 400..499 \ {401, 403, 404, 429} -> "permanent"
      [] OTHER                        -> "unknown"

\* ClassifyHTTPResponse
ClassifyHTTPResponse(code, header) ==
    LET class == ErrorClass(code)
    IN  [class      |-> class,
         retryable  |-> class = "transient",
         retryAfter |-> IF class = "transient" THEN RetryAfterSeconds(header)
                                               ELSE 0]

\* The state and the cause classifyHTTP gives a response that is not 2xx.
FailedState(code) ==
    CASE ErrorClass(code) = "authentication" -> "auth_required"
      [] ErrorClass(code) = "not_found"      -> "unsupported"
      [] ErrorClass(code) = "transient" /\ code = 429 -> "rate_limited"
      [] OTHER                               -> "error"

FailedCause(code) ==
    CASE code = 401 -> "http_401" [] code = 403 -> "http_403"
      [] code = 404 -> "http_404" [] code = 429 -> "http_429"
      [] code \in 500..599 -> "http_5xx"
      [] OTHER -> "http_other"

\* classifyHTTP: the Reading of such a response.
ClassifyHTTP(code, header) ==
    LET c == ClassifyHTTPResponse(code, header)
    IN  [Fail(FailedState(code), FailedCause(code)) EXCEPT
           !.retryAfter = IF c.retryable THEN c.retryAfter ELSE 0]

(***************************************************************************)
(* httpJSON: an exchange ends in a transport error, a status that is not   *)
(* 2xx, a body that cannot be decoded, or a body whose windows have the    *)
(* given verdict.                                                          *)
(***************************************************************************)
HttpJSON(x) ==
    CASE x.outcome = "deadline"  -> Fail("error", "timeout")
      [] x.outcome = "transport" -> Fail("error", "network")
      [] x.outcome = "status"    -> ClassifyHTTP(x.code, x.header)
      [] x.outcome = "undecoded" -> Fail("error", "schema")
      [] x.outcome = "decoded"   -> Measured(x.verdict)

\* Wrong: a denied credential keeps the mark of the failure it came in.
KiroFetchStillTransient(x, says) ==
    LET r == HttpJSON(x)
    IN  CASE x.outcome = "decoded" -> r
          [] x.outcome # "decoded" /\ says = "throttling" ->
                [r EXCEPT !.state = "rate_limited", !.cause = "throttled",
                          !.transient = TRUE]
          [] x.outcome # "decoded" /\ says = "denied" ->
                [r EXCEPT !.state = "auth_required"]
          [] OTHER -> r

\* kiroFetch: AWS names its exceptions in the body of a 400, so what the failure
\* says (of which the code keeps 300 characters) decides before the status.
KiroFetch(x, says) ==
    LET r == HttpJSON(x)
    IN  CASE x.outcome = "decoded" -> r
          [] x.outcome # "decoded" /\ says = "throttling" ->
                [r EXCEPT !.state = "rate_limited", !.cause = "throttled",
                          !.transient = TRUE]
          [] x.outcome # "decoded" /\ says = "denied" ->
                [r EXCEPT !.state = "auth_required", !.transient = FALSE]
          [] OTHER -> r

\* copilotFetch: a 404 is an account without Copilot.
CopilotFetch(x) ==
    LET r == HttpJSON(x)
    IN  IF r.cause = "http_404"
        THEN [r EXCEPT !.state = "unsupported", !.cause = "no_copilot"] ELSE r
=============================================================================
