------------------------------- MODULE Metrics -------------------------------
(***************************************************************************)
(* The series of a scrape (metrics.go).  A series is the pair of a name    *)
(* and its labels; their values and the text of the exposition format are  *)
(* left out, but for the one-hot state, and so are the series of windows.  *)
(***************************************************************************)
EXTENDS Reading

\* WritePrometheus, for one reading: the series of its account, "who" (the
\* provider and the fingerprint), and the value of each.
StateSeries(who, r) ==
    [s \in {<<"ccleft_state", who, st>> : st \in States} |->
        IF s[3] = r.state THEN 1 ELSE 0]

ReadingSeries(who, r) ==
    DOMAIN StateSeries(who, r)
    \cup {<<"ccleft_stale", who>>, <<"ccleft_info", who, r.cause>>}
    \cup (IF r.fetched # NoTime THEN {<<"ccleft_fetched_timestamp_seconds", who>>} ELSE {})
=============================================================================
