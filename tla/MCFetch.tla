------------------------------- MODULE MCFetch -------------------------------
(***************************************************************************)
(* Payloads for TLC: for each provider every payload over a few numbers,   *)
(* around the boundaries of its windows, next to the exchanges of          *)
(* MCExchange.                                                             *)
(***************************************************************************)
EXTENDS Fetch, MCExchange

Percents == {Absent, 40, 100}

ClaudePayloads ==
    LET entry == [name : {"session", "weekly_all", "weekly_scoped", "mystery"},
                  model : {Absent, "opus", NoScope}, pct : Percents]
        amount == {Absent, [used |-> 5, limit |-> 5]}
    IN  [provider : {"claude"}, limits : SeqOf(entry, 2),
         buckets : [{"five_hour", "seven_day", "mystery"} -> {Absent, 100}],
         extra : amount]

CodexPayloads ==
    LET window == {Absent} \cup [used : {Absent, 40, 120}, left : {Absent, 0},
                                 mins : {0, 300, 10080}]
        limit  == {Absent} \cup [primary : window, secondary : window,
                                 reached : BOOLEAN]
        used   == [primary |-> [used |-> 100, left |-> Absent, mins |-> 300],
                   secondary |-> Absent, reached |-> TRUE]
        features == {{[scope |-> "code_review", limit |-> Absent]},
                     {[scope |-> s, limit |-> used] : s \in {"code_review", "additional"}}}
    IN  [provider : {"codex"}, limit : limit, features : features, balance : {Absent, 0}]

AgyPayloads ==
    LET bucket == [id : {"3p", "3p-pro"}, pool : {"3p"}, window : {"5h", "mystery"},
                   left : {Absent, 0, 40, 100}]
    IN  [provider : {"agy"}, status : {"success", "login", "other"},
         run : {"not_found", "login", "timeout", "exit", "no_json", "json"},
         command : {"usage", "other"}, buckets : SeqOf(bucket, 2)]

\* Bonuses, a code twice among them, and a second breakdown of a type of its own
\* or of that of the first.
KiroPayloads ==
    LET credits(a, u, l) == [active |-> a, used |-> u, limit |-> l]
        bonus(u, l) == [code |-> "gift", active |-> TRUE, used |-> u, limit |-> l]
        breakdown == [type : {"agent"}, used : {Absent, 1, 2, 3}, limit : {Absent, 2},
                      over : {Absent, 0, 1}, cap : {Absent, 0, 1, 2},
                      trial : {Absent, credits(TRUE, 1, 2), credits(FALSE, 1, 2),
                               credits(TRUE, Absent, 2), credits(TRUE, 0, Absent)},
                      bonuses : {<<>>, <<bonus(2, 2)>>, <<bonus(Absent, 1)>>,
                                 <<[bonus(1, 2) EXCEPT !.active = FALSE]>>,
                                 <<bonus(2, 1), bonus(2, 1)>>, <<bonus(2, 1), bonus(1, 2)>>}]
        empty(type) == [type |-> type, used |-> 3, limit |-> 2, over |-> 0,
                        trial |-> Absent, bonuses |-> <<bonus(2, 1)>>, cap |-> 2]
    IN  [provider : {"kiro"}, overage : BOOLEAN,
         breakdowns : {<<>>} \cup {<<b>> : b \in breakdown}
                            \cup {<<empty(t), b>> : t \in {"agent", "vibe"}, b \in breakdown}]

CopilotPayloads ==
    LET snapshot == {Absent} \cup [unlimited : BOOLEAN, entitled : {Absent, 0, 5},
                                   left : {Absent, -1, 0, 5}, pct : {Absent, 0, 50}]
    IN  [provider : {"copilot"}, snapshots : [{"chat", "premium"} -> snapshot],
         free : {<<>>} \cup [{"chat"} -> [left : {Absent, 0, 3}, limit : {Absent, 5}]]]

\* Up to three balances, two of one currency among them.
DeepSeekPayloads ==
    [provider : {"deepseek"}, available : BOOLEAN,
     balances : SeqOf([currency : {"usd", "cny"}, total : {Absent, -1, 0, 3}], 3)]

AllPayloads == UNION {ClaudePayloads, CodexPayloads, AgyPayloads, KiroPayloads,
                      CopilotPayloads, DeepSeekPayloads}
=============================================================================
