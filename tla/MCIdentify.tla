----------------------------- MODULE MCIdentify -----------------------------
(***************************************************************************)
(* Sources for TLC: for each provider a home, with and without files that  *)
(* name the account and with a configuration directory, an override and    *)
(* the environment's keys.                                                 *)
(***************************************************************************)
EXTENDS Identify, TLC, FiniteSets

CONSTANTS p1, p2

Fingerprints == Tags \X (People \cup Tokens \cup {None})

Symmetric == Permutations(People)

NoKeys == <<None, None, None>>

Source(provider, home, dir, override, env, named) ==
    [provider |-> provider, home |-> home, dir |-> dir, override |-> override,
     env |-> env, named |-> named]

Homes == {Source(p, TRUE, d, None, NoKeys, n) :
            p \in {"claude", "codex", "gemini"}, d \in BOOLEAN, n \in BOOLEAN}
         \cup {Source("agy", TRUE, FALSE, None, NoKeys, n) : n \in BOOLEAN}
         \cup {Source("copilot", TRUE, FALSE, None, NoKeys, FALSE)}

\* The override, or the first of the variables, is a key of either person.
Keys == {None, Token(p1, 1), Token(p2, 1)}

Given == {Source(p, h, FALSE, o, <<None, e, None>>, FALSE) :
            p \in {"claude", "codex", "kiro", "deepseek", "muse", "gemini", "copilot"},
            h \in BOOLEAN, o \in Keys, e \in Keys}

AllSources == Homes \cup Given

\* Two logins, or a login and a refresh, are enough where a login may name nobody:
\* the first leaves behind what the second does not write.
FewLogins ==
    source.provider \in {"claude", "agy"} /\ ~source.named => Cardinality(issued) <= 2

\* Homes logged in to GitHub.
GitHubHome == {Source("copilot", TRUE, FALSE, None, NoKeys, FALSE)}
=============================================================================
