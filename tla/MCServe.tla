------------------------------- MODULE MCServe -------------------------------
(***************************************************************************)
(* Small instances of Serve for TLC.  Three homes, one of them $HOME, the  *)
(* files of two CLIs, two keys and one configured secret.                  *)
(***************************************************************************)
EXTENDS Serve

\* A home whose providers are detected, another whose providers are given, an
\* API-key provider among them, and a source of the configuration.
PlainFlags == {[homes |-> {"agent"}, providers |-> {}, noEnv |-> FALSE]}

Team == [provider |-> "kiro", name |-> "team", credential |-> "file"]

TeamConfig == {[homes   |-> {[dir |-> "ci", providers |-> {"codex", "kiro"}]},
                sources |-> {Team},
                env     |-> "unset"]}

Files(ps) == [d \in HomeDirs |-> IF d = "agent" THEN ps ELSE {"codex"}]

LoggedIn  == [files |-> Files({"claude"}), keys |-> {"kiro"}, secrets |-> {"team"}]
LoggedOut == [LoggedIn EXCEPT !.files = Files({}), !.keys = {"kiro", "copilot"}]
NoSecret  == [LoggedIn EXCEPT !.secrets = {}]

ThreeWorlds == {LoggedIn, LoggedOut, NoSecret}
=============================================================================
