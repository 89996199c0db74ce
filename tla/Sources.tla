------------------------------- MODULE Sources -------------------------------
(***************************************************************************)
(* Which sources ccleft probes (cmd/ccleft/config.go, main.go, detect.go): *)
(* the plan made of the flags and the configuration file, and the sources  *)
(* it yields in a world of credential files and environment variables.     *)
(*                                                                         *)
(* A source is a provider and where it was found: a home, the process      *)
(* environment or an entry of the configuration's "sources".  Lists are    *)
(* sets: nothing here depends on their order, and no list repeats itself.  *)
(***************************************************************************)
EXTENDS FiniteSets

CONSTANTS
    HomeDirs,   \* home directories
    NoBuild     \* buildSources failed

FileProviders == {"claude", "codex", "agy", "gemini", "copilot"}

\* isEnvProvider: their only credential is a key in the environment.
EnvProviders == {"kiro", "deepseek", "muse"}

\* Providers ccleft knows; ParseProvider refuses every other name.
KnownProviders == FileProviders \cup EnvProviders

(***************************************************************************)
(* The flags are [homes, providers, noEnv]; the configuration is [homes,   *)
(* sources, env], with env "unset" unless env_providers is given.  A home  *)
(* is [dir, providers], a source [provider, name, credential] where the    *)
(* credential is "none", "env" or "file".                                  *)
(***************************************************************************)
Plan(flags, config, ownHome) ==
    LET homes == config.homes \cup {[dir |-> d, providers |-> {}] : d \in flags.homes}
    IN  [providers |-> flags.providers,
         env       |-> ~flags.noEnv /\ config.env # "off",
         sources   |-> config.sources,
         homes     |-> IF homes = {} /\ config.sources = {}
                       THEN {[dir |-> ownHome, providers |-> {}]} ELSE homes]

\* The world is [files, keys, secrets]: the providers with credential files in
\* each home, those with a key in the environment, and the names of the
\* configuration's sources whose credential can be read.

\* DetectHome
DetectHome(world, dir) == world.files[dir] \cap FileProviders

\* DetectEnv
DetectEnv(world) == world.keys \cap (EnvProviders \cup {"copilot"})

\* A home's own providers replace the plan's; without either they are detected.
HomeSources(pl, world) ==
    UNION {LET filter == IF h.providers # {} THEN h.providers ELSE pl.providers
               wanted == IF filter = {} THEN DetectHome(world, h.dir)
                                        ELSE filter \ EnvProviders
           IN  {[provider |-> p, at |-> h.dir] : p \in wanted} : h \in pl.homes}

EnvSources(pl, world) ==
    LET wanted == IF pl.providers = {} THEN DetectEnv(world)
                                       ELSE pl.providers \cap EnvProviders
    IN  IF pl.env THEN {[provider |-> p, at |-> "env"] : p \in wanted} ELSE {}

Wanted(pl, provider) == pl.providers = {} \/ provider \in pl.providers

\* A source whose credential, named by the configuration, cannot be read.
Broken(s, world) == s.credential # "none" /\ s.name \notin world.secrets

BuildFails(pl, world) ==
    \/ \E h \in pl.homes : ~(h.providers \subseteq KnownProviders)
    \/ \E s \in pl.sources :
         \/ s.provider \notin KnownProviders
         \/ Wanted(pl, s.provider) /\ Broken(s, world)

\* buildSources
BuildSources(pl, world) ==
    IF BuildFails(pl, world) THEN NoBuild
    ELSE HomeSources(pl, world)
         \cup EnvSources(pl, world)
         \cup {[provider |-> s.provider, at |-> s.name] :
                 s \in {s \in pl.sources : Wanted(pl, s.provider)}}
=============================================================================
