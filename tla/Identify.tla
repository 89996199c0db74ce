------------------------------- MODULE Identify -------------------------------
(***************************************************************************)
(* The providers' identify functions (claude.go, codex.go, agy.go, kiro.go,*)
(* copilot.go, deepseek.go, unsupported.go): the account, the token and    *)
(* the verdict on one source, from its override, its environment and its   *)
(* home's files, which are read one after the other while the agent's CLI  *)
(* logs in and out, refreshes and rewrites them.                           *)
(*                                                                         *)
(* A token is its holder and a serial number.  fingerprint is a truncated  *)
(* hash of a tagged identity, taken to be injective: a fingerprint is the  *)
(* pair of them.  A file is Missing, Garbage (also: half written), or the  *)
(* record of the fields identify reads, None where they are empty.         *)
(***************************************************************************)
EXTENDS Reading, Sequences, SequencesExt

CONSTANTS
    People,     \* holders of accounts
    MaxTokens,  \* bound on the tokens issued
    None,       \* an empty string
    Missing, Garbage,
    SourceSet   \* the sources identified


Tokens == [owner : People, n : 1..MaxTokens]

Token(p, n) == [owner |-> p, n |-> n]

\* The fields of each file: credentials, a .claude.json, auth, agy's token (sub and
\* email are its id_token's, mail its own email), GitHub's and Gemini's.
FileContents ==
    LET key  == Tokens \cup {None}
        name == People \cup {None}
    IN  UNION {[access : key, refresh : key], [uuid : name],
               [access : key, id : name, idClaim : name, apiKey : key],
               [sub : name, email : name, refresh : key, mail : name, account : name],
               [token : Tokens], [refresh : Tokens]}

ASSUME IdentifyAssumption ==
    /\ None \notin People /\ None \notin Tokens
    /\ People \cap Tokens = {}
    /\ MaxTokens \in Nat \ {0}
    /\ Missing # Garbage
    /\ Missing \notin FileContents /\ Garbage \notin FileContents

\* named: that every login of this home's CLI names its account; where it is FALSE
\* each login may or may not.  An account id given in the environment with a Codex
\* token (CHATGPT_ACCOUNT_ID) is left out: whose it is cannot be told.  No GitHub
\* file names an account.
ASSUME SourceAssumption ==
    \A s \in SourceSet :
        /\ s.provider \in {"claude", "codex", "agy", "kiro", "copilot", "deepseek",
                          "gemini", "muse"}
        /\ s.home \in BOOLEAN /\ s.dir \in BOOLEAN /\ s.named \in BOOLEAN
        /\ s.override \in Tokens \cup {None}
        /\ s.env \in Seq(Tokens \cup {None}) /\ Len(s.env) = 3
        /\ s.provider = "codex" => s.env[1] = None
        /\ s.provider = "copilot" => ~s.named

\* What an account may be made of.
Tags == {"acct", "refresh", "token", "apikey", "sub", "email", "refresh_token",
         "account", "home", "key"}

ASSUME AccountAssumption == Tags \X (People \cup Tokens \cup {None}) \subseteq Accounts

VARIABLES
    source,     \* the Source
    disk,       \* the contents of each file
    expired,    \* access tokens past the date that the files give them
    busy,       \* whether an identification is under way
    seen,       \* the contents it has read, in order
    found,      \* what the last one returned: a credential and a verdict
    holder,     \* who is logged in, as the CLI knows
    issued,     \* the tokens issued so far
    pending,    \* what the CLI has still to write
    clean,      \* history: no login, refresh or logout overlaps the identification
    known       \* history: the accounts each holder's clean identifications gave

cliVars == <<holder, issued, pending>>
vars == <<source, disk, expired, busy, seen, found, cliVars, clean, known>>


FileNames == {"credentials", "profile", "dirProfile", "auth", "agyToken", "apps",
              "hosts", "gh", "oauth"}

Readable(content) == content \notin {Missing, Garbage}

-----------------------------------------------------------------------------
(* What is read, in which order. *)

\* firstNonEmpty
FirstNonEmpty(s) ==
    LET known1 == {i \in DOMAIN s : s[i] # None}
    IN  IF known1 = {} THEN None
        ELSE s[CHOOSE i \in known1 : \A j \in known1 : i <= j]

Order ==
    LET p == source.provider
        located == source.home \/ source.dir
    IN  CASE p = "claude" /\ source.override = None /\ located ->
                IF source.dir THEN <<"credentials", "dirProfile">>
                              ELSE <<"credentials", "profile", "dirProfile">>
          [] p = "codex" /\ source.override = None /\ located -> <<"auth">>
          [] p = "agy" /\ source.home    -> <<"agyToken", "agyToken">>
          [] p = "gemini" /\ located     -> <<"oauth", "oauth">>
          [] p = "copilot" /\ FirstNonEmpty(<<source.override>> \o source.env) = None
                           /\ located    -> <<"apps", "hosts", "gh">>
          [] OTHER                       -> <<>>

-----------------------------------------------------------------------------
(* What is made of it. *)

Fingerprint(tag, identity) == <<tag, identity>>

Credential(verdict, token, account) ==
    [verdict |-> verdict, token |-> token, account |-> account]

NoCredentials == Credential("no_credentials", None, NoAccount)

\* Wrong: the configuration directory's .claude.json before the home's.
ClaudeAccountDirFirst(cf, profiles) ==
    LET named == {i \in DOMAIN profiles : Readable(profiles[i]) /\ profiles[i].uuid # None}
    IN  CASE named # {} ->
                Fingerprint("acct", profiles[CHOOSE i \in named :
                                               \A j \in named : i >= j].uuid)
          [] named = {} /\ cf.refresh # None -> Fingerprint("refresh", cf.refresh)
          [] named = {} /\ cf.refresh = None /\ cf.access # None ->
                Fingerprint("token", cf.access)
          [] OTHER -> Fingerprint("home", None)

\* Wrong: the refresh token before the account's uuid.
ClaudeAccountByRefresh(cf, profiles) ==
    IF cf.refresh # None THEN Fingerprint("refresh", cf.refresh)
    ELSE Fingerprint("home", None)

\* claudeAccount: the first .claude.json that names an account, then tokens.
ClaudeAccount(cf, profiles) ==
    LET named == {i \in DOMAIN profiles : Readable(profiles[i]) /\ profiles[i].uuid # None}
    IN  CASE named # {} ->
                Fingerprint("acct", profiles[CHOOSE i \in named :
                                               \A j \in named : i <= j].uuid)
          [] named = {} /\ cf.refresh # None -> Fingerprint("refresh", cf.refresh)
          [] named = {} /\ cf.refresh = None /\ cf.access # None ->
                Fingerprint("token", cf.access)
          [] OTHER -> Fingerprint("home", None)

\* Wrong: an expired token is final, as if it could not be refreshed.
ClaudeVerdictFinal(cf) ==
    CASE cf.access = None -> "no_credentials"
      [] cf.access # None /\ cf.access \in expired -> "login_expired"
      [] OTHER -> "usable"

\* A token past its date is transient where the CLI can refresh it.
ClaudeVerdict(cf) ==
    CASE cf.access = None -> "no_credentials"
      [] cf.access # None /\ cf.access \in expired ->
            IF cf.refresh # None THEN "token_expired" ELSE "login_expired"
      [] OTHER -> "usable"

\* claudeIdentify
ClaudeIdentify ==
    CASE source.override # None ->
            Credential("usable", source.override, Fingerprint("token", source.override))
      [] source.override = None /\ (Order = <<>> \/ ~Readable(seen[1])) -> NoCredentials
      [] OTHER ->
            Credential(ClaudeVerdict(seen[1]), seen[1].access,
                       ClaudeAccount(seen[1], Tail(seen)))

\* jwtClaims and codexAuthClaim: what a token says of its account.
Claim(token) == IF token # None /\ source.named THEN token.owner ELSE None

\* Wrong: a token that names no account has none.
CodexAccountNamedOnly(a) ==
    LET id == FirstNonEmpty(<<a.id, Claim(a.access), a.idClaim>>)
    IN  IF id # None THEN Fingerprint("acct", id) ELSE NoAccount

CodexAccount(a) ==
    LET id == FirstNonEmpty(<<a.id, Claim(a.access), a.idClaim>>)
    IN  IF id # None THEN Fingerprint("acct", id) ELSE Fingerprint("token", a.access)

\* codexIdentify.  A token that tells no date (exp) is never in expired.
CodexIdentify ==
    CASE source.override # None ->
            Credential("usable", source.override,
                Fingerprint("acct", FirstNonEmpty(<<source.env[1], Claim(source.override),
                                                    source.override>>)))
      [] source.override = None /\ (Order = <<>> \/ ~Readable(seen[1])) -> NoCredentials
      [] OTHER ->
            LET a == seen[1]
            IN  CASE a.access = None /\ a.apiKey = None -> NoCredentials
                  [] a.access = None /\ a.apiKey # None ->
                        Credential("api_key_login", None, Fingerprint("apikey", a.apiKey))
                  [] OTHER ->
                        Credential(IF a.access \in expired THEN "token_expired" ELSE "usable",
                                   a.access, CodexAccount(a))

\* Most stable first; that only the id_token's email is lowered is left out.
AgyIdentities(t) ==
    <<Fingerprint("sub", t.sub), Fingerprint("email", t.email),
      Fingerprint("refresh_token", t.refresh), Fingerprint("email", t.mail),
      Fingerprint("account", t.account)>>

\* agyAccount: the first identity that the token file tells, then the home.
AgyAccount(t) ==
    LET told == {i \in 1..5 : Readable(t) /\ AgyIdentities(t)[i][2] # None}
    IN  IF told = {} THEN Fingerprint("home", None)
        ELSE AgyIdentities(t)[CHOOSE i \in told : \A j \in told : i <= j]

\* agyIdentify: that the file exists is enough; agy itself holds the token.
AgyIdentify ==
    IF Order = <<>> \/ seen[1] = Missing THEN NoCredentials
    ELSE Credential("usable", None, AgyAccount(seen[2]))

\* copilotToken and copilotIdentify
CopilotIdentify ==
    LET files == [i \in DOMAIN seen |-> IF Readable(seen[i]) THEN seen[i].token ELSE None]
        token == FirstNonEmpty(<<source.override>> \o source.env \o files)
    IN  IF token = None THEN NoCredentials
        ELSE Credential("usable", token, Fingerprint("token", token))

\* kiroIdentify and deepSeekIdentify
KeyIdentify ==
    LET key == FirstNonEmpty(<<source.override>> \o source.env)
    IN  IF key = None THEN NoCredentials
        ELSE Credential("usable", key, Fingerprint("key", key))

\* museIdentify
MuseIdentify ==
    LET key == FirstNonEmpty(<<source.override>> \o source.env)
    IN  IF key = None THEN NoCredentials
        ELSE Credential("api_key_login", None, Fingerprint("key", key))

\* geminiIdentify: a login of the CLI, or else as museIdentify.
GeminiIdentify ==
    IF Order # <<>> /\ seen[1] # Missing
    THEN Credential("api_shutdown", None,
                    IF Readable(seen[2]) /\ seen[2].refresh # None
                    THEN Fingerprint("refresh", seen[2].refresh)
                    ELSE Fingerprint("home", None))
    ELSE MuseIdentify

Identified ==
    CASE source.provider = "claude"             -> ClaudeIdentify
      [] source.provider = "codex"              -> CodexIdentify
      [] source.provider = "agy"                -> AgyIdentify
      [] source.provider = "copilot"            -> CopilotIdentify
      [] source.provider \in {"kiro", "deepseek"} -> KeyIdentify
      [] source.provider = "gemini"             -> GeminiIdentify
      [] source.provider = "muse"               -> MuseIdentify

-----------------------------------------------------------------------------
(* The agents' CLIs, and time. *)

\* The accounts that a login of p may name where it names one or none.
Names(p) == IF source.named THEN {p} ELSE {None, p}

\* The .claude.json that a login writes the account to.
Profile(s) == IF s.dir THEN "dirProfile" ELSE "profile"

\* A login may have no refresh token, and one that names nobody may leave .claude.json
\* alone.
ClaudeKeys(t) == [access : {t}, refresh : {None, t}]

KeysAndProfile(k, who) ==
    [f \in {"credentials", Profile(source)} |->
        IF f = "credentials" THEN k ELSE [uuid |-> who]]

ClaudeLogins(p, t) ==
    {KeysAndProfile(k, who) : k \in ClaudeKeys(t), who \in Names(p)}
    \cup IF source.named THEN {} ELSE {[f \in {"credentials"} |-> k] : k \in ClaudeKeys(t)}

\* Older files have no id_token (agy.go:52-55).
AgyLogins(p, t) ==
    {[f \in {"agyToken"} |-> c] :
        c \in [sub : Names(p), email : {None, p}, refresh : {t}, mail : {None},
               account : {None}]
              \cup IF source.named THEN {}
                   ELSE [sub : {None}, email : {None}, refresh : {None, t},
                         mail : {None, p}, account : {None, p}]}

\* What a CLI writes when p logs in: the files, one after the other.
LoginFiles(p, t) ==
    CASE source.provider = "claude" -> ClaudeLogins(p, t)
      [] source.provider = "codex" ->
            {[f \in {"auth"} |-> [access |-> t, id |-> a, idClaim |-> b, apiKey |-> None]] :
                a \in {None, p}, b \in {None, p}}
            \cup {[f \in {"auth"} |-> [access |-> None, id |-> None, idClaim |-> None,
                                       apiKey |-> t]]}
      [] source.provider = "agy" -> AgyLogins(p, t)
      [] source.provider = "gemini" -> {[f \in {"oauth"} |-> [refresh |-> t]]}
      [] source.provider = "copilot" ->
            {[f \in {g} |-> [token |-> t]] : g \in {"apps", "hosts", "gh"}}
      [] OTHER -> {}

\* The files after a refresh: a new access token, and the refresh token stays.
RefreshedFiles(t) ==
    CASE source.provider = "claude" /\ Readable(disk["credentials"])
                                    /\ disk["credentials"].refresh # None ->
            {[f \in {"credentials"} |-> [disk["credentials"] EXCEPT !.access = t]]}
      [] source.provider = "codex" /\ Readable(disk["auth"]) /\ disk["auth"].access # None ->
            {[f \in {"auth"} |-> [disk["auth"] EXCEPT !.access = t]]}
      [] OTHER -> {}

\* The files after a logout; Claude Code zeroes its credentials.
LogoutFiles ==
    CASE source.provider = "claude" ->
            {[f \in {"credentials"} |-> [access |-> None, refresh |-> None]]}
      [] source.provider = "codex" -> {[f \in {"auth"} |-> Missing]}
      [] source.provider = "agy" -> {[f \in {"agyToken"} |-> Missing]}
      [] source.provider = "gemini" -> {[f \in {"oauth"} |-> Missing]}
      [] source.provider = "copilot" -> {[f \in {"apps", "hosts", "gh"} |-> Missing]}
      [] OTHER -> {}

Nothing == [f \in {} |-> None]

Settled == pending = Nothing

\* A home that identify reads nothing of needs no CLI.
Rewrite(files, who) ==
    /\ Settled
    /\ Order # <<>>
    /\ pending' \in files
    /\ holder' = who
    /\ clean' = (clean /\ ~busy)
    /\ UNCHANGED <<source, disk, expired, busy, seen, found, known>>

\* Tokens are numbered in the order of their issue.
NewTokens(p) ==
    {t \in Tokens : /\ t.owner = p
                    /\ \A n \in 1..MaxTokens : n < t.n <=> n \in {u.n : u \in issued}}

LogIn(p) ==
    /\ \E t \in NewTokens(p) :
         /\ issued' = issued \cup {t}
         /\ Rewrite(LoginFiles(p, t), p)

Refresh ==
    /\ holder # None
    /\ \E t \in NewTokens(holder) :
         /\ issued' = issued \cup {t}
         /\ Rewrite(RefreshedFiles(t), holder)

LogOut ==
    /\ holder # None
    /\ Rewrite(LogoutFiles, None)
    /\ UNCHANGED issued

\* A file is half written.
Truncate(f) ==
    /\ f \in DOMAIN pending
    /\ disk[f] # Garbage
    /\ disk' = [disk EXCEPT ![f] = Garbage]
    /\ UNCHANGED <<source, expired, busy, seen, found, cliVars, clean, known>>

Write(f) ==
    /\ f \in DOMAIN pending
    /\ disk' = [disk EXCEPT ![f] = pending[f]]
    /\ pending' = [g \in DOMAIN pending \ {f} |-> pending[g]]
    /\ UNCHANGED <<source, expired, busy, seen, found, holder, issued, clean, known>>

\* The date of a token, where the files tell it.
Expire(t) ==
    /\ t \in issued \ expired
    /\ source.provider \in {"claude", "codex"}
    /\ expired' = expired \cup {t}
    /\ UNCHANGED <<source, disk, busy, seen, found, cliVars, clean, known>>

-----------------------------------------------------------------------------
\* What earlier logins, of this or of another home, left in each .claude.json.
Left == [profile : [uuid : People] \cup {Missing}, dirProfile : [uuid : People] \cup {Missing}]

Init ==
    /\ source \in SourceSet
    /\ \E left \in IF source.provider = "claude" /\ Order # <<>> THEN Left ELSE {Nothing} :
         disk = [f \in FileNames |-> IF f \in DOMAIN left THEN left[f] ELSE Missing]
    /\ expired = {}
    /\ busy = FALSE
    /\ seen = <<>>
    /\ found = NoCredentials
    /\ holder = None
    /\ issued = {}
    /\ pending = Nothing
    /\ clean = TRUE
    /\ known = [p \in People |-> {}]

Begin ==
    /\ ~busy
    /\ busy' = TRUE
    /\ seen' = <<>>
    /\ found' = NoCredentials
    /\ clean' = Settled
    /\ UNCHANGED <<source, disk, expired, cliVars, known>>

\* A read that nothing depends on any more is made all the same.
Read ==
    /\ busy
    /\ Len(seen) < Len(Order)
    /\ seen' = Append(seen, disk[Order[Len(seen) + 1]])
    /\ UNCHANGED <<source, disk, expired, busy, found, cliVars, clean, known>>

\* The CLI's own view of who is behind what was found.
Behind(c) == IF c.token # None THEN c.token.owner ELSE holder

Conclude ==
    /\ busy
    /\ Len(seen) = Len(Order)
    /\ found' = Identified
    /\ busy' = FALSE
    /\ seen' = <<>>
    /\ known' = IF clean /\ Identified.verdict = "usable" /\ Behind(Identified) # None
                THEN [known EXCEPT ![Behind(Identified)] = @ \cup {Identified.account}]
                ELSE known
    /\ UNCHANGED <<source, disk, expired, cliVars, clean>>

Next ==
    \/ Begin \/ Read \/ Conclude
    \/ \E p \in People : LogIn(p)
    \/ Refresh \/ LogOut
    \/ \E f \in FileNames : Truncate(f) \/ Write(f)
    \/ \E t \in Tokens : Expire(t)

Spec == Init /\ [][Next]_vars

-----------------------------------------------------------------------------
(***************************************************************************)
(* Properties                                                              *)
(***************************************************************************)

LoginOf(c) == [account |-> c.account, verdict |-> c.verdict]

\* What is found is a Login as Client takes it, with an account wherever there is
\* a token to use or to refresh; and Gemini and Muse are never measured, so that
\* their fetch is unreachable (unsupported.go:30).
TypeOK ==
    /\ LoginOf(found) \in Logins
    /\ found.token \in Tokens \cup {None}
    /\ holder \in People \cup {None}
    /\ source.provider \in {"gemini", "muse"} => found.verdict # "usable"

\* An identification that no login, refresh or logout overlaps has the account of
\* whoever holds the token, though it puts the two together from several files,
\* of which some are of an earlier login, or of the home where the files say nothing
\* of it (agy.go:88).  Where every login names its account this is so whatever
\* .claude.json was left behind; where one need not, the home must be rid of those
\* that name somebody else, for claudeAccount takes any that it finds (claude.go:102).
Owner(account) == IF account[2] \in People THEN account[2] ELSE account[2].owner

OfHome(account) == account = Fingerprint("home", None)

\* A .claude.json that names another than who is logged in, where the login may not
\* have named him.
Misleading ==
    /\ source.provider = "claude" /\ ~source.named /\ Order # <<>>
    /\ \E f \in {"profile", "dirProfile"} :
         Readable(disk[f]) /\ disk[f].uuid \notin {None, holder}

RightAccount ==
    [][Conclude /\ clean /\ ~Misleading =>
         (found'.verdict \in {"usable", "token_expired"} =>
            IF OfHome(found'.account) THEN source.provider = "agy"
                                      ELSE Owner(found'.account) = Behind(found'))]_vars

\* A home is said to need a login exactly when it does: when nobody is logged in, or
\* whoever is has a token past its date and nothing to get another with; and this
\* however often the token expired, was refreshed or replaced.  An API key, and a
\* token that the CLI can refresh, need none.
FromHome ==
    /\ source.provider \in {"claude", "codex", "agy", "copilot"}
    /\ FirstNonEmpty(<<source.override>> \o source.env) = None
    /\ Order # <<>>

\* Only Claude's files can tell of a login that it cannot be renewed.
Spent ==
    /\ source.provider = "claude"
    /\ disk["credentials"].refresh = None
    /\ disk["credentials"].access \in expired

LoginAskedWhenNeeded ==
    [][Conclude /\ clean /\ FromHome =>
         (found'.verdict \in {"no_credentials", "login_expired"}
            <=> holder = None \/ Spent)]_vars

\* Where the login names its account (Claude's uuid, Codex's account id, agy's
\* Google subject), the account is one and the same through every refresh and
\* every new login (reading.go:149-151, agy.go:49-56).
OneFingerprint ==
    source.named => \A p \in People : \A a, b \in known[p] : a = b

(***************************************************************************)
(* What the documentation says and the code does not do.                   *)
(***************************************************************************)

\* reading.go:149-151: the account is a stable fingerprint of the account behind
\* the credential, so that homes sharing an account collapse to one reading.
StableAccount == \A p \in People : \A a, b \in known[p] : a = b
=============================================================================
