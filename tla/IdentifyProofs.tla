---------------------------- MODULE IdentifyProofs ----------------------------
(***************************************************************************)
(* Proof that an identification which nothing overlaps gives the account   *)
(* of whoever holds the token, unless a .claude.json misleads it, and asks *)
(* for a login exactly where one is needed, for any number of people and   *)
(* of tokens, any sources and any sequence of logins, refreshes and        *)
(* logouts; that a holder keeps his account; and that any identification   *)
(* ends in a login.                                                        *)
(***************************************************************************)
EXTENDS Identify, RecursionLemmas

(***************************************************************************)
(* firstNonEmpty, for a list of any length.                                *)
(***************************************************************************)
LEMMA FirstIn ==
    ASSUME NEW S, NEW s \in Seq(S \cup {None})
    PROVE  /\ FirstNonEmpty(s) \in S \cup {None}
           /\ FirstNonEmpty(s) = None <=> \A i \in DOMAIN s : s[i] = None
<1> DEFINE known1 == {i \in DOMAIN s : s[i] # None}
<1>1. known1 \in SUBSET Nat /\ \A i \in known1 : s[i] \in S \cup {None} /\ s[i] # None
  OBVIOUS
<1>2. CASE known1 = {}
  <2>1. FirstNonEmpty(s) = None
    BY <1>2 DEF FirstNonEmpty
  <2>2. \A i \in DOMAIN s : s[i] = None
    BY <1>2
  <2>3. QED
    BY <2>1, <2>2
<1>3. CASE known1 # {}
  <2> DEFINE m == CHOOSE i \in known1 : \A j \in known1 : i <= j
  <2>1. m \in known1
    BY <1>1, <1>3, Least
  <2>2. FirstNonEmpty(s) = s[m]
    BY <1>3 DEF FirstNonEmpty
  <2> HIDE DEF m
  <2>3. QED
    BY <1>1, <2>1, <2>2
<1>4. QED
  BY <1>2, <1>3

\* A fingerprint's owner is the person, or the token's, that it is made of.
LEMMA OwnerOf ==
    ASSUME NEW tag
    PROVE  /\ \A p \in People : Owner(Fingerprint(tag, p)) = p
           /\ \A t \in Tokens : Owner(Fingerprint(tag, t)) = t.owner
  BY IdentifyAssumption DEF Owner, Fingerprint

-----------------------------------------------------------------------------
(***************************************************************************)
(* What the files will say once the CLI has written them all.              *)
(***************************************************************************)
Files == [f \in FileNames |-> IF f \in DOMAIN pending THEN pending[f] ELSE disk[f]]

TokensOf(p) == {t \in Tokens : t.owner = p}

\* Claude's credentials and the .claude.json that a login names its account in are
\* of one login; nothing is known of any other .claude.json.
ClaudeFiles(s, h, fs) ==
    /\ h = None => fs["credentials"] \in {Missing} \cup [access : {None}, refresh : {None}]
    /\ h # None => /\ fs["credentials"] \in [access : TokensOf(h),
                                              refresh : TokensOf(h) \cup {None}]
                   /\ s.named => fs[Profile(s)] \in [uuid : {h}]

CodexFiles(h, fs) ==
    /\ h = None => fs["auth"] = Missing
    /\ h # None => \/ fs["auth"] \in [access : TokensOf(h), id : {None, h},
                                      idClaim : {None, h}, apiKey : {None}]
                   \/ fs["auth"] \in [access : {None}, id : {None}, idClaim : {None},
                                      apiKey : TokensOf(h)]

AgyFiles(s, h, fs) ==
    /\ h = None => fs["agyToken"] = Missing
    /\ h # None => fs["agyToken"] \in [sub : IF s.named THEN {h} ELSE {None, h},
                                       email : {None, h}, refresh : TokensOf(h) \cup {None},
                                       mail : {None, h}, account : {None, h}]

\* Several GitHub tools each keep a login, of whichever person.
GitHub == {"apps", "hosts", "gh"}

CopilotFiles(h, fs) ==
    /\ \A f \in GitHub : fs[f] \in {Missing} \cup [token : Tokens]
    /\ h = None <=> \A f \in GitHub : fs[f] = Missing

FilesOf(s, h, fs) ==
    /\ s.provider = "claude"  => ClaudeFiles(s, h, fs)
    /\ s.provider = "codex"   => CodexFiles(h, fs)
    /\ s.provider = "agy"     => AgyFiles(s, h, fs)
    /\ s.provider = "copilot" => CopilotFiles(h, fs)

Contents == {Missing, Garbage} \cup FileContents

FilesInv ==
    /\ source \in SourceSet
    /\ holder \in People \cup {None}
    /\ disk \in [FileNames -> Contents]
    /\ DOMAIN pending \in SUBSET FileNames
    /\ \A f \in DOMAIN pending : pending[f] \in Contents
    /\ FilesOf(source, holder, Files)

\* An identification that nothing overlaps has read what is on the disk still.
LookInv ==
    /\ seen \in Seq(Contents)
    /\ busy /\ clean =>
         /\ Settled
         /\ Len(seen) <= Len(Order)
         /\ \A i \in 1..Len(seen) : seen[i] = disk[Order[i]]

-----------------------------------------------------------------------------
(***************************************************************************)
(* The CLI.                                                                *)
(***************************************************************************)

LEMMA SourceFacts ==
    ASSUME source \in SourceSet
    PROVE  /\ source.provider \in {"claude", "codex", "agy", "kiro", "copilot", "deepseek",
                                  "gemini", "muse"}
           /\ source.home \in BOOLEAN /\ source.dir \in BOOLEAN /\ source.named \in BOOLEAN
           /\ source.override \in Tokens \cup {None}
           /\ source.env \in Seq(Tokens \cup {None}) /\ Len(source.env) = 3
           /\ source.provider = "codex" => source.env[1] = None
           /\ source.provider = "copilot" => ~source.named
  BY SourceAssumption

\* Whoever decides what is to be written decides what the files will say.
LEMMA RewriteFiles ==
    ASSUME FilesInv, NEW all, NEW who, Rewrite(all, who),
           \A w \in all : DOMAIN w \in SUBSET FileNames
    PROVE  /\ pending' \in all
           /\ Files' = [f \in FileNames |-> IF f \in DOMAIN pending' THEN pending'[f]
                                                                     ELSE Files[f]]
           /\ Files = disk
<1>1. disk' = disk /\ pending' \in all /\ pending = Nothing
  BY DEF Rewrite, Settled
<1>2. DOMAIN pending = {}
  BY <1>1 DEF Nothing
<1>3. disk = [f \in FileNames |-> disk[f]]
  BY DEF FilesInv
<1>4. Files = disk
  BY <1>2, <1>3 DEF Files
<1>5. QED
  BY <1>1, <1>4 DEF Files

\* What a Claude login writes.
LEMMA ClaudeLogin ==
    ASSUME source.provider = "claude", NEW p, NEW t, NEW w \in LoginFiles(p, t)
    PROVE  /\ DOMAIN w \in SUBSET {"credentials", Profile(source)}
           /\ "credentials" \in DOMAIN w
           /\ w["credentials"] \in [access : {t}, refresh : {None, t}]
           /\ Profile(source) \in DOMAIN w =>
                w[Profile(source)] \in [uuid : IF source.named THEN {p} ELSE {None, p}]
           /\ source.named => Profile(source) \in DOMAIN w
<1>1. Profile(source) # "credentials"
  BY DEF Profile
<1>2. LoginFiles(p, t) = ClaudeLogins(p, t)
  BY DEF LoginFiles
<1>3. \/ \E k \in ClaudeKeys(t), who \in Names(p) : w = KeysAndProfile(k, who)
      \/ ~source.named /\ \E k \in ClaudeKeys(t) : w = [f \in {"credentials"} |-> k]
  BY <1>2 DEF ClaudeLogins
<1>4. CASE \E k \in ClaudeKeys(t), who \in Names(p) : w = KeysAndProfile(k, who)
  <2>1. PICK k \in ClaudeKeys(t), who \in Names(p) : w = KeysAndProfile(k, who)
    BY <1>4
  <2>2. /\ DOMAIN w = {"credentials", Profile(source)} /\ w["credentials"] = k
        /\ w[Profile(source)] = [uuid |-> who]
    BY <1>1, <2>1 DEF KeysAndProfile
  <2>3. [uuid |-> who] \in [uuid : IF source.named THEN {p} ELSE {None, p}]
    BY <2>1 DEF Names
  <2>4. k \in [access : {t}, refresh : {None, t}]
    BY <2>1 DEF ClaudeKeys
  <2>5. QED
    BY <2>2, <2>3, <2>4
<1>5. CASE ~source.named /\ \E k \in ClaudeKeys(t) : w = [f \in {"credentials"} |-> k]
  <2>1. PICK k \in ClaudeKeys(t) : w = [f \in {"credentials"} |-> k]
    BY <1>5
  <2>2. DOMAIN w = {"credentials"} /\ w["credentials"] = k
    BY <2>1
  <2>3. k \in [access : {t}, refresh : {None, t}]
    BY DEF ClaudeKeys
  <2>4. QED
    BY <1>1, <1>5, <2>2, <2>3
<1>6. QED
  BY <1>3, <1>4, <1>5

LEMMA LogInFiles ==
    ASSUME FilesInv, NEW p \in People, LogIn(p)
    PROVE  FilesInv'
<1>1. PICK t \in NewTokens(p) : Rewrite(LoginFiles(p, t), p)
  BY DEF LogIn
<1>2. t \in Tokens /\ t \in TokensOf(p)
  BY DEF NewTokens, TokensOf
<1>3. \A w \in LoginFiles(p, t) : /\ DOMAIN w \in SUBSET FileNames
                                  /\ \A f \in DOMAIN w : w[f] \in Contents
  <2> TAKE w \in LoginFiles(p, t)
  <2>1. CASE source.provider = "claude"
    <3>1. /\ DOMAIN w \in SUBSET {"credentials", Profile(source)}
          /\ w["credentials"] \in [access : {t}, refresh : {None, t}]
          /\ Profile(source) \in DOMAIN w =>
               w[Profile(source)] \in [uuid : {None, p}]
      BY <2>1, ClaudeLogin
    <3>2. /\ [access : {t}, refresh : {None, t}] \in SUBSET Contents
          /\ [uuid : {None, p}] \in SUBSET Contents
      BY <1>2 DEF Contents, FileContents
    <3>3. {"credentials", Profile(source)} \in SUBSET FileNames
      BY DEF FileNames, Profile
    <3>4. QED
      BY <3>1, <3>2, <3>3
  <2>2. CASE source.provider = "agy"
    <3>1. PICK c \in [sub : {None, p}, email : {None, p}, refresh : {None, t},
                      mail : {None, p}, account : {None, p}] :
             w = [f \in {"agyToken"} |-> c]
      BY <2>2 DEF LoginFiles, AgyLogins, Names
    <3>2. c \in FileContents
      BY <1>2 DEF FileContents
    <3>3. QED
      BY <3>1, <3>2 DEF Contents, FileNames
  <2>3. CASE source.provider \notin {"claude", "agy"}
    BY <1>2, <2>3 DEF LoginFiles, FileNames, Contents, FileContents
  <2>4. QED
    BY <2>1, <2>2, <2>3
<1>4. /\ pending' \in LoginFiles(p, t)
      /\ Files' = [f \in FileNames |-> IF f \in DOMAIN pending' THEN pending'[f]
                                                                ELSE Files[f]]
  BY <1>1, <1>3, RewriteFiles
<1>5. holder' = p /\ source' = source /\ disk' = disk
  BY <1>1 DEF Rewrite
<1>6. p # None
  BY IdentifyAssumption
<1>7. FilesOf(source, p, Files')
  <2>1. CASE source.provider = "claude"
    <3>1. /\ "credentials" \in DOMAIN pending'
          /\ pending'["credentials"] \in [access : TokensOf(p),
                                           refresh : TokensOf(p) \cup {None}]
          /\ source.named => /\ Profile(source) \in DOMAIN pending'
                             /\ pending'[Profile(source)] \in [uuid : {p}]
      BY <1>2, <1>4, <2>1, ClaudeLogin
    <3>2. {"credentials", Profile(source)} \in SUBSET FileNames
      BY DEF FileNames, Profile
    <3>3. ClaudeFiles(source, p, Files')
      BY <1>4, <1>6, <3>1, <3>2 DEF ClaudeFiles
    <3>4. QED
      BY <2>1, <3>3 DEF FilesOf
  <2>2. CASE source.provider = "codex"
    <3>1. /\ DOMAIN pending' = {"auth"}
          /\ \/ pending'["auth"] \in [access : TokensOf(p), id : {None, p},
                                      idClaim : {None, p}, apiKey : {None}]
             \/ pending'["auth"] \in [access : {None}, id : {None}, idClaim : {None},
                                      apiKey : TokensOf(p)]
      BY <1>2, <1>4, <2>2 DEF LoginFiles
    <3>2. QED
      BY <1>4, <1>6, <2>2, <3>1 DEF FilesOf, CodexFiles, FileNames
  <2>3. CASE source.provider = "agy"
    <3>1. /\ DOMAIN pending' = {"agyToken"}
          /\ pending'["agyToken"] \in [sub : IF source.named THEN {p} ELSE {None, p},
                                       email : {None, p}, refresh : TokensOf(p) \cup {None},
                                       mail : {None, p}, account : {None, p}]
      BY <1>2, <1>4, <2>3 DEF LoginFiles, AgyLogins, Names
    <3>2. QED
      BY <1>4, <1>6, <2>3, <3>1 DEF FilesOf, AgyFiles, FileNames
  <2>4. CASE source.provider = "copilot"
    <3>1. PICK g \in GitHub : /\ DOMAIN pending' = {g}
                              /\ pending'[g] \in [token : Tokens]
      BY <1>2, <1>4, <2>4 DEF LoginFiles, GitHub
    <3>2. \A f \in GitHub : Files[f] \in {Missing} \cup [token : Tokens]
      BY <2>4 DEF FilesInv, FilesOf, CopilotFiles
    <3>3. pending'[g] # Missing
      BY <3>1, IdentifyAssumption DEF FileContents
    <3>4. GitHub \in SUBSET FileNames
      BY DEF GitHub, FileNames
    <3>5. CopilotFiles(p, Files')
      BY <1>4, <1>6, <3>1, <3>2, <3>3, <3>4 DEF CopilotFiles
    <3>6. QED
      BY <2>4, <3>5 DEF FilesOf
  <2>5. QED
    BY <2>1, <2>2, <2>3, <2>4 DEF FilesOf
<1>8. QED
  BY <1>3, <1>4, <1>5, <1>7 DEF FilesInv

LEMMA RefreshFiles ==
    ASSUME FilesInv, Refresh
    PROVE  FilesInv'
<1>1. PICK t \in NewTokens(holder) : Rewrite(RefreshedFiles(t), holder)
  BY DEF Refresh
<1>2. t \in TokensOf(holder) /\ t \in Tokens
  BY DEF NewTokens, TokensOf
<1>3. holder # None /\ holder \in People /\ holder' = holder
      /\ source' = source /\ disk' = disk
  BY <1>1 DEF Refresh, FilesInv, Rewrite
<1>4. \A w \in RefreshedFiles(t) : DOMAIN w \in SUBSET FileNames
  BY DEF RefreshedFiles, FileNames
<1>5. /\ pending' \in RefreshedFiles(t)
      /\ Files' = [f \in FileNames |-> IF f \in DOMAIN pending' THEN pending'[f]
                                                                ELSE Files[f]]
      /\ Files = disk
  BY <1>1, <1>4, RewriteFiles
<1>6. CASE source.provider = "claude"
  <2>1. disk["credentials"] \in [access : TokensOf(holder),
                                 refresh : TokensOf(holder) \cup {None}]
    BY <1>3, <1>5, <1>6 DEF FilesInv, FilesOf, ClaudeFiles
  <2>2. /\ DOMAIN pending' = {"credentials"}
        /\ pending'["credentials"] \in [access : TokensOf(holder),
                                         refresh : TokensOf(holder) \cup {None}]
    BY <1>2, <1>5, <1>6, <2>1 DEF RefreshedFiles
  <2>3. pending'["credentials"] \in Contents
    BY <2>2 DEF TokensOf, Contents, FileContents
  <2>4. ClaudeFiles(source, holder, Files)
    BY <1>6 DEF FilesInv, FilesOf
  <2>5. {"credentials", "profile", "dirProfile", Profile(source)} \in SUBSET FileNames
        /\ Profile(source) # "credentials"
    BY DEF FileNames, Profile
  <2>6. ClaudeFiles(source, holder, Files')
    BY <1>3, <1>5, <2>2, <2>4, <2>5 DEF ClaudeFiles
  <2>7. FilesOf(source, holder, Files')
    BY <1>6, <2>6 DEF FilesOf
  <2>8. QED
    BY <1>3, <2>2, <2>3, <2>5, <2>7 DEF FilesInv
<1>7. CASE source.provider = "codex"
  <2>1. disk["auth"].access # None
    BY <1>5, <1>7 DEF RefreshedFiles
  <2>2. disk["auth"] \in [access : TokensOf(holder), id : {None, holder},
                          idClaim : {None, holder}, apiKey : {None}]
    BY <1>3, <1>5, <1>7, <2>1 DEF FilesInv, FilesOf, CodexFiles
  <2>3. /\ DOMAIN pending' = {"auth"}
        /\ pending'["auth"] \in [access : TokensOf(holder), id : {None, holder},
                                 idClaim : {None, holder}, apiKey : {None}]
    BY <1>2, <1>5, <1>7, <2>2 DEF RefreshedFiles
  <2>4. pending'["auth"] \in Contents
    BY <1>3, <2>3 DEF TokensOf, Contents, FileContents
  <2>5. FilesOf(source, holder, Files')
    BY <1>3, <1>5, <1>7, <2>3 DEF FilesOf, CodexFiles, FileNames
  <2>6. QED
    BY <1>3, <2>3, <2>4, <2>5 DEF FilesInv, FileNames
<1>8. QED
  BY <1>5, <1>6, <1>7 DEF RefreshedFiles

LEMMA LogOutFiles ==
    ASSUME FilesInv, LogOut
    PROVE  FilesInv'
<1>1. Rewrite(LogoutFiles, None)
  BY DEF LogOut
<1>2. \A w \in LogoutFiles : /\ DOMAIN w \in SUBSET FileNames
                             /\ \A f \in DOMAIN w : w[f] \in Contents
  BY DEF LogoutFiles, FileNames, Contents, FileContents
<1>3. /\ pending' \in LogoutFiles
      /\ Files' = [f \in FileNames |-> IF f \in DOMAIN pending' THEN pending'[f]
                                                                ELSE Files[f]]
  BY <1>1, <1>2, RewriteFiles
<1>4. holder' = None /\ source' = source /\ disk' = disk
  BY <1>1 DEF Rewrite
<1>5. FilesOf(source, None, Files')
  <2>1. CASE source.provider = "claude"
    <3>1. /\ DOMAIN pending' = {"credentials"}
          /\ pending'["credentials"] \in [access : {None}, refresh : {None}]
      BY <1>3, <2>1 DEF LogoutFiles
    <3>2. QED
      BY <1>3, <2>1, <3>1 DEF FilesOf, ClaudeFiles, FileNames
  <2>2. CASE source.provider = "codex"
    BY <1>3, <2>2 DEF LogoutFiles, FilesOf, CodexFiles, FileNames
  <2>3. CASE source.provider = "agy"
    BY <1>3, <2>3 DEF LogoutFiles, FilesOf, AgyFiles, FileNames
  <2>4. CASE source.provider = "copilot"
    BY <1>3, <2>4 DEF LogoutFiles, FilesOf, CopilotFiles, GitHub, FileNames
  <2>5. QED
    BY <2>1, <2>2, <2>3, <2>4 DEF FilesOf
<1>6. QED
  BY <1>2, <1>3, <1>4, <1>5 DEF FilesInv

\* Writing changes what the files say, never what they will say.
LEMMA TruncateFiles ==
    ASSUME FilesInv, NEW f \in FileNames, Truncate(f)
    PROVE  FilesInv'
<1>1. /\ f \in DOMAIN pending /\ disk' = [disk EXCEPT ![f] = Garbage]
      /\ pending' = pending /\ holder' = holder /\ source' = source
  BY DEF Truncate, cliVars
<1>2. Files' = Files
  BY <1>1 DEF Files, FilesInv
<1>3. disk' \in [FileNames -> Contents]
  BY <1>1 DEF FilesInv, Contents
<1>4. QED
  BY <1>1, <1>2, <1>3 DEF FilesInv

LEMMA WriteFiles ==
    ASSUME FilesInv, NEW f \in FileNames, Write(f)
    PROVE  FilesInv'
<1>1. /\ f \in DOMAIN pending /\ disk' = [disk EXCEPT ![f] = pending[f]]
      /\ pending' = [g \in DOMAIN pending \ {f} |-> pending[g]]
      /\ holder' = holder /\ source' = source
  BY DEF Write
<1>2. Files' = Files
  BY <1>1 DEF Files, FilesInv
<1>3. disk' \in [FileNames -> Contents]
  BY <1>1 DEF FilesInv
<1>4. QED
  BY <1>1, <1>2, <1>3 DEF FilesInv

\* Everything else leaves the files and the login alone.
LEMMA SameFiles ==
    ASSUME FilesInv, UNCHANGED <<source, disk, pending, holder>>
    PROVE  FilesInv'
<1>1. Files' = Files
  BY DEF Files
<1>2. QED
  BY <1>1 DEF FilesInv

LEMMA FilesStep ==
    ASSUME FilesInv, [Next]_vars
    PROVE  FilesInv'
<1>1. CASE Begin \/ Read \/ Conclude \/ UNCHANGED vars
  BY <1>1, SameFiles DEF Begin, Read, Conclude, vars, cliVars
<1>2. CASE \E p \in People : LogIn(p)
  BY <1>2, LogInFiles
<1>3. CASE Refresh \/ LogOut
  BY <1>3, RefreshFiles, LogOutFiles
<1>4. CASE \E f \in FileNames : Truncate(f) \/ Write(f)
  BY <1>4, TruncateFiles, WriteFiles
<1>5. CASE \E t \in Tokens : Expire(t)
  BY <1>5, SameFiles DEF Expire, cliVars
<1>6. QED
  BY <1>1, <1>2, <1>3, <1>4, <1>5 DEF Next

\* All that is left of earlier logins is in a .claude.json.
LEMMA InitDisk ==
    ASSUME Init
    PROVE  /\ disk = [f \in FileNames |-> disk[f]]
           /\ \A f \in FileNames \ {"profile", "dirProfile"} : disk[f] = Missing
           /\ \A f \in {"profile", "dirProfile"} : disk[f] \in [uuid : People] \cup {Missing}
<1>1. PICK left \in Left \cup {Nothing} :
         disk = [f \in FileNames |-> IF f \in DOMAIN left THEN left[f] ELSE Missing]
  BY DEF Init
<1>2. {"profile", "dirProfile"} \in SUBSET FileNames
  BY DEF FileNames
<1>3. CASE left = Nothing
  BY <1>1, <1>2, <1>3 DEF Nothing
<1>4. CASE left \in Left
  <2>1. DOMAIN left = {"profile", "dirProfile"}
        /\ left.profile \in [uuid : People] \cup {Missing}
        /\ left.dirProfile \in [uuid : People] \cup {Missing}
    BY <1>4 DEF Left
  <2>2. QED
    BY <1>1, <1>2, <2>1
<1>5. QED
  BY <1>1, <1>3, <1>4

LEMMA FilesInit == Init => FilesInv
<1> SUFFICES ASSUME Init PROVE FilesInv
  OBVIOUS
<1>1. DOMAIN pending = {}
  BY DEF Init, Nothing
<1>2. disk \in [FileNames -> Contents]
  <2>1. [uuid : People] \in SUBSET FileContents
    BY DEF FileContents
  <2>2. QED
    BY <2>1, InitDisk DEF Contents
<1>3. Files = disk
  BY <1>1, <1>2 DEF Files
<1>4. \A f \in FileNames \ {"profile", "dirProfile"} : disk[f] = Missing
  BY InitDisk
<1>5. FilesOf(source, None, Files)
  BY <1>3, <1>4 DEF FilesOf, ClaudeFiles, CodexFiles, AgyFiles, CopilotFiles,
                    GitHub, FileNames
<1>6. QED
  BY <1>1, <1>2, <1>5 DEF Init, FilesInv

-----------------------------------------------------------------------------
(***************************************************************************)
(* What is read.                                                           *)
(***************************************************************************)

LEMMA OrderType ==
    /\ Order \in Seq(FileNames)
    /\ Order = <<>> \/ Len(Order) >= 1
<1>1. Order \in {<<>>, <<"auth">>, <<"credentials", "dirProfile">>,
                 <<"credentials", "profile", "dirProfile">>, <<"agyToken", "agyToken">>,
                 <<"oauth", "oauth">>, <<"apps", "hosts", "gh">>}
  BY DEF Order
<1>2. \A f, g, h \in FileNames : /\ <<f>> \in Seq(FileNames) /\ Len(<<f>>) >= 1
                               /\ <<f, g>> \in Seq(FileNames) /\ Len(<<f, g>>) >= 1
                               /\ <<f, g, h>> \in Seq(FileNames) /\ Len(<<f, g, h>>) >= 1
  OBVIOUS
<1>3. <<>> \in Seq(FileNames)
  OBVIOUS
<1>4. {"auth", "credentials", "dirProfile", "profile", "agyToken", "oauth", "apps",
       "hosts", "gh"} \in SUBSET FileNames
  BY DEF FileNames
<1>5. QED
  BY <1>1, <1>2, <1>3, <1>4, Zenon

LEMMA SameOrder == source' = source => Order' = Order
  BY Zenon DEF Order

\* A step of the CLI ends the quiet, and any other leaves what was read in place.
LEMMA RewriteLook ==
    ASSUME FilesInv, LookInv, NEW all, NEW who, Rewrite(all, who)
    PROVE  LookInv'
<1>1. seen' = seen /\ (busy' <=> busy) /\ (clean' <=> (clean /\ ~busy))
  BY DEF Rewrite
<1>2. ~(busy' /\ clean')
  BY <1>1, Zenon
<1>3. QED
  BY <1>1, <1>2 DEF LookInv

LEMMA LookStep ==
    ASSUME FilesInv, LookInv, [Next]_vars
    PROVE  LookInv'
<1> USE OrderType, SameOrder
<1>1. CASE Begin
  <2>1. seen' = <<>> /\ source' = source /\ pending' = pending /\ clean' = Settled
    BY <1>1 DEF Begin, cliVars
  <2>2. clean' => Settled'
    BY <2>1 DEF Settled, Nothing
  <2>3. QED
    BY <2>1, <2>2 DEF LookInv
<1>2. CASE Read
  <2>1. /\ busy /\ busy' = busy /\ clean' = clean /\ source' = source /\ disk' = disk
        /\ pending' = pending
        /\ Len(seen) < Len(Order) /\ seen' = Append(seen, disk[Order[Len(seen) + 1]])
    BY <1>2 DEF Read, cliVars
  <2>2. Order[Len(seen) + 1] \in FileNames
    BY <2>1 DEF LookInv
  <2>3. seen' \in Seq(Contents)
    BY <2>1, <2>2 DEF LookInv, FilesInv
  <2>4. Settled' = Settled
    BY <2>1 DEF Settled, Nothing
  <2>5. busy' /\ clean' => /\ Settled
                           /\ Len(seen') <= Len(Order)
                           /\ \A i \in 1..Len(seen') : seen'[i] = disk[Order[i]]
    <3> SUFFICES ASSUME busy', clean' PROVE /\ Settled
                           /\ Len(seen') <= Len(Order)
                           /\ \A i \in 1..Len(seen') : seen'[i] = disk[Order[i]]
      OBVIOUS
    <3>1. busy /\ clean
      BY <2>1
    <3>2. Settled /\ \A i \in 1..Len(seen) : seen[i] = disk[Order[i]]
      BY <3>1 DEF LookInv
    <3>3. seen \in Seq(Contents)
      BY DEF LookInv
    <3>4. QED
      BY <2>1, <3>2, <3>3
  <2>6. QED
    BY <2>1, <2>3, <2>4, <2>5 DEF LookInv
<1>3. CASE Conclude
  <2>1. seen' = <<>> /\ busy' = FALSE
    BY <1>3 DEF Conclude
  <2>2. ~busy'
    BY <2>1
  <2>3. QED
    BY <2>1, <2>2 DEF LookInv
<1>4. CASE (\E p \in People : LogIn(p)) \/ Refresh \/ LogOut
  BY <1>4, RewriteLook DEF LogIn, Refresh, LogOut
<1>5. CASE \E f \in FileNames : Truncate(f) \/ Write(f)
  <2>1. DOMAIN pending # {} /\ seen' = seen /\ busy' = busy /\ clean' = clean
    BY <1>5 DEF Truncate, Write
  <2>2. ~Settled
    BY <2>1 DEF Settled, Nothing
  <2>3. ~(busy /\ clean)
    BY <2>2, Zenon DEF LookInv
  <2>4. ~(busy' /\ clean')
    BY <2>1, <2>3, Zenon
  <2>5. QED
    BY <2>1, <2>4 DEF LookInv
<1>6. CASE (\E t \in Tokens : Expire(t)) \/ UNCHANGED vars
  <2>1. UNCHANGED <<seen, busy, clean, pending, source, disk>>
    BY <1>6 DEF Expire, vars, cliVars
  <2>2. Settled' = Settled
    BY <2>1 DEF Settled, Nothing
  <2>3. QED
    BY <2>1, <2>2 DEF LookInv
<1>7. QED
  BY <1>1, <1>2, <1>3, <1>4, <1>5, <1>6 DEF Next

LEMMA LookInit == Init => LookInv
<1> SUFFICES ASSUME Init PROVE LookInv
  OBVIOUS
<1>1. seen = <<>> /\ busy = FALSE
  BY DEF Init
<1>2. ~busy
  BY <1>1
<1>3. QED
  BY <1>1, <1>2 DEF LookInv

LEMMA LookSafe == Spec => [](FilesInv /\ LookInv)
<1>1. Init => FilesInv /\ LookInv
  BY FilesInit, LookInit
<1>2. FilesInv /\ LookInv /\ [Next]_vars => (FilesInv /\ LookInv)'
  BY FilesStep, LookStep
<1>3. QED
  BY <1>1, <1>2, PTL DEF Spec

-----------------------------------------------------------------------------
(***************************************************************************)
(* What is made of it, provider by provider.                               *)
(***************************************************************************)

\* The identification has read the files as the CLI left them.
AllRead ==
    /\ source \in SourceSet
    /\ holder \in People \cup {None}
    /\ FilesOf(source, holder, Files)
    /\ Files = disk
    /\ seen \in Seq(Contents)
    /\ Len(seen) = Len(Order)
    /\ \A i \in 1..Len(Order) : seen[i] = Files[Order[i]]

LEMMA QuietReads ==
    ASSUME FilesInv, LookInv, busy, clean, Len(seen) = Len(Order)
    PROVE  AllRead
<1>1. Settled /\ \A i \in 1..Len(seen) : seen[i] = disk[Order[i]]
  BY DEF LookInv
<1>2. Files = disk
  <2>1. DOMAIN pending = {}
    BY <1>1 DEF Settled, Nothing
  <2>2. disk = [f \in FileNames |-> disk[f]]
    BY DEF FilesInv
  <2>3. QED
    BY <2>1, <2>2 DEF Files
<1>3. QED
  BY <1>1, <1>2 DEF AllRead, FilesInv, LookInv

\* The verdicts that ask for a login, and the account and the token's holder.
Out == {"no_credentials", "login_expired"}

Right(c) ==
    c.verdict \in {"usable", "token_expired"} =>
        IF OfHome(c.account) THEN source.provider = "agy" ELSE Owner(c.account) = Behind(c)

OutIfNeeded(c) == c.verdict \in Out <=> holder = None \/ Spent

\* The one account of a holder, where logins name theirs.
NamedAccount(p) ==
    CASE source.provider = "claude" /\ source.override # None ->
            Fingerprint("token", source.override)
      [] source.provider = "codex" /\ source.override # None ->
            Fingerprint("acct", FirstNonEmpty(<<source.env[1], Claim(source.override),
                                                source.override>>))
      [] source.provider \in {"claude", "codex"} /\ source.override = None ->
            Fingerprint("acct", p)
      [] source.provider = "agy" -> Fingerprint("sub", p)
      [] OTHER -> Fingerprint("key", FirstNonEmpty(<<source.override>> \o source.env))

OneAccount(c) ==
    source.named /\ c.verdict = "usable" => c.account = NamedAccount(Behind(c))

\* The keys that are looked at before the files, none of them set.
Keyless == FirstNonEmpty(<<source.override>> \o source.env) = None

LEMMA PrependFacts ==
    ASSUME NEW S, NEW a \in S, NEW s \in Seq(S)
    PROVE  /\ <<a>> \o s \in Seq(S) /\ Len(<<a>> \o s) = Len(s) + 1
           /\ (<<a>> \o s)[1] = a
           /\ \A i \in 1..Len(s) : (<<a>> \o s)[i + 1] = s[i]
  OBVIOUS

LEMMA KeysType ==
    ASSUME source \in SourceSet
    PROVE  /\ <<source.override>> \o source.env \in Seq(Tokens \cup {None})
           /\ FirstNonEmpty(<<source.override>> \o source.env) \in Tokens \cup {None}
           /\ Keyless => source.override = None /\ \A i \in 1..3 : source.env[i] = None
<1> DEFINE keys == <<source.override>> \o source.env
<1>1. source.override \in Tokens \cup {None} /\ source.env \in Seq(Tokens \cup {None})
      /\ Len(source.env) = 3
  BY SourceFacts
<1>2. keys \in Seq(Tokens \cup {None}) /\ Len(keys) = 4
  <2> DEFINE T == Tokens \cup {None}
  <2>1. source.override \in T /\ source.env \in Seq(T) /\ Len(source.env) = 3
    BY <1>1
  <2> HIDE DEF T
  <2>2. keys \in Seq(T) /\ Len(keys) = Len(source.env) + 1
    BY <2>1, PrependFacts, Zenon
  <2>3. QED
    BY <2>1, <2>2 DEF T
<1>3. keys[1] = source.override /\ \A i \in 1..3 : keys[i + 1] = source.env[i]
  BY <1>1
<1>4. /\ FirstNonEmpty(keys) \in Tokens \cup {None}
      /\ FirstNonEmpty(keys) = None <=> \A i \in DOMAIN keys : keys[i] = None
  BY <1>2, FirstIn
<1>5. DOMAIN keys = 1..4
  BY <1>2
<1> HIDE DEF keys
<1>6. Keyless => \A i \in 1..4 : keys[i] = None
  BY <1>4, <1>5 DEF Keyless, keys
<1>7. Keyless => source.override = None /\ \A i \in 1..3 : source.env[i] = None
  BY <1>3, <1>6
<1>8. QED
  BY <1>2, <1>4, <1>7 DEF keys

\* A token's own fingerprint is its holder's.
LEMMA RightToken ==
    ASSUME NEW t \in Tokens, NEW v, NEW tag
    PROVE  Right(Credential(v, t, Fingerprint(tag, t)))
<1>1. Owner(Fingerprint(tag, t)) = t.owner
  BY OwnerOf
<1>2. t # None
  BY IdentifyAssumption
<1>3. ~OfHome(Fingerprint(tag, t))
  BY <1>2 DEF OfHome, Fingerprint
<1>4. QED
  BY <1>1, <1>2, <1>3 DEF Right, Behind, Credential

LEMMA RightNone == /\ Right(NoCredentials) /\ OneAccount(NoCredentials)
                   /\ NoCredentials.verdict \in Out
  BY DEF Right, OneAccount, NoCredentials, Credential, Out

LEMMA ClaudeOrder ==
    ASSUME source \in SourceSet, source.provider = "claude", Order # <<>>
    PROVE  /\ Len(Order) >= 2 /\ Order[1] = "credentials" /\ Order[2] = Profile(source)
           /\ \A i \in 2..Len(Order) : Order[i] \in {"profile", "dirProfile"}
<1>1. \/ Order = <<"credentials", "dirProfile">> /\ source.dir = TRUE
      \/ Order = <<"credentials", "profile", "dirProfile">> /\ source.dir = FALSE
  BY SourceFacts DEF Order
<1>2. QED
  BY <1>1 DEF Profile

\* claudeAccount, where the credentials are the holder's.
LEMMA ClaudeOwner ==
    ASSUME AllRead, source.provider = "claude", Order # <<>>, holder # None
    PROVE  LET account == ClaudeAccount(seen[1], Tail(seen))
           IN  /\ ~Misleading => Owner(account) = holder
               /\ ~OfHome(account)
               /\ source.named => account = Fingerprint("acct", holder)
<1> DEFINE profiles == Tail(seen)
           named == {i \in DOMAIN profiles : Readable(profiles[i]) /\ profiles[i].uuid # None}
           first == CHOOSE i \in named : \A j \in named : i <= j
<1>1. holder \in People
  BY DEF AllRead
<1>2. /\ seen[1] \in [access : TokensOf(holder), refresh : TokensOf(holder) \cup {None}]
      /\ source.named => Files[Profile(source)] \in [uuid : {holder}]
      /\ Files = disk
  BY ClaudeOrder DEF AllRead, FilesOf, ClaudeFiles
<1>3. /\ DOMAIN profiles = 1..(Len(Order) - 1)
      /\ \A i \in 1..(Len(Order) - 1) : profiles[i] = Files[Order[i + 1]]
  BY ClaudeOrder, OrderType DEF AllRead
<1> DEFINE N == Len(Order) - 1
<1>4. /\ N \in Nat /\ N >= 1 /\ DOMAIN profiles = 1..N
      /\ \A i \in 1..N : i + 1 \in 2..Len(Order)
  BY <1>3, ClaudeOrder, OrderType DEF AllRead
<1> HIDE DEF N
<1>5. named \in SUBSET (1..N) /\ named \in SUBSET Nat
  BY <1>4
<1>6. \A x : x \in [uuid : {holder}] => Readable(x) /\ x.uuid = holder /\ x.uuid # None
  BY <1>1, IdentifyAssumption DEF Readable, FileContents
<1>7. named # {} => /\ first \in named
                    /\ ClaudeAccount(seen[1], profiles) = Fingerprint("acct", profiles[first].uuid)
  <2>1. named # {} => first \in named
    BY <1>5, Least
  <2>2. named # {} =>
          ClaudeAccount(seen[1], profiles) = Fingerprint("acct", profiles[first].uuid)
    BY DEF ClaudeAccount
  <2>3. QED
    BY <2>1, <2>2
<1>8. CASE source.named
  <2>1. 1 \in DOMAIN profiles /\ profiles[1] = Files[Profile(source)]
    BY <1>3, <1>4, ClaudeOrder DEF N, AllRead
  <2>2. 1 \in named /\ profiles[1].uuid = holder
    BY <1>2, <1>6, <1>8, <2>1
  <2> HIDE DEF named, profiles
  <2>3. \A j \in named : 1 <= j
    BY <1>4, <1>5
  <2>4. \A i \in named : (\A j \in named : i <= j) => i = 1
    BY <1>4, <1>5, <2>2
  <2>5. first = 1
    BY <2>2, <2>3, <2>4
  <2>6. ClaudeAccount(seen[1], profiles) = Fingerprint("acct", holder)
    BY <1>7, <2>2, <2>5
  <2>7. ~OfHome(Fingerprint("acct", holder)) /\ Owner(Fingerprint("acct", holder)) = holder
    BY <1>1, OwnerOf DEF OfHome, Fingerprint
  <2>8. QED
    BY <2>6, <2>7 DEF profiles
<1>9. CASE ~source.named /\ named # {}
  <2>1. \A i \in DOMAIN profiles : /\ Order[i + 1] \in {"profile", "dirProfile"}
                                  /\ profiles[i] = disk[Order[i + 1]]
    BY <1>2, <1>3, <1>4, ClaudeOrder DEF AllRead
  <2>2. ~Misleading => \A i \in named : profiles[i].uuid = holder
    BY <1>9, <2>1 DEF Misleading
  <2> HIDE DEF first, named, profiles
  <2>3. ~Misleading => ClaudeAccount(seen[1], profiles) = Fingerprint("acct", holder)
    BY <1>7, <1>9, <2>2
  <2>4. ~OfHome(ClaudeAccount(seen[1], profiles))
    BY <1>7, <1>9 DEF OfHome, Fingerprint
  <2>5. QED
    BY <1>1, <1>9, <2>3, <2>4, OwnerOf DEF profiles
<1>10. CASE ~source.named /\ named = {}
  <2>1. /\ seen[1].access \in TokensOf(holder)
        /\ seen[1].refresh \in TokensOf(holder) \cup {None}
    BY <1>2
  <2>2. PICK tag \in {"refresh", "token"}, t \in TokensOf(holder) :
           ClaudeAccount(seen[1], profiles) = Fingerprint(tag, t)
    <3>1. seen[1].access # None
      BY <2>1, IdentifyAssumption DEF TokensOf
    <3>2. CASE seen[1].refresh # None
      <4>1. ClaudeAccount(seen[1], profiles) = Fingerprint("refresh", seen[1].refresh)
        BY <1>10, <3>2 DEF ClaudeAccount
      <4>2. QED
        BY <2>1, <3>2, <4>1
    <3>3. CASE seen[1].refresh = None
      <4>1. ClaudeAccount(seen[1], profiles) = Fingerprint("token", seen[1].access)
        BY <1>10, <3>1, <3>3 DEF ClaudeAccount
      <4>2. QED
        BY <2>1, <4>1
    <3>4. QED
      BY <3>2, <3>3
  <2>3. t \in Tokens /\ t.owner = holder
    BY DEF TokensOf
  <2>4. ~OfHome(Fingerprint(tag, t))
    BY DEF OfHome, Fingerprint
  <2> HIDE DEF profiles
  <2>5. QED
    BY <1>10, <2>2, <2>3, <2>4, OwnerOf DEF profiles
<1>11. QED
  BY <1>8, <1>9, <1>10

\* claudeIdentify
LEMMA ClaudeRight ==
    ASSUME AllRead, source.provider = "claude"
    PROVE  /\ ~Misleading => Right(Identified)
           /\ OneAccount(Identified)
           /\ Keyless /\ Order # <<>> => OutIfNeeded(Identified)
<1>1. Identified = ClaudeIdentify
  BY DEF Identified
<1>2. source.override \in Tokens \cup {None} /\ (Keyless => source.override = None)
  BY KeysType, SourceFacts DEF AllRead
<1>3. CASE source.override # None
  <2>1. ClaudeIdentify = Credential("usable", source.override,
                                    Fingerprint("token", source.override))
    BY <1>3 DEF ClaudeIdentify
  <2>2. OneAccount(Identified)
    BY <1>1, <1>3, <2>1 DEF OneAccount, NamedAccount, Credential
  <2>3. QED
    BY <1>1, <1>2, <1>3, <2>1, <2>2, RightToken
<1>4. CASE source.override = None /\ Order = <<>>
  BY <1>1, <1>4, RightNone DEF ClaudeIdentify
<1>5. CASE source.override = None /\ Order # <<>> /\ holder = None
  <2>1. seen[1] \in {Missing} \cup [access : {None}, refresh : {None}]
    BY <1>5, ClaudeOrder DEF AllRead, FilesOf, ClaudeFiles
  <2>2. Identified.verdict = "no_credentials"
    BY <1>1, <1>5, <2>1 DEF ClaudeIdentify, ClaudeVerdict, NoCredentials, Credential, Readable
  <2>3. QED
    BY <1>5, <2>2 DEF Right, OneAccount, OutIfNeeded, Out
<1>6. CASE source.override = None /\ Order # <<>> /\ holder # None
  <2>1. seen[1] \in [access : TokensOf(holder), refresh : TokensOf(holder) \cup {None}]
        /\ seen[1] = disk["credentials"]
    BY <1>6, ClaudeOrder DEF AllRead, FilesOf, ClaudeFiles
  <2>2. /\ seen[1].access \in Tokens /\ seen[1].access.owner = holder
        /\ seen[1].access # None /\ seen[1].refresh \in Tokens \cup {None}
    BY <2>1, IdentifyAssumption DEF TokensOf
  <2>3. Readable(seen[1])
    <3>1. seen[1] \in [access : Tokens \cup {None}, refresh : Tokens \cup {None}]
      BY <2>1 DEF TokensOf
    <3>2. QED
      BY <3>1, IdentifyAssumption DEF Readable, FileContents
  <2>4. Identified = Credential(ClaudeVerdict(seen[1]), seen[1].access,
                                ClaudeAccount(seen[1], Tail(seen)))
    BY <1>1, <1>6, <2>3 DEF ClaudeIdentify
  <2>5. /\ ClaudeVerdict(seen[1]) \in {"usable", "token_expired", "login_expired"}
        /\ ClaudeVerdict(seen[1]) = "login_expired" <=> Spent
    BY <2>1, <2>2 DEF ClaudeVerdict, Spent
  <2>6. /\ ~Misleading => Owner(ClaudeAccount(seen[1], Tail(seen))) = holder
        /\ ~OfHome(ClaudeAccount(seen[1], Tail(seen)))
        /\ source.named => ClaudeAccount(seen[1], Tail(seen)) = Fingerprint("acct", holder)
    BY <1>6, ClaudeOwner
  <2>7. OneAccount(Identified)
    BY <1>6, <2>2, <2>4, <2>6 DEF OneAccount, NamedAccount, Behind, Credential
  <2>8. QED
    BY <1>6, <2>2, <2>4, <2>5, <2>6, <2>7 DEF Right, OutIfNeeded, Out, Behind, Credential
<1>7. QED
  BY <1>2, <1>3, <1>4, <1>5, <1>6

LEMMA CodexOrder ==
    ASSUME source \in SourceSet, source.provider = "codex", Order # <<>>
    PROVE  Len(Order) >= 1 /\ Order[1] = "auth"
<1>1. Order = <<"auth">>
  BY DEF Order
<1>2. QED
  BY <1>1

\* The first name of three that are the holder's, or missing.
LEMMA FirstOfThree ==
    ASSUME NEW h, NEW a \in {None, h}, NEW b \in {None, h}, NEW c \in {None, h}
    PROVE  FirstNonEmpty(<<a, b, c>>) \in {None, h}
<1> DEFINE T == {h} \cup {None}
           three == <<a, b, c>>
<1>1. three \in Seq(T)
  OBVIOUS
<1> HIDE DEF three
<1>2. FirstNonEmpty(three) \in T
  BY <1>1, FirstIn, Zenon
<1>3. QED
  BY <1>2 DEF three

\* codexIdentify
LEMMA CodexRight ==
    ASSUME AllRead, source.provider = "codex"
    PROVE  /\ Right(Identified) /\ OneAccount(Identified)
           /\ Keyless /\ Order # <<>> => OutIfNeeded(Identified)
<1>1. Identified = CodexIdentify
  BY DEF Identified
<1>2. /\ source.override \in Tokens \cup {None} /\ (Keyless => source.override = None)
      /\ source.env[1] = None
  BY KeysType, SourceFacts DEF AllRead
<1>3. CASE source.override # None
  <2> DEFINE key == source.override
             id == FirstNonEmpty(<<source.env[1], Claim(key), key>>)
  <2>1. key \in Tokens /\ key.owner \in People
    BY <1>2, <1>3 DEF Tokens
  <2>2. Owner(Fingerprint("acct", id)) = key.owner
    <3>1. source.env[1] = None /\ Claim(key) \in {None, key.owner} /\ key # None
      BY <1>2, <1>3 DEF Claim
    <3>2. CASE Claim(key) = None
      <4>1. id = key
        BY <3>1, <3>2 DEF FirstNonEmpty
      <4>2. QED
        BY <2>1, <4>1, OwnerOf
    <3>3. CASE Claim(key) = key.owner
      <4>1. key.owner # None
        BY <2>1, IdentifyAssumption
      <4>2. id = key.owner
        BY <3>1, <3>3, <4>1 DEF FirstNonEmpty
      <4>3. QED
        BY <2>1, <4>2, OwnerOf
    <3>4. QED
      BY <3>1, <3>2, <3>3
  <2>3. Identified = Credential("usable", key, Fingerprint("acct", id))
    BY <1>1, <1>3 DEF CodexIdentify
  <2>4. OneAccount(Identified)
    BY <1>3, <2>3 DEF OneAccount, NamedAccount, Credential
  <2> HIDE DEF id
  <2>5. QED
    BY <1>2, <1>3, <2>2, <2>3, <2>4 DEF Right, OfHome, Fingerprint, Behind, Credential
<1>4. CASE source.override = None /\ Order = <<>>
  BY <1>1, <1>4, RightNone DEF CodexIdentify
<1>5. CASE source.override = None /\ Order # <<>> /\ holder = None
  <2>1. seen[1] = Missing
    BY <1>5, CodexOrder DEF AllRead, FilesOf, CodexFiles
  <2>2. Identified = NoCredentials
    BY <1>1, <1>5, <2>1 DEF CodexIdentify, Readable
  <2>3. QED
    BY <1>5, <2>2, RightNone DEF OutIfNeeded
<1>6. CASE source.override = None /\ Order # <<>> /\ holder # None
  <2> DEFINE a == seen[1]
  <2>1. \/ a \in [access : TokensOf(holder), id : {None, holder},
                  idClaim : {None, holder}, apiKey : {None}]
        \/ a \in [access : {None}, id : {None}, idClaim : {None}, apiKey : TokensOf(holder)]
    BY <1>6, CodexOrder DEF AllRead, FilesOf, CodexFiles
  <2>2. holder \in People
    BY <1>6 DEF AllRead
  <2>3. a \in FileContents
    BY <2>1, <2>2 DEF FileContents, TokensOf
  <2>4. Readable(a)
    BY <2>3, IdentifyAssumption DEF Readable
  <2> HIDE DEF a
  <2>5. CASE a.access # None
    <3>1. /\ a.access \in Tokens /\ a.access.owner = holder
          /\ a.id \in {None, holder} /\ a.idClaim \in {None, holder}
      BY <2>1, <2>5 DEF TokensOf
    <3>2. Claim(a.access) \in {None, holder}
      BY <3>1 DEF Claim
    <3>3. FirstNonEmpty(<<a.id, Claim(a.access), a.idClaim>>) \in {None, holder}
      BY <3>1, <3>2, FirstOfThree
    <3>4. Owner(CodexAccount(a)) = holder /\ ~OfHome(CodexAccount(a))
      <4>1. Owner(CodexAccount(a)) = holder
        BY <2>2, <3>1, <3>3, OwnerOf DEF CodexAccount
      <4>2. ~OfHome(CodexAccount(a))
        BY DEF CodexAccount, OfHome, Fingerprint
      <4>3. QED
        BY <4>1, <4>2
    <3>5. Identified = Credential(IF a.access \in expired
                                  THEN "token_expired" ELSE "usable",
                                  a.access, CodexAccount(a))
          /\ ~Spent
      BY <1>1, <1>6, <2>4, <2>5 DEF CodexIdentify, Spent, a
    <3>6. source.named => CodexAccount(a) = Fingerprint("acct", holder)
      <4> DEFINE names == <<a.id, Claim(a.access), a.idClaim>>
      <4>1. source.named => names[2] = holder
        BY <2>5, <3>1 DEF Claim
      <4>2. names \in Seq({holder} \cup {None}) /\ 2 \in DOMAIN names
        BY <3>1, <3>2
      <4> HIDE DEF names
      <4>3. source.named => FirstNonEmpty(names) # None
        BY <1>6, <4>1, <4>2, FirstIn
      <4>4. QED
        BY <3>3, <4>3 DEF CodexAccount, names
    <3>7. OneAccount(Identified)
      BY <1>6, <2>5, <3>1, <3>5, <3>6 DEF OneAccount, NamedAccount, Behind, Credential
    <3>8. QED
      BY <1>6, <2>5, <3>1, <3>4, <3>5, <3>7
      DEF Right, OutIfNeeded, Out, Behind, Credential
  <2>6. CASE a.access = None
    <3>1. a.apiKey \in Tokens /\ a.apiKey # None
      BY <2>1, <2>6, IdentifyAssumption DEF TokensOf
    <3>2. Identified = Credential("api_key_login", None, Fingerprint("apikey", a.apiKey))
      BY <1>1, <1>6, <2>4, <2>6, <3>1 DEF CodexIdentify, a
    <3>3. QED
      BY <1>6, <3>2 DEF Right, OneAccount, OutIfNeeded, Out, Spent, Credential
  <2>7. QED
    BY <2>5, <2>6
<1>7. QED
  BY <1>2, <1>3, <1>4, <1>5, <1>6

\* agyIdentify
LEMMA AgyRight ==
    ASSUME AllRead, source.provider = "agy"
    PROVE  /\ Right(Identified) /\ OneAccount(Identified)
           /\ Keyless /\ Order # <<>> => OutIfNeeded(Identified)
<1>1. Identified = AgyIdentify
  BY DEF Identified
<1>2. CASE Order = <<>>
  BY <1>1, <1>2, RightNone DEF AgyIdentify
<1>3. CASE Order # <<>>
  <2>1. Order = <<"agyToken", "agyToken">>
    BY <1>3 DEF Order
  <2>2. seen[1] = Files["agyToken"] /\ seen[2] = Files["agyToken"]
    BY <2>1 DEF AllRead
  <2>3. CASE holder = None
    <3>1. Identified = NoCredentials
      BY <1>1, <2>2, <2>3 DEF AgyIdentify, AllRead, FilesOf, AgyFiles
    <3>2. QED
      BY <2>3, <3>1, RightNone DEF OutIfNeeded
  <2>4. CASE holder # None
    <3> DEFINE t == Files["agyToken"]
               ids == AgyIdentities(t)
               told == {i \in 1..5 : Readable(t) /\ ids[i][2] # None}
               first == CHOOSE i \in told : \A j \in told : i <= j
    <3>1. t \in [sub : IF source.named THEN {holder} ELSE {None, holder},
                 email : {None, holder}, refresh : TokensOf(holder) \cup {None},
                 mail : {None, holder}, account : {None, holder}]
          /\ holder \in People
      BY <2>4 DEF AllRead, FilesOf, AgyFiles
    <3>2. Readable(t)
      <4>1. t \in [sub : People \cup {None}, email : People \cup {None},
                   refresh : Tokens \cup {None}, mail : People \cup {None},
                   account : People \cup {None}]
        BY <3>1 DEF TokensOf
      <4>2. QED
        BY <4>1, IdentifyAssumption DEF Readable, FileContents
    <3>3. Identified = Credential("usable", None, AgyAccount(t))
      BY <1>1, <1>3, <2>2, <3>2 DEF AgyIdentify, Readable
    <3> DEFINE whose == {holder} \cup TokensOf(holder)
    <3>4. \A i \in 1..5 : \E tag, x : /\ ids[i] = Fingerprint(tag, x)
                                    /\ x \in {None} \cup whose
      BY <3>1 DEF AgyIdentities
    <3>5. \A x \in whose : \A tag : /\ Owner(Fingerprint(tag, x)) = holder
                                   /\ ~OfHome(Fingerprint(tag, x))
      <4>1. \A x \in whose : x # None
        BY <2>4, IdentifyAssumption DEF TokensOf
      <4>2. QED
        BY <3>1, <4>1, OwnerOf DEF TokensOf, OfHome, Fingerprint
    <3>6. told \in SUBSET Nat
      OBVIOUS
    <3>7. told = {} => AgyAccount(t) = Fingerprint("home", None)
      BY DEF AgyAccount
    <3>8. told # {} => AgyAccount(t) = ids[first]
      BY DEF AgyAccount
    <3>9. told # {} => first \in told
      BY <3>6, Least
    <3>10. source.named => ids[1] = Fingerprint("sub", holder) /\ 1 \in told
      BY <2>4, <3>1, <3>2 DEF AgyIdentities, Fingerprint
    <3>11. \A j \in told : 1 <= j /\ j \in Nat
      OBVIOUS
    <3>12. source.named => first = 1
      <4> HIDE DEF told
      <4>1. \A i \in told : (\A j \in told : i <= j) /\ 1 \in told => i = 1
        BY <3>11
      <4>2. QED
        BY <3>10, <3>11, <4>1
    <3>13. \A i \in told : Owner(ids[i]) = holder /\ ~OfHome(ids[i])
      <4> SUFFICES ASSUME NEW i \in told PROVE Owner(ids[i]) = holder /\ ~OfHome(ids[i])
        OBVIOUS
      <4> HIDE DEF ids, whose
      <4>1. PICK tag, x : ids[i] = Fingerprint(tag, x) /\ x \in {None} \cup whose
        BY <3>4
      <4>2. x # None
        BY <4>1 DEF Fingerprint
      <4>3. QED
        BY <3>5, <4>1, <4>2
    <3> HIDE DEF t, ids, told, first
    <3>14. OfHome(AgyAccount(t)) \/ Owner(AgyAccount(t)) = holder
      BY <3>7, <3>8, <3>9, <3>13 DEF OfHome
    <3>15. source.named => AgyAccount(t) = Fingerprint("sub", holder)
      BY <3>8, <3>10, <3>12
    <3>16. OneAccount(Identified)
      BY <3>3, <3>15 DEF OneAccount, NamedAccount, Behind, Credential
    <3>17. QED
      BY <2>4, <3>3, <3>14, <3>16 DEF Right, OutIfNeeded, Out, Spent, Behind, Credential
  <2>5. QED
    BY <2>3, <2>4
<1>4. QED
  BY <1>2, <1>3

\* kiroIdentify and deepSeekIdentify
LEMMA KeyRight ==
    ASSUME AllRead, source.provider \in {"kiro", "deepseek"}
    PROVE  Right(Identified) /\ OneAccount(Identified)
<1> DEFINE key == FirstNonEmpty(<<source.override>> \o source.env)
<1>1. key \in Tokens \cup {None}
  BY KeysType DEF AllRead
<1> HIDE DEF key
<1>2. Identified = IF key = None THEN NoCredentials
                   ELSE Credential("usable", key, Fingerprint("key", key))
  BY DEF Identified, KeyIdentify, key
<1>3. key # None => OneAccount(Identified)
  BY <1>2 DEF OneAccount, NamedAccount, Credential, key
<1>4. QED
  BY <1>1, <1>2, <1>3, RightToken, RightNone

\* geminiIdentify and museIdentify: nothing is usable.
LEMMA NeverMeasured ==
    ASSUME source.provider \in {"gemini", "muse"}
    PROVE  Right(Identified) /\ OneAccount(Identified)
<1>1. MuseIdentify.verdict \in {"no_credentials", "api_key_login"}
  BY DEF MuseIdentify, NoCredentials, Credential
<1>2. GeminiIdentify.verdict \in {"no_credentials", "api_key_login", "api_shutdown"}
  BY <1>1 DEF GeminiIdentify, Credential
<1>3. Identified \in {MuseIdentify, GeminiIdentify}
  BY DEF Identified
<1>4. QED
  BY <1>1, <1>2, <1>3 DEF Right, OneAccount

\* copilotToken and copilotIdentify: the keys, and then what each file says.
LEMMA CopilotRight ==
    ASSUME AllRead, source.provider = "copilot"
    PROVE  /\ Right(Identified) /\ OneAccount(Identified)
           /\ Keyless /\ Order # <<>> => OutIfNeeded(Identified)
<1> DEFINE T == Tokens \cup {None}
           keys == <<source.override>> \o source.env
           files == [i \in DOMAIN seen |-> IF Readable(seen[i]) THEN seen[i].token ELSE None]
           token == FirstNonEmpty(keys \o files)
<1>1. Order = <<>> \/ Order = <<"apps", "hosts", "gh">>
  BY DEF Order
<1>2. \A f \in GitHub : Files[f] \in {Missing} \cup [token : Tokens]
  BY DEF AllRead, FilesOf, CopilotFiles
<1>3. DOMAIN seen = 1..Len(Order) /\ Len(Order) \in Nat
  BY OrderType DEF AllRead
<1>4. \A i \in 1..Len(Order) : Order[i] \in GitHub /\ seen[i] = Files[Order[i]]
  BY <1>1 DEF GitHub, AllRead
<1>5. \A x \in [token : Tokens] : Readable(x) /\ x.token \in Tokens /\ x.token # None
  BY IdentifyAssumption DEF Readable, FileContents
<1>6. \A i \in 1..Len(Order) : /\ files[i] \in T
                               /\ files[i] = None <=> Files[Order[i]] = Missing
  BY <1>2, <1>3, <1>4, <1>5 DEF Readable
<1>7. files \in Seq(T) /\ Len(files) = Len(Order)
  BY <1>3, <1>6
<1>8. keys \in Seq(T)
  BY KeysType DEF AllRead
<1> HIDE DEF T, files, keys
<1>9. keys \o files \in Seq(T)
  BY <1>7, <1>8
<1>10. /\ token \in T
       /\ token = None <=> \A i \in DOMAIN (keys \o files) : (keys \o files)[i] = None
  BY <1>9, FirstIn DEF T
<1>11. Identified = IF token = None THEN NoCredentials
                    ELSE Credential("usable", token, Fingerprint("token", token))
  <2>1. keys \o files = <<source.override>> \o source.env \o files
    BY DEF keys
  <2>2. QED
    BY <2>1 DEF Identified, CopilotIdentify, files
<1> HIDE DEF token
<1>12. Right(Identified)
  BY <1>10, <1>11, RightToken, RightNone DEF T
<1>13. ASSUME Keyless, Order # <<>>
       PROVE  OutIfNeeded(Identified)
  <2>1. \A i \in DOMAIN keys : keys[i] = None
    <3>1. FirstNonEmpty(keys) = None
      BY <1>13 DEF Keyless, keys
    <3>2. QED
      BY <1>8, <3>1, FirstIn DEF T
  <2>2. token = None <=> \A i \in 1..Len(Order) : files[i] = None
    <3>1. DOMAIN (keys \o files) = 1..(Len(keys) + Len(files))
      BY <1>7, <1>8
    <3>2. \A i \in DOMAIN keys : (keys \o files)[i] = None
      BY <1>7, <1>8, <2>1
    <3>3. \A i \in 1..Len(files) : (keys \o files)[Len(keys) + i] = files[i]
      BY <1>7, <1>8
    <3>4. \A j \in DOMAIN (keys \o files) :
             j \in DOMAIN keys \/ \E i \in 1..Len(files) : j = Len(keys) + i
      <4> SUFFICES ASSUME NEW j \in 1..(Len(keys) + Len(files)), j \notin DOMAIN keys
                   PROVE  \E i \in 1..Len(files) : j = Len(keys) + i
        BY <3>1
      <4>1. Len(keys) \in Nat /\ Len(files) \in Nat /\ DOMAIN keys = 1..Len(keys)
        BY <1>7, <1>8
      <4>2. j - Len(keys) \in 1..Len(files) /\ j = Len(keys) + (j - Len(keys))
        BY <4>1
      <4>3. QED
        BY <4>2
    <3>5. \A i \in 1..Len(files) : Len(keys) + i \in DOMAIN (keys \o files)
      BY <1>7, <1>8, <3>1
    <3>6. QED
      BY <1>7, <1>10, <3>2, <3>3, <3>4, <3>5
  <2>3. holder = None <=> \A f \in GitHub : Files[f] = Missing
    BY DEF AllRead, FilesOf, CopilotFiles
  <2>4. (\A f \in GitHub : Files[f] = Missing)
          <=> \A i \in 1..Len(Order) : Files[Order[i]] = Missing
    BY <1>1, <1>13 DEF GitHub
  <2>5. token = None <=> holder = None
    BY <1>6, <2>2, <2>3, <2>4
  <2>6. QED
    BY <1>11, <2>5, RightNone DEF OutIfNeeded, Out, Spent, Credential
<1>14. OneAccount(Identified)
  BY SourceFacts DEF AllRead, OneAccount
<1>15. QED
  BY <1>12, <1>13, <1>14

-----------------------------------------------------------------------------
(***************************************************************************)
(* What each file holds, and so what was read of it, quiet or not.         *)
(***************************************************************************)
Key == Tokens \cup {None}
Name == People \cup {None}

FieldsOf(f) ==
    CASE f = "credentials"             -> [access : Key, refresh : Key]
      [] f \in {"profile", "dirProfile"} -> [uuid : Name]
      [] f = "auth"                    -> [access : Key, id : Name, idClaim : Name,
                                           apiKey : Key]
      [] f = "agyToken"                -> [sub : Name, email : Name, refresh : Key,
                                           mail : Name, account : Name]
      [] f = "oauth"                   -> [refresh : Tokens]
      [] f \in GitHub                  -> [token : Tokens]

ContentOf(f) == {Missing, Garbage} \cup FieldsOf(f)

DiskInv ==
    /\ \A f \in FileNames : disk[f] \in ContentOf(f)
    /\ \A f \in DOMAIN pending : pending[f] \in ContentOf(f)

SeenInv ==
    busy => /\ Len(seen) <= Len(Order)
            /\ \A i \in 1..Len(seen) : seen[i] \in ContentOf(Order[i])

\* What an identification may return.
Typed(c) ==
    /\ LoginOf(c) \in Logins
    /\ c.token \in Key
    /\ source.provider \in {"gemini", "muse"} => c.verdict # "usable"

\* A home that names its accounts gives each of its holders but one.
KnownInv ==
    /\ known \in [People -> SUBSET Accounts]
    /\ source.named => \A p \in People : known[p] \in SUBSET {NamedAccount(p)}

FoundInv == DiskInv /\ SeenInv /\ Typed(found) /\ KnownInv

LEMMA Fields ==
    /\ FieldsOf("credentials") = [access : Key, refresh : Key]
    /\ \A f \in {"profile", "dirProfile"} : FieldsOf(f) = [uuid : Name]
    /\ FieldsOf("auth") = [access : Key, id : Name, idClaim : Name, apiKey : Key]
    /\ FieldsOf("agyToken") = [sub : Name, email : Name, refresh : Key, mail : Name,
                               account : Name]
    /\ FieldsOf("oauth") = [refresh : Tokens]
    /\ \A f \in GitHub : FieldsOf(f) = [token : Tokens]
  BY DEF FieldsOf, GitHub

LEMMA NoneMissing ==
    /\ \A f : Missing \in ContentOf(f) /\ Garbage \in ContentOf(f)
    /\ [access |-> None, refresh |-> None] \in ContentOf("credentials")
    /\ \A f : \A x \in ContentOf(f) : Readable(x) => x \in FieldsOf(f)
<1>1. None \in Key
  BY DEF Key
<1>2. [access |-> None, refresh |-> None] \in [access : Key, refresh : Key]
  BY <1>1
<1>3. [access |-> None, refresh |-> None] \in FieldsOf("credentials")
  BY <1>2, Fields
<1>4. QED
  BY <1>3 DEF ContentOf, Readable

\* What the CLI is about to write is what its files hold.
LEMMA LogInTypes ==
    ASSUME NEW p \in People, NEW t \in Tokens
    PROVE  \A w \in LoginFiles(p, t) : \A f \in DOMAIN w : w[f] \in ContentOf(f)
<1>1. p \in Name /\ None \in Name /\ t \in Key /\ None \in Key
  BY DEF Name, Key
<1>2. \A a, b \in {None, p} :
        [access |-> t, id |-> a, idClaim |-> b, apiKey |-> None] \in FieldsOf("auth")
  BY <1>1, Fields
<1>3. [sub : {None, p}, email : {None, p}, refresh : {None, t}, mail : {None, p},
       account : {None, p}] \in SUBSET FieldsOf("agyToken")
  BY <1>1, Fields
<1>4. /\ [access |-> None, id |-> None, idClaim |-> None, apiKey |-> t] \in FieldsOf("auth")
      /\ [access : {t}, refresh : {None, t}] \in SUBSET FieldsOf("credentials")
      /\ \A f \in {"profile", "dirProfile"} :
            \A who \in {None, p} : [uuid |-> who] \in FieldsOf(f)
      /\ [refresh |-> t] \in FieldsOf("oauth")
      /\ \A f \in GitHub : [token |-> t] \in FieldsOf(f)
  BY <1>1, Fields
<1>5. \A w \in LoginFiles(p, t) : \A f \in DOMAIN w : w[f] \in FieldsOf(f)
  <2>1. CASE source.provider = "claude"
    <3> TAKE w \in LoginFiles(p, t)
    <3>1. /\ DOMAIN w \in SUBSET {"credentials", Profile(source)}
          /\ w["credentials"] \in [access : {t}, refresh : {None, t}]
          /\ Profile(source) \in DOMAIN w =>
               w[Profile(source)] \in [uuid : {None, p}]
      BY <2>1, ClaudeLogin
    <3>2. \A f \in {"profile", "dirProfile"} : [uuid : {None, p}] \in SUBSET FieldsOf(f)
      BY <1>4
    <3>3. Profile(source) \in {"profile", "dirProfile"}
      BY DEF Profile
    <3>4. QED
      BY <1>4, <3>1, <3>2, <3>3
  <2>2. CASE source.provider = "codex"
    BY <1>2, <1>4, <2>2 DEF LoginFiles
  <2>3. CASE source.provider = "agy"
    BY <1>3, <2>3 DEF LoginFiles, AgyLogins, Names
  <2>4. CASE source.provider \notin {"claude", "codex", "agy"}
    BY <1>4, <2>4 DEF LoginFiles, GitHub
  <2>5. QED
    BY <2>1, <2>2, <2>3, <2>4
<1>6. QED
  BY <1>5 DEF ContentOf

LEMMA RefreshTypes ==
    ASSUME DiskInv, NEW t \in Tokens
    PROVE  \A w \in RefreshedFiles(t) : \A f \in DOMAIN w : w[f] \in ContentOf(f)
<1>1. t \in Key /\ {"credentials", "auth"} \in SUBSET FileNames
  BY DEF Key, FileNames
<1>2. \A f \in {"credentials", "auth"} :
         Readable(disk[f]) => [disk[f] EXCEPT !.access = t] \in FieldsOf(f)
  <2>1. \A f \in {"credentials", "auth"} : Readable(disk[f]) => disk[f] \in FieldsOf(f)
    BY <1>1, NoneMissing DEF DiskInv
  <2> DEFINE C == [access : Key, refresh : Key]
             A == [access : Key, id : Name, idClaim : Name, apiKey : Key]
  <2>2. \A x \in C : [x EXCEPT !.access = t] \in C
    BY <1>1
  <2>3. \A x \in A : [x EXCEPT !.access = t] \in A
    BY <1>1
  <2>4. FieldsOf("credentials") = C /\ FieldsOf("auth") = A
    BY Fields
  <2> HIDE DEF A, C
  <2>5. QED
    BY <2>1, <2>2, <2>3, <2>4
<1>3. QED
  BY <1>2 DEF RefreshedFiles, ContentOf

LEMMA LogOutTypes ==
    \A w \in LogoutFiles : \A f \in DOMAIN w : w[f] \in ContentOf(f)
<1>1. {"credentials", "auth", "agyToken", "oauth", "apps", "hosts", "gh"} \in SUBSET FileNames
  BY DEF FileNames
<1>2. QED
  BY <1>1, NoneMissing DEF LogoutFiles

LEMMA DiskStep ==
    ASSUME FilesInv, DiskInv, [Next]_vars
    PROVE  DiskInv'
<1>1. CASE \E p \in People : LogIn(p)
  <2>1. PICK p \in People, t \in Tokens : Rewrite(LoginFiles(p, t), p)
    BY <1>1 DEF LogIn, NewTokens
  <2>2. QED
    BY <2>1, LogInTypes DEF Rewrite, DiskInv
<1>2. CASE Refresh
  <2>1. PICK t \in Tokens : Rewrite(RefreshedFiles(t), holder)
    BY <1>2 DEF Refresh, NewTokens
  <2>2. QED
    BY <2>1, RefreshTypes DEF Rewrite, DiskInv
<1>3. CASE LogOut
  BY <1>3, LogOutTypes DEF LogOut, Rewrite, DiskInv
<1>4. CASE \E f \in FileNames : Truncate(f) \/ Write(f)
  BY <1>4, NoneMissing DEF Truncate, Write, cliVars, DiskInv, FilesInv
<1>5. CASE Begin \/ Read \/ Conclude \/ (\E t \in Tokens : Expire(t)) \/ UNCHANGED vars
  BY <1>5 DEF Begin, Read, Conclude, Expire, vars, cliVars, DiskInv
<1>6. QED
  BY <1>1, <1>2, <1>3, <1>4, <1>5 DEF Next

LEMMA SeenStep ==
    ASSUME LookInv, DiskInv, SeenInv, [Next]_vars
    PROVE  SeenInv'
<1> USE OrderType, SameOrder
<1>1. source' = source
  BY DEF Next, vars, Begin, Read, Conclude, LogIn, Refresh, LogOut, Rewrite, Truncate,
         Write, Expire
<1>2. CASE Read
  <2>1. /\ busy /\ Len(seen) < Len(Order)
        /\ seen' = Append(seen, disk[Order[Len(seen) + 1]])
    BY <1>2 DEF Read
  <2>2. Order[Len(seen) + 1] \in FileNames /\ seen \in Seq(Contents)
    BY <2>1 DEF LookInv
  <2>3. Len(seen') <= Len(Order)
    BY <2>1, <2>2
  <2>4. \A i \in 1..Len(seen') : seen'[i] \in ContentOf(Order[i])
    BY <2>1, <2>2 DEF DiskInv, SeenInv
  <2>5. QED
    BY <1>1, <2>3, <2>4 DEF SeenInv
<1>3. CASE Begin
  <2>1. seen' = <<>>
    BY <1>3 DEF Begin
  <2>2. QED
    BY <1>1, <2>1 DEF SeenInv
<1>4. CASE Conclude
  <2>1. ~busy'
    BY <1>4 DEF Conclude
  <2>2. QED
    BY <2>1 DEF SeenInv
<1>5. CASE ~(Begin \/ Read \/ Conclude)
  <2>1. seen' = seen /\ busy' = busy
    BY <1>5 DEF Next, vars, LogIn, Refresh, LogOut, Rewrite, Truncate, Write, Expire
  <2>2. QED
    BY <1>1, <2>1 DEF SeenInv
<1>6. QED
  BY <1>2, <1>3, <1>4, <1>5

\* An identification under way has read its files, of whatever moments.
ReadAll ==
    /\ source \in SourceSet
    /\ seen \in Seq(Contents)
    /\ Len(seen) = Len(Order)
    /\ \A i \in 1..Len(Order) : seen[i] \in ContentOf(Order[i])

LEMMA AccountOf ==
    ASSUME NEW tag \in Tags, NEW x \in Name \cup Key
    PROVE  Fingerprint(tag, x) \in Accounts
  BY AccountAssumption DEF Fingerprint, Name, Key

LEMMA TypedIf ==
    ASSUME NEW v \in Verdicts, NEW t \in Key, NEW a \in Accounts
    PROVE  /\ LoginOf(Credential(v, t, a)) \in Logins
           /\ Credential(v, t, a).token = t /\ Credential(v, t, a).verdict = v
<1>1. a # NoAccount
  BY NoAccountAssumption
<1>2. QED
  BY <1>1 DEF LoginOf, Credential, Logins

LEMMA TypedNone == Typed(NoCredentials)
<1>1. None \in Key
  BY DEF Key
<1>2. "no_credentials" \in Verdicts
  BY DEF Verdicts
<1>3. QED
  BY <1>1, <1>2 DEF Typed, NoCredentials, Credential, LoginOf, Logins

LEMMA TypedKey ==
    ASSUME source \in SourceSet
    PROVE  /\ source.override \in Key
           /\ FirstNonEmpty(<<source.override>> \o source.env) \in Key
  BY SourceFacts, KeysType DEF Key

LEMMA VerdictTypes ==
    /\ {"usable", "token_expired", "login_expired", "no_credentials", "api_key_login",
        "api_shutdown"} \in SUBSET Verdicts
    /\ Tags = {"acct", "refresh", "token", "apikey", "sub", "email", "refresh_token",
               "account", "home", "key"}
  BY DEF Verdicts, Tags

\* claudeAccount, of credentials and profiles that need not be of one login.
LEMMA ClaudeAccountType ==
    ASSUME NEW cf \in [access : Key, refresh : Key], NEW n \in Nat, NEW profiles,
           DOMAIN profiles = 1..n,
           \A i \in 1..n : Readable(profiles[i]) => profiles[i].uuid \in Name
    PROVE  ClaudeAccount(cf, profiles) \in Accounts
<1> DEFINE named == {i \in DOMAIN profiles : Readable(profiles[i]) /\ profiles[i].uuid # None}
           first == CHOOSE i \in named : \A j \in named : i <= j
<1>1. named \in SUBSET Nat /\ \A i \in named : profiles[i].uuid \in Name
  OBVIOUS
<1>2. CASE named # {}
  <2>1. first \in named
    BY <1>1, <1>2, Least
  <2>2. ClaudeAccount(cf, profiles) = Fingerprint("acct", profiles[first].uuid)
    BY <1>2 DEF ClaudeAccount
  <2> HIDE DEF first, named
  <2>3. QED
    BY <1>1, <2>1, <2>2, AccountOf, VerdictTypes
<1>3. CASE named = {}
  <2>1. /\ cf.refresh # None =>
             ClaudeAccount(cf, profiles) = Fingerprint("refresh", cf.refresh)
        /\ cf.refresh = None /\ cf.access # None =>
             ClaudeAccount(cf, profiles) = Fingerprint("token", cf.access)
        /\ cf.refresh = None /\ cf.access = None =>
             ClaudeAccount(cf, profiles) = Fingerprint("home", None)
    BY <1>3 DEF ClaudeAccount
  <2>2. cf.refresh \in Key /\ cf.access \in Key /\ None \in Key
    BY DEF Key
  <2>3. QED
    BY <2>1, <2>2, AccountOf, VerdictTypes
<1>4. QED
  BY <1>2, <1>3

LEMMA ReadOf ==
    ASSUME ReadAll, NEW i \in 1..Len(Order), Readable(seen[i])
    PROVE  seen[i] \in FieldsOf(Order[i])
<1>1. seen[i] \in ContentOf(Order[i])
  BY DEF ReadAll
<1>2. QED
  BY <1>1, NoneMissing

LEMMA ClaudeTyped ==
    ASSUME ReadAll, source.provider = "claude"
    PROVE  Typed(Identified)
<1>1. Identified = ClaudeIdentify
  BY DEF Identified
<1>2. source.override \in Key /\ source \in SourceSet
  BY TypedKey DEF ReadAll
<1>3. CASE source.override # None
  <2>1. ClaudeIdentify = Credential("usable", source.override,
                                    Fingerprint("token", source.override))
    BY <1>3 DEF ClaudeIdentify
  <2>2. Fingerprint("token", source.override) \in Accounts /\ "usable" \in Verdicts
    BY <1>2, AccountOf, VerdictTypes
  <2>3. QED
    BY <1>1, <1>2, <2>1, <2>2, TypedIf DEF Typed
<1>4. CASE source.override = None /\ (Order = <<>> \/ ~Readable(seen[1]))
  BY <1>1, <1>4, TypedNone DEF ClaudeIdentify
<1>5. CASE source.override = None /\ Order # <<>> /\ Readable(seen[1])
  <2> DEFINE cf == seen[1]
             profiles == Tail(seen)
             N == Len(Order) - 1
  <2>1. /\ Len(Order) >= 2 /\ Order[1] = "credentials" /\ Len(Order) \in Nat
        /\ \A i \in 2..Len(Order) : Order[i] \in {"profile", "dirProfile"}
    BY <1>2, <1>5, ClaudeOrder, OrderType
  <2>2. cf \in [access : Key, refresh : Key]
    <3>1. 1 \in 1..Len(Order)
      BY <2>1
    <3>2. cf \in FieldsOf(Order[1])
      BY <1>5, <3>1, ReadOf
    <3>3. QED
      BY <2>1, <3>2, Fields
  <2>3. /\ N \in Nat /\ DOMAIN profiles = 1..N
        /\ \A i \in 1..N : profiles[i] = seen[i + 1] /\ i + 1 \in 2..Len(Order)
    BY <2>1 DEF ReadAll
  <2>4. \A i \in 1..N : Readable(profiles[i]) => profiles[i].uuid \in Name
    <3> SUFFICES ASSUME NEW i \in 1..N, Readable(profiles[i])
                 PROVE  profiles[i].uuid \in Name
      OBVIOUS
    <3>1. profiles[i] \in ContentOf(Order[i + 1]) /\ Order[i + 1] \in {"profile", "dirProfile"}
      BY <2>1, <2>3 DEF ReadAll
    <3>2. profiles[i] \in [uuid : Name]
      BY <3>1, NoneMissing, Fields
    <3>3. QED
      BY <3>2
  <2>5. Identified = Credential(ClaudeVerdict(cf), cf.access, ClaudeAccount(cf, profiles))
    BY <1>1, <1>5 DEF ClaudeIdentify
  <2> HIDE DEF cf, profiles, N
  <2>6. ClaudeAccount(cf, profiles) \in Accounts
    BY <2>2, <2>3, <2>4, ClaudeAccountType
  <2>7. ClaudeVerdict(cf) \in Verdicts /\ cf.access \in Key
    BY <2>2, VerdictTypes DEF ClaudeVerdict
  <2>8. QED
    BY <2>5, <2>6, <2>7, TypedIf DEF Typed
<1>6. QED
  BY <1>3, <1>4, <1>5

LEMMA CodexTyped ==
    ASSUME ReadAll, source.provider = "codex"
    PROVE  Typed(Identified)
<1>1. Identified = CodexIdentify
  BY DEF Identified
<1>2. /\ source.override \in Key /\ source \in SourceSet /\ source.env[1] = None
      /\ None \in Name \cup Key
  BY TypedKey, SourceFacts DEF ReadAll, Key
\* Whatever is named first, there is an account of it.
<1>3. \A a, b, c \in Name \cup Key : FirstNonEmpty(<<a, b, c>>) \in Name \cup Key
  <2> SUFFICES ASSUME NEW a \in Name \cup Key, NEW b \in Name \cup Key, NEW c \in Name \cup Key
               PROVE  FirstNonEmpty(<<a, b, c>>) \in Name \cup Key
    OBVIOUS
  <2> DEFINE T == Name \cup Key
             three == <<a, b, c>>
  <2>1. three \in Seq(T \cup {None})
    OBVIOUS
  <2> HIDE DEF three
  <2>2. FirstNonEmpty(three) \in T \cup {None}
    BY <2>1, FirstIn
  <2>3. QED
    BY <1>2, <2>2 DEF three
<1>4. \A t \in Key : Claim(t) \in Name \cup Key
  BY DEF Claim, Key, Name, Tokens
<1>5. CASE source.override # None
  <2> DEFINE id == FirstNonEmpty(<<source.env[1], Claim(source.override), source.override>>)
  <2>1. id \in Name \cup Key
    BY <1>2, <1>3, <1>4
  <2>2. CodexIdentify = Credential("usable", source.override, Fingerprint("acct", id))
    BY <1>5 DEF CodexIdentify
  <2> HIDE DEF id
  <2>3. Fingerprint("acct", id) \in Accounts /\ "usable" \in Verdicts
    BY <2>1, AccountOf, VerdictTypes
  <2>4. QED
    BY <1>1, <1>2, <2>2, <2>3, TypedIf DEF Typed
<1>6. CASE source.override = None /\ (Order = <<>> \/ ~Readable(seen[1]))
  BY <1>1, <1>6, TypedNone DEF CodexIdentify
<1>7. CASE source.override = None /\ Order # <<>> /\ Readable(seen[1])
  <2> DEFINE a == seen[1]
  <2>1. a \in [access : Key, id : Name, idClaim : Name, apiKey : Key]
    <3>1. 1 \in 1..Len(Order) /\ Order[1] = "auth"
      BY <1>2, <1>7, CodexOrder, OrderType
    <3>2. a \in FieldsOf(Order[1])
      BY <1>7, <3>1, ReadOf
    <3>3. QED
      BY <3>1, <3>2, Fields
  <2> HIDE DEF a
  <2>2. CASE a.access = None /\ a.apiKey = None
    BY <1>1, <1>7, <2>2, TypedNone DEF CodexIdentify, a
  <2>3. CASE a.access = None /\ a.apiKey # None
    <3>1. CodexIdentify = Credential("api_key_login", None, Fingerprint("apikey", a.apiKey))
      BY <1>7, <2>3 DEF CodexIdentify, a
    <3>2. Fingerprint("apikey", a.apiKey) \in Accounts /\ None \in Key
      BY <2>1, AccountOf, VerdictTypes DEF Key
    <3>3. QED
      BY <1>1, <3>1, <3>2, TypedIf, VerdictTypes DEF Typed
  <2>4. CASE a.access # None
    <3> DEFINE v == IF a.access \in expired THEN "token_expired" ELSE "usable"
    <3>1. CodexIdentify = Credential(v, a.access, CodexAccount(a))
      BY <1>7, <2>4 DEF CodexIdentify, a
    <3>2. v \in Verdicts
      BY VerdictTypes
    <3> HIDE DEF v
    <3>3. CodexAccount(a) \in Accounts
      <4> DEFINE id == FirstNonEmpty(<<a.id, Claim(a.access), a.idClaim>>)
      <4>1. id \in Name \cup Key /\ a.access \in Name \cup Key
        BY <1>3, <1>4, <2>1
      <4>2. CodexAccount(a) \in {Fingerprint("acct", id), Fingerprint("token", a.access)}
        BY DEF CodexAccount
      <4> HIDE DEF id
      <4>3. QED
        BY <4>1, <4>2, AccountOf, VerdictTypes
    <3>4. QED
      BY <1>1, <2>1, <3>1, <3>2, <3>3, TypedIf DEF Typed
  <2>5. QED
    BY <2>2, <2>3, <2>4
<1>8. QED
  BY <1>5, <1>6, <1>7

LEMMA AgyTyped ==
    ASSUME ReadAll, source.provider = "agy"
    PROVE  Typed(Identified)
<1>1. Identified = AgyIdentify
  BY DEF Identified
<1>2. CASE Order = <<>> \/ seen[1] = Missing
  BY <1>1, <1>2, TypedNone DEF AgyIdentify
<1>3. CASE Order # <<>> /\ seen[1] # Missing
  <2> DEFINE t == seen[2]
  <2>1. Order = <<"agyToken", "agyToken">>
    BY <1>3 DEF Order
  <2>2. Readable(t) => t \in [sub : Name, email : Name, refresh : Key, mail : Name,
                              account : Name]
    <3>1. 2 \in 1..Len(Order) /\ Order[2] = "agyToken"
      BY <2>1
    <3>2. Readable(t) => t \in FieldsOf(Order[2])
      BY <3>1, ReadOf
    <3>3. QED
      BY <3>1, <3>2, Fields
  <2> HIDE DEF t
  <2>3. AgyAccount(t) \in Accounts
    <3>1. None \in Name \cup Key
      BY DEF Name
    <3>2. CASE Readable(t)
      <4> DEFINE ids == AgyIdentities(t)
                 told == {i \in 1..5 : Readable(t) /\ ids[i][2] # None}
                 first == CHOOSE i \in told : \A j \in told : i <= j
      <4>1. /\ t.sub \in Name \cup Key /\ t.email \in Name \cup Key
            /\ t.refresh \in Name \cup Key /\ t.mail \in Name \cup Key
            /\ t.account \in Name \cup Key
        BY <2>2, <3>2
      <4>2. \A i \in 1..5 : \E tag \in Tags, x \in Name \cup Key : ids[i] = Fingerprint(tag, x)
        BY <4>1, VerdictTypes DEF AgyIdentities
      <4>3. told # {} => first \in told
        <5>1. told \in SUBSET Nat
          OBVIOUS
        <5>2. QED
          BY <5>1, Least
      <4>4. AgyAccount(t) = IF told = {} THEN Fingerprint("home", None) ELSE ids[first]
        BY DEF AgyAccount
      <4>5. told # {} => \E tag \in Tags, x \in Name \cup Key : ids[first] = Fingerprint(tag, x)
        BY <4>2, <4>3
      <4> HIDE DEF told, ids, first
      <4>6. QED
        BY <3>1, <4>4, <4>5, AccountOf, VerdictTypes
    <3>3. CASE ~Readable(t)
      <4>1. AgyAccount(t) = Fingerprint("home", None)
        BY <3>3 DEF AgyAccount
      <4>2. QED
        BY <3>1, <4>1, AccountOf, VerdictTypes
    <3>4. QED
      BY <3>2, <3>3
  <2>4. Identified = Credential("usable", None, AgyAccount(t))
    BY <1>1, <1>3 DEF AgyIdentify, t
  <2>5. None \in Key
    BY DEF Key
  <2>6. QED
    BY <2>3, <2>4, <2>5, TypedIf, VerdictTypes DEF Typed
<1>4. QED
  BY <1>2, <1>3

LEMMA KeyTyped ==
    ASSUME source \in SourceSet, source.provider \in {"kiro", "deepseek"}
    PROVE  Typed(Identified)
<1> DEFINE key == FirstNonEmpty(<<source.override>> \o source.env)
<1>1. key \in Key
  BY TypedKey
<1>2. Identified = IF key = None THEN NoCredentials
                   ELSE Credential("usable", key, Fingerprint("key", key))
  BY DEF Identified, KeyIdentify
<1> HIDE DEF key
<1>3. Fingerprint("key", key) \in Accounts
  BY <1>1, AccountOf, VerdictTypes
<1>4. QED
  BY <1>1, <1>2, <1>3, TypedNone, TypedIf, VerdictTypes DEF Typed

LEMMA MuseTyped ==
    ASSUME source \in SourceSet
    PROVE  /\ LoginOf(MuseIdentify) \in Logins /\ MuseIdentify.token \in Key
           /\ MuseIdentify.verdict # "usable"
<1> DEFINE key == FirstNonEmpty(<<source.override>> \o source.env)
<1>1. key \in Key
  BY TypedKey
<1>2. MuseIdentify = IF key = None THEN NoCredentials
                     ELSE Credential("api_key_login", None, Fingerprint("key", key))
  BY DEF MuseIdentify
<1> HIDE DEF key
<1>3. Fingerprint("key", key) \in Accounts /\ None \in Key
  BY <1>1, AccountOf, VerdictTypes DEF Key
<1>4. NoCredentials.verdict # "usable"
  BY DEF NoCredentials, Credential
<1>5. QED
  BY <1>2, <1>3, <1>4, TypedNone, TypedIf, VerdictTypes DEF Typed

LEMMA GeminiTyped ==
    ASSUME ReadAll, source.provider \in {"gemini", "muse"}
    PROVE  Typed(Identified)
<1>0. source \in SourceSet
  BY DEF ReadAll
<1>1. CASE Identified = MuseIdentify
  BY <1>0, <1>1, MuseTyped DEF Typed
<1>2. CASE source.provider = "gemini" /\ Order # <<>> /\ seen[1] # Missing
  <2> DEFINE t == seen[2]
             account == IF Readable(t) /\ t.refresh # None THEN Fingerprint("refresh", t.refresh)
                                                          ELSE Fingerprint("home", None)
  <2>1. Order = <<"oauth", "oauth">>
    BY <1>2 DEF Order
  <2>2. Readable(t) => t \in [refresh : Tokens]
    <3>1. 2 \in 1..Len(Order) /\ Order[2] = "oauth"
      BY <2>1
    <3>2. Readable(t) => t \in FieldsOf(Order[2])
      BY <3>1, ReadOf
    <3>3. QED
      BY <3>1, <3>2, Fields
  <2>3. Identified = Credential("api_shutdown", None, account)
    BY <1>2 DEF Identified, GeminiIdentify
  <2> HIDE DEF t
  <2>4. account \in Accounts
    <3>1. None \in Name \cup Key /\ (Readable(t) => t.refresh \in Name \cup Key)
      BY <2>2 DEF Name, Key
    <3>2. QED
      BY <3>1, AccountOf, VerdictTypes
  <2> HIDE DEF account
  <2>5. None \in Key
    BY DEF Key
  <2>6. QED
    BY <2>3, <2>4, <2>5, TypedIf, VerdictTypes DEF Typed
<1>3. QED
  BY <1>1, <1>2 DEF Identified, GeminiIdentify

LEMMA CopilotTyped ==
    ASSUME ReadAll, source.provider = "copilot"
    PROVE  Typed(Identified)
<1> DEFINE keys == <<source.override>> \o source.env
           files == [i \in DOMAIN seen |-> IF Readable(seen[i]) THEN seen[i].token ELSE None]
           token == FirstNonEmpty(keys \o files)
<1>1. Order = <<>> \/ Order = <<"apps", "hosts", "gh">>
  BY DEF Order
<1>2. DOMAIN seen = 1..Len(Order) /\ Len(Order) \in Nat
  BY OrderType DEF ReadAll
<1>3. \A i \in 1..Len(Order) : Order[i] \in GitHub
  BY <1>1 DEF GitHub
<1>4. \A i \in 1..Len(Order) : files[i] \in Key
  <2> SUFFICES ASSUME NEW i \in 1..Len(Order)
               PROVE  files[i] \in Key
    OBVIOUS
  <2>1. Readable(seen[i]) => seen[i] \in [token : Tokens]
    BY <1>3, ReadOf, Fields
  <2>2. files[i] = IF Readable(seen[i]) THEN seen[i].token ELSE None
    BY <1>2
  <2>3. QED
    BY <2>1, <2>2 DEF Key
<1>5. files \in Seq(Key) /\ keys \in Seq(Key)
  BY <1>2, <1>4, KeysType DEF ReadAll, Key
<1> HIDE DEF files, keys
<1>6. token \in Key
  <2>1. keys \o files \in Seq(Tokens \cup {None})
    BY <1>5 DEF Key
  <2>2. QED
    BY <2>1, FirstIn DEF Key
<1>7. Identified = IF token = None THEN NoCredentials
                   ELSE Credential("usable", token, Fingerprint("token", token))
  <2>1. keys \o files = <<source.override>> \o source.env \o files
    BY DEF keys
  <2>2. QED
    BY <2>1 DEF Identified, CopilotIdentify, files
<1> HIDE DEF token
<1>8. Fingerprint("token", token) \in Accounts
  BY <1>6, AccountOf, VerdictTypes
<1>9. QED
  BY <1>6, <1>7, <1>8, TypedNone, TypedIf, VerdictTypes DEF Typed

-----------------------------------------------------------------------------
(***************************************************************************)
(* Theorems                                                                *)
(***************************************************************************)

LEMMA ConcludeRight ==
    ASSUME FilesInv, LookInv, Conclude, clean
    PROVE  /\ ~Misleading => Right(found')
           /\ OneAccount(found')
           /\ FromHome => OutIfNeeded(found')
<1>1. AllRead /\ found' = Identified
  BY QuietReads DEF Conclude
<1>2. source.provider \in {"claude", "codex", "agy", "kiro", "copilot", "deepseek",
                           "gemini", "muse"}
  BY <1>1, SourceFacts DEF AllRead
<1>3. (~Misleading => Right(Identified)) /\ OneAccount(Identified)
  BY <1>1, <1>2, ClaudeRight, CodexRight, AgyRight, CopilotRight, KeyRight, NeverMeasured
<1>4. FromHome => OutIfNeeded(Identified)
  BY <1>1, ClaudeRight, CodexRight, AgyRight, CopilotRight DEF FromHome, Keyless
<1>5. QED
  BY <1>1, <1>3, <1>4

\* What the files name and what they authorize are of one and the same holder,
\* however many people log in and out of a home, whatever earlier logins left behind
\* and however the identification falls between the CLI's writes, unless it overlaps
\* one of them or, where a login need not name its account, a .claude.json names
\* another's.
THEOREM RightAccountHolds == Spec => RightAccount
<1>1. FilesInv /\ LookInv /\ [Next]_vars =>
        [Conclude /\ clean /\ ~Misleading =>
           (found'.verdict \in {"usable", "token_expired"} =>
              IF OfHome(found'.account) THEN source.provider = "agy"
                                        ELSE Owner(found'.account) = Behind(found'))]_vars
  BY ConcludeRight DEF Right
<1>2. Spec => [][Next]_vars
  BY DEF Spec
<1>3. QED
  BY <1>1, <1>2, LookSafe, PTL DEF RightAccount

\* A home is said to need a login if nobody is logged in to it or the login can no
\* longer be renewed, and only then, through any sequence of logins, refreshes,
\* expiries and logouts.
THEOREM LoginAskedWhenNeededHolds == Spec => LoginAskedWhenNeeded
<1>1. FilesInv /\ LookInv /\ [Next]_vars =>
        [Conclude /\ clean /\ FromHome =>
           (found'.verdict \in {"no_credentials", "login_expired"}
              <=> holder = None \/ Spent)]_vars
  BY ConcludeRight DEF OutIfNeeded, Out
<1>2. Spec => [][Next]_vars
  BY DEF Spec
<1>3. QED
  BY <1>1, <1>2, LookSafe, PTL DEF LoginAskedWhenNeeded

(***************************************************************************)
(* FoundInv is inductive.                                                  *)
(***************************************************************************)
LEMMA ConcludeTyped ==
    ASSUME FilesInv, LookInv, SeenInv, Conclude
    PROVE  Typed(Identified)
<1>1. ReadAll
  BY DEF FilesInv, LookInv, SeenInv, Conclude, ReadAll
<1>2. QED
  BY <1>1, SourceFacts, ClaudeTyped, CodexTyped, AgyTyped, CopilotTyped, KeyTyped,
     GeminiTyped DEF ReadAll

LEMMA FoundStep ==
    ASSUME FilesInv, LookInv, FoundInv, [Next]_vars
    PROVE  Typed(found)' /\ KnownInv'
<1>1. source' = source
  BY DEF Next, vars, Begin, Read, Conclude, LogIn, Refresh, LogOut, Rewrite, Truncate,
         Write, Expire
<1>2. \A p : NamedAccount(p)' = NamedAccount(p)
  BY <1>1, Zenon DEF NamedAccount, Claim
<1>3. CASE Begin
  <2>1. found' = NoCredentials /\ known' = known
    BY <1>3 DEF Begin
  <2>2. QED
    BY <1>1, <1>2, <2>1, TypedNone DEF Typed, FoundInv, KnownInv
<1>4. CASE Conclude
  <2> DEFINE c == Identified
  <2>1. /\ found' = c /\ Typed(c)
        /\ known' = IF clean /\ c.verdict = "usable" /\ Behind(c) # None
                    THEN [known EXCEPT ![Behind(c)] = @ \cup {c.account}]
                    ELSE known
    BY <1>4, ConcludeTyped DEF Conclude, FoundInv
  <2>2. clean => OneAccount(c)
    BY <1>4, <2>1, ConcludeRight
  <2>3. /\ Behind(c) # None => Behind(c) \in People
        /\ c.verdict = "usable" => c.account \in Accounts
    BY <2>1 DEF Behind, Typed, FilesInv, Key, Tokens, LoginOf, Logins
  <2> HIDE DEF c
  <2>4. Typed(found)'
    BY <1>1, <2>1 DEF Typed
  <2>5. KnownInv'
    <3>1. CASE clean /\ c.verdict = "usable" /\ Behind(c) # None
      <4>1. /\ known' = [known EXCEPT ![Behind(c)] = @ \cup {c.account}]
            /\ Behind(c) \in People /\ c.account \in Accounts
            /\ source.named => c.account = NamedAccount(Behind(c))
        BY <2>1, <2>2, <2>3, <3>1 DEF OneAccount
      <4>2. QED
        BY <1>1, <1>2, <4>1 DEF FoundInv, KnownInv
    <3>2. CASE ~(clean /\ c.verdict = "usable" /\ Behind(c) # None)
      BY <1>1, <1>2, <2>1, <3>2 DEF FoundInv, KnownInv
    <3>3. QED
      BY <3>1, <3>2
  <2>6. QED
    BY <2>4, <2>5
<1>5. CASE ~Begin /\ ~Conclude
  <2>1. found' = found /\ known' = known
    BY <1>5 DEF Next, vars, Read, LogIn, Refresh, LogOut, Rewrite, Truncate, Write, Expire
  <2>2. QED
    BY <1>1, <1>2, <2>1 DEF Typed, FoundInv, KnownInv
<1>6. QED
  BY <1>3, <1>4, <1>5

LEMMA FoundInit == Init => FoundInv
<1> SUFFICES ASSUME Init PROVE FoundInv
  OBVIOUS
<1>1. DiskInv
  <2>1. DOMAIN pending = {}
    BY DEF Init, Nothing
  <2>2. \A f \in {"profile", "dirProfile"} : disk[f] \in {Missing} \cup FieldsOf(f)
    <3>1. [uuid : People] \in SUBSET [uuid : Name]
      BY DEF Name
    <3>2. QED
      BY <3>1, InitDisk, Fields
  <2>3. QED
    BY <2>1, <2>2, InitDisk, NoneMissing DEF DiskInv, ContentOf
<1>2. SeenInv
  <2>1. ~busy
    BY DEF Init
  <2>2. QED
    BY <2>1 DEF SeenInv
<1>3. Typed(found)
  BY TypedNone DEF Init
<1>4. KnownInv
  BY DEF Init, KnownInv
<1>5. QED
  BY <1>1, <1>2, <1>3, <1>4 DEF FoundInv

LEMMA FoundSafe == Spec => [](FilesInv /\ FoundInv)
<1>1. Init => FilesInv /\ LookInv /\ FoundInv
  BY FilesInit, LookInit, FoundInit
<1>2. FilesInv /\ LookInv /\ FoundInv /\ [Next]_vars => (FilesInv /\ LookInv /\ FoundInv)'
  <2> SUFFICES ASSUME FilesInv, LookInv, FoundInv, [Next]_vars
               PROVE  FilesInv' /\ LookInv' /\ FoundInv'
    OBVIOUS
  <2>1. DiskInv' /\ SeenInv'
    BY DiskStep, SeenStep DEF FoundInv
  <2>2. QED
    BY <2>1, FilesStep, LookStep, FoundStep DEF FoundInv
<1>3. QED
  BY <1>1, <1>2, PTL DEF Spec

\* Whatever mixture of files an identification reads, half written and of several
\* logins, what it returns is a login the Client can take, and no home of a
\* retired provider is ever measured.
THEOREM IdentifyTypeCorrect == Spec => []TypeOK
<1>1. FilesInv /\ FoundInv => TypeOK
  BY DEF FilesInv, FoundInv, Typed, TypeOK, Key
<1>2. QED
  BY <1>1, FoundSafe, PTL

\* Where its logins name their account, a home gives each holder one account for
\* good, through any number of logins, refreshes and logouts of anyone.
THEOREM OneFingerprintHolds == Spec => []OneFingerprint
<1>1. FoundInv => OneFingerprint
  BY DEF FoundInv, KnownInv, OneFingerprint
<1>2. QED
  BY <1>1, FoundSafe, PTL
=============================================================================
