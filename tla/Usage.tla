-------------------------------- MODULE Usage --------------------------------
(***************************************************************************)
(* From a provider's decoded payload to windows and a verdict: the parse   *)
(* functions of claude.go, codex.go, agy.go, kiro.go, copilot.go and       *)
(* deepseek.go, and the state Prober.finish derives where they set none.   *)
(*                                                                         *)
(* A payload is a record that keeps what the verdict depends on.  Old and  *)
(* new spellings of one field are one field; a window id is the pair of a  *)
(* base name and a scope.                                                  *)
(***************************************************************************)
EXTENDS Windows, Sequences, FiniteSets, Functions, FiniteSetsExt, SequencesExt

Report(st, ws) ==
    [reading |-> Measured(IF st = Unset THEN DeriveState(ws) ELSE st), windows |-> ws]

Failure(st, cause) == [reading |-> Fail(st, cause), windows |-> {}]

Ids(ws) == {w.id : w \in ws}

\* A function from names to values.
Named(f, values) ==
    /\ IsFiniteSet(DOMAIN f)
    /\ \A n \in DOMAIN f : f[n] \in values

Amounts == [used : Int, limit : Int]

-----------------------------------------------------------------------------
(* Claude: limits, a sequence of [name, model, pct], over buckets, a        *)
(* function from names to percentages, and extra usage [used, limit].       *)

\* The names claudeClassify tells apart; "mystery" is one it does not know.
ClaudeNames == {"session", "five_hour", "weekly_all", "seven_day", "weekly_scoped",
                "seven_day_opus", "daily", "monthly", "mystery"}

ClaudePayload(p) ==
    /\ p.limits \in Seq([name : ClaudeNames, model : {Absent} \cup STRING, pct : Numbers])
    /\ DOMAIN p.buckets \subseteq ClaudeNames /\ Named(p.buckets, Numbers)
    /\ p.extra \in {Absent} \cup Amounts

\* claudeClassify; an unknown name is its kind.
ClaudeKind(name) ==
    CASE name \in {"session", "five_hour"}                         -> "five_hour"
      [] name \in {"weekly_all", "seven_day"}                      -> "weekly"
      [] name \in {"weekly_scoped", "seven_day_opus"}              -> "weekly"
      [] name \in {"daily", "monthly"}                             -> name
      [] OTHER                                                     -> "unknown"

ClaudeScope(name) ==
    CASE name = "weekly_scoped"  -> "scoped"
      [] name = "seven_day_opus" -> "opus"
      [] OTHER                   -> NoScope

\* An account-wide window binds; that of a model does not.
ClaudeWindow(base, kind, scope, pct) ==
    [PctWindow(<<base, scope>>, kind, pct) EXCEPT !.binding = scope = NoScope]

LimitWindow(l) ==
    LET kind  == ClaudeKind(l.name)
        scope == IF Known(l.model) THEN l.model ELSE ClaudeScope(l.name)
        base  == CASE kind = "weekly" -> "seven_day"
                   [] kind = "five_hour" /\ scope = NoScope -> "five_hour"
                   [] OTHER -> l.name
    IN  ClaudeWindow(base, kind, scope, l.pct)

BucketWindow(name, pct) ==
    ClaudeWindow(IF name = "seven_day_opus" THEN "seven_day" ELSE name,
                 ClaudeKind(name), ClaudeScope(name), pct)

\* add: the first window of an id stays.
AddNew(ws, w) == IF w.id \in Ids(ws) THEN ws ELSE ws \cup {w}

\* limits[], in order; an entry without a percentage is no reading.
ClaudeLimits(limits) ==
    FoldLeft(LAMBDA ws, l : IF Known(l.pct) THEN AddNew(ws, LimitWindow(l)) ELSE ws,
             {}, limits)

\* Wrong: the top-level buckets replace the limits.
ClaudeBucketsWin(buckets, ws) ==
    LET found == {BucketWindow(n, buckets[n]) : n \in
                    {n \in DOMAIN buckets : /\ Known(buckets[n])
                                            /\ ClaudeKind(n) # "unknown"}}
    IN  found \cup {w \in ws : w.id \notin Ids(found)}

\* The top-level buckets of a known kind; limits[] wins on collisions.
ClaudeBuckets(buckets, ws) ==
    LET found == {BucketWindow(n, buckets[n]) : n \in
                    {n \in DOMAIN buckets : /\ Known(buckets[n])
                                            /\ ClaudeKind(n) # "unknown"}}
    IN  ws \cup {w \in found : w.id \notin Ids(ws)}

\* extra_usage is paid overflow.
ClaudeExtra(extra, ws) ==
    IF Known(extra)
    THEN AddNew(ws, Informational(AmountWindow(<<"extra_usage", NoScope>>, "credits",
                                               extra.used, extra.limit)))
    ELSE ws

ParseClaude(p) ==
    LET ws == ClaudeBuckets(p.buckets, ClaudeLimits(p.limits))
    IN  IF ws = {} THEN Failure("error", "schema")
        ELSE Report(Unset, ClaudeExtra(p.extra, ws))

-----------------------------------------------------------------------------
(* Codex: the account's limit, the limits of features (a set of [scope,     *)
(* limit]) and credits.  A limit has two windows [used, left, mins] and     *)
(* whether the provider says it is reached.                                 *)

CodexLimits ==
    LET window == {Absent} \cup [used : Numbers, left : Numbers, mins : Int]
    IN  {Absent} \cup [primary : window, secondary : window, reached : BOOLEAN]

\* A feature's scope has a name, "additional" if need be.
CodexPayload(p) ==
    /\ p.limit \in CodexLimits /\ p.balance \in Numbers
    /\ \A f \in p.features : f.scope \in STRING \ {NoScope} /\ f.limit \in CodexLimits

\* codexKind: banded by the duration the provider states.
CodexKind(mins, fallback) ==
    CASE mins <= 0     -> fallback
      [] mins \in 1..360       -> "five_hour"
      [] mins \in 361..2880    -> "daily"
      [] mins \in 2881..20160  -> "weekly"
      [] OTHER         -> "monthly"

\* Wrong: a feature's window binds.
CodexWindowsAllBind(w, scope, fallback) ==
    IF ~Known(w) \/ (~Known(w.used) /\ ~Known(w.left)) THEN {}
    ELSE LET kind == CodexKind(w.mins, fallback)
             used == IF Known(w.used) THEN w.used ELSE 100 - w.left
         IN  {PctWindow(<<kind, scope>>, kind, used)}

\* codexWindow: a window without a percentage is dropped.
CodexWindows(w, scope, fallback) ==
    IF ~Known(w) \/ (~Known(w.used) /\ ~Known(w.left)) THEN {}
    ELSE LET kind == CodexKind(w.mins, fallback)
             used == IF Known(w.used) THEN w.used ELSE 100 - w.left
         IN  {[PctWindow(<<kind, scope>>, kind, used) EXCEPT
                 !.binding = scope = NoScope]}

CodexLimit(l, scope) ==
    IF Known(l) THEN CodexWindows(l.primary, scope, "five_hour")
                     \cup CodexWindows(l.secondary, scope, "weekly")
    ELSE {}

CodexCredits(balance) ==
    IF Known(balance) THEN {[id |-> <<"credits", NoScope>>, kind |-> "credits",
                             binding |-> FALSE, remaining |-> balance,
                             remainingPct |-> Absent]}
    ELSE {}

ParseCodex(p) ==
    LET ws == CodexLimit(p.limit, NoScope)
                \cup UNION {CodexLimit(f.limit, f.scope) : f \in p.features}
        all == ws \cup CodexCredits(p.balance)
    IN  IF ws = {} THEN Failure("error", "schema")
        ELSE Report(IF Known(p.limit) /\ p.limit.reached THEN "limited"
                                                         ELSE DeriveState(all),
                    all)

-----------------------------------------------------------------------------
(* Agy: how the run of agy ended; of the JSON it printed, the status, the   *)
(* command and the buckets of all groups, a sequence of [id, pool, window,  *)
(* left]: "pool" is what stands before a dash in the id, and a null bucket  *)
(* has nothing left known.                                                  *)

\* The names agyKind tells apart; "mystery" is one it does not know.
AgyNames == {"5h", "five_hour", "short", "daily", "day", "24h",
             "weekly", "seven_day", "7d", "monthly", "mystery"}

AgyBuckets == [id : STRING, pool : STRING, window : AgyNames, left : Numbers]

AgyPayload(p) ==
    /\ p.run \in {"not_found", "login", "timeout", "exit", "no_json", "json"}
    /\ p.status \in {"success", "login", "other"}
    /\ p.buckets \in Seq(AgyBuckets)

\* agyKind; an unknown name is its kind.
AgyKind(window) ==
    CASE window \in {"5h", "five_hour", "short"}   -> "five_hour"
      [] window \in {"daily", "day", "24h"}        -> "daily"
      [] window \in {"weekly", "seven_day", "7d"}  -> "weekly"
      [] window = "monthly"                        -> "monthly"
      [] OTHER                                     -> "unknown"

\* Every pool binds.
AgyWindow(b) == PctWindow(<<b.id, b.pool>>, AgyKind(b.window), 100 - b.left)

\* agyFetch and parseAgyUsage.
ParseAgy(p) ==
    LET rated == {b \in ToSet(p.buckets) : Known(b.left)}
    IN  CASE p.run = "not_found" -> Failure("error", "not_installed")
          [] p.run = "login"     -> Failure("auth_required", "login_required")
          [] p.run = "timeout"   -> Failure("error", "timeout")
          [] p.run = "exit"      -> Failure("error", "exit_status")
          [] p.run = "no_json"   -> Failure("error", "schema")
          [] p.run = "json" /\ p.status = "login" ->
                Failure("auth_required", "login_required")
          [] p.run = "json" /\ p.status = "other" -> Failure("error", "agy_status")
          [] p.run = "json" /\ p.status = "success"
                            /\ (p.command # "usage" \/ rated = {}) ->
                Failure("error", "schema")
          [] OTHER -> Report(Unset, {AgyWindow(b) : b \in rated})

-----------------------------------------------------------------------------
(* Kiro: a sequence of breakdowns [type, used, limit, over, trial, bonuses, *)
(* cap] and whether overage is enabled.  "used" includes "over"; a trial    *)
(* and each bonus of the list, in the order of their codes, say whether     *)
(* they are active.                                                         *)

KiroCredits == [active : BOOLEAN, used : Numbers, limit : Numbers]

KiroBonuses == [code : STRING, active : BOOLEAN, used : Numbers, limit : Numbers]

KiroBreakdown(b) ==
    /\ b.type \in STRING
    /\ {b.used, b.limit, b.over, b.cap} \subseteq Numbers
    /\ b.trial \in {Absent} \cup KiroCredits
    /\ b.bonuses \in Seq(KiroBonuses)

KiroPayload(p) ==
    /\ p.breakdowns \in Seq(ToSet(p.breakdowns))
    /\ \A b \in ToSet(p.breakdowns) : KiroBreakdown(b)
    /\ p.overage \in BOOLEAN

AtLeast0(v) == IF v > 0 THEN v ELSE 0

\* The value of a flexNum, OK or not.
OrZero(v) == IF Known(v) THEN v ELSE 0

\* Credits that go on when the plan's are used up.
Further(id, used, limit) ==
    Informational(AmountWindow(id, "credits", OrZero(used), OrZero(limit)))

\* The windows of a breakdown; its type tells the breakdowns of a payload apart,
\* nothing the bonuses of two.
KiroWindows(p, b) ==
    LET scope  == IF Len(p.breakdowns) > 1 THEN b.type ELSE NoScope
        active == {n \in ToSet(b.bonuses) : n.active}
    IN  {AmountWindow(<<"plan", scope>>, "monthly", b.used - OrZero(b.over), b.limit)}
        \cup (IF Known(b.trial) /\ b.trial.active
              THEN {Further(<<"free_trial", scope>>, b.trial.used, b.trial.limit)} ELSE {})
        \cup {Further(<<"bonus", n.code>>, n.used, n.limit) : n \in active}
        \cup (IF p.overage /\ Known(b.cap) /\ b.cap > 0
              THEN {Further(<<"overage", scope>>, b.over, b.cap)} ELSE {})

\* Wrong: only the plan's own credits count.
KiroHeadroomPlanOnly(ws) ==
    MapThenSumSet(LAMBDA w : IF w.binding THEN AtLeast0(w.remaining) ELSE 0, ws)

\* What is left anywhere; a window in debt takes nothing from the others.
\* Two equal windows count once here, which leaves the sign as it is.
KiroHeadroom(ws) == MapThenSumSet(LAMBDA w : AtLeast0(w.remaining), ws)

\* Wrong: a breakdown without its numbers is one that has used nothing of nothing.
ParseKiroUnrated(p) ==
    LET ws == UNION {KiroWindows(p, [b EXCEPT !.used = OrZero(@), !.limit = OrZero(@)]) :
                       b \in ToSet(p.breakdowns)}
    IN  IF p.breakdowns = <<>> THEN Failure("error", "schema")
        ELSE Report(IF KiroHeadroom(ws) <= 0 THEN "limited" ELSE "ok", ws)

ParseKiro(p) ==
    LET ws == UNION {KiroWindows(p, b) : b \in ToSet(p.breakdowns)}
    IN  IF \/ p.breakdowns = <<>>
           \/ \E b \in ToSet(p.breakdowns) : ~Known(b.used) \/ ~Known(b.limit)
        THEN Failure("error", "schema")
        ELSE Report(IF KiroHeadroom(ws) <= 0 THEN "limited" ELSE "ok", ws)

-----------------------------------------------------------------------------
(* Copilot: snapshots, a function from names to Absent or [unlimited,       *)
(* entitled, left, pct], and a free plan's quotas, [left, limit].           *)

CopilotPayload(p) ==
    /\ Named(p.snapshots, {Absent} \cup [unlimited : BOOLEAN, entitled : Numbers,
                                          left : Numbers, pct : Numbers])
    /\ Named(p.free, [left : Numbers, limit : Numbers])

SnapshotWindows(name, s) ==
    IF ~Known(s) \/ s.unlimited THEN {}
    ELSE IF Known(s.entitled) /\ Known(s.left)
    THEN {AmountWindow(<<name, NoScope>>, "monthly", s.entitled - s.left, s.entitled)}
    ELSE IF Known(s.pct) THEN {PctWindow(<<name, NoScope>>, "monthly", 100 - s.pct)}
    ELSE {}

\* The quotas of a free plan, when no snapshot counts.
FreeWindows(free) ==
    {AmountWindow(<<n, NoScope>>, "monthly", free[n].limit - free[n].left, free[n].limit) :
       n \in {n \in DOMAIN free : Known(free[n].left) /\ Known(free[n].limit)}}

ParseCopilot(p) ==
    LET paid == UNION {SnapshotWindows(n, p.snapshots[n]) : n \in DOMAIN p.snapshots}
        ws   == IF paid = {} THEN FreeWindows(p.free) ELSE paid
        unlimited == \E s \in Range(p.snapshots) : Known(s) /\ s.unlimited
    IN  IF ws = {} /\ ~unlimited THEN Failure("error", "schema")
        ELSE Report(Unset, ws)

-----------------------------------------------------------------------------
(* DeepSeek: balances, a sequence of [currency, total] in which a currency  *)
(* may come back, and whether the provider says the account is available.   *)

DeepSeekBalances == [currency : STRING, total : Numbers]

DeepSeekPayload(p) ==
    /\ p.balances \in Seq(DeepSeekBalances)
    /\ p.available \in BOOLEAN

\* Wrong: one empty currency exhausts the account.
AnyMoneyLeftAll(ws) == \A w \in ws : w.remaining > 0

\* Several currencies: the account can serve while any has money.
AnyMoneyLeft(ws) == \E w \in ws : w.remaining > 0

BalanceWindow(b) ==
    [id |-> <<"balance", b.currency>>, kind |-> "balance", binding |-> TRUE,
     remaining |-> b.total, remainingPct |-> Absent]

ParseDeepSeek(p) ==
    LET rated == {i \in DOMAIN p.balances : Known(p.balances[i].total)}
        ws    == {BalanceWindow(p.balances[i]) : i \in rated}
        st == IF Cardinality(rated) > 1
              THEN IF AnyMoneyLeft(ws) THEN "ok" ELSE "exhausted"
              ELSE DeriveState(ws)
    IN  IF rated = {} THEN Failure("error", "schema")
        ELSE Report(IF p.available THEN st ELSE "exhausted", ws)
=============================================================================
