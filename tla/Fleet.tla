-------------------------------- MODULE Fleet --------------------------------
(***************************************************************************)
(* Client.GetAll and Merge (client.go): one goroutine per source, at most  *)
(* Slots of them at a time inside Client.Get, and one reading per account  *)
(* out of all they return.  The goroutines are the callers of Client: one  *)
(* may wait, holding its slot, for a call another one leads.               *)
(*                                                                         *)
(* The goroutines of a sweep share one context; each notices its end when  *)
(* it looks (Cancel).                                                      *)
(***************************************************************************)
EXTENDS Client, Metrics, Sequences, FiniteSets, SequencesExt

CONSTANTS
    Sweeps,     \* goroutines that call GetAll
    Slots,      \* capacity of sem (8)
    Sources,    \* Sources[g]: the goroutines of sweep g, in the order of srcs
    HomeOf,     \* the home each of them asks for
    ProviderOf, \* the place of the provider it asks about in Providers
    Rank        \* the order of the fingerprints, of which the empty is the first

ASSUME FleetAssumption ==
    /\ IsFiniteSet(Accounts)
    /\ Slots \in Nat \ {0}
    /\ \A g \in Sweeps : Sources[g] \in Seq(Callers)
    /\ \A g, h \in Sweeps :
         g # h => ToSet(Sources[g]) \cap ToSet(Sources[h]) = {}
    /\ HomeOf \in [Callers -> Homes]
    /\ ProviderOf \in [Homes -> Nat]
    /\ Rank \in [Accounts \cup {NoAccount} -> Nat]
    /\ \A a \in Accounts : Rank[NoAccount] < Rank[a]

VARIABLES
    task,       \* how far each goroutine is
    out,        \* what each sweep returned last
    began       \* the clock and the requests made when it started

fleetVars == <<task, out, began>>
allVars == <<vars, fleetVars>>

Tasks == {"none", "queued", "running", "done"}

Workers(g) == ToSet(Sources[g])

Running(g) == {c \in Workers(g) : task[c] = "running"}

-----------------------------------------------------------------------------
\* An entry of Merge's result, of one source.
Alone(c) == [provider |-> ProviderOf[HomeOf[c]], reading |-> res[c], homes |-> {HomeOf[c]}]

\* The entries a reading is merged into: that of its account, which stands for
\* the provider too; without an account there is none.
SameAccount(rs, c) ==
    {i \in DOMAIN rs : /\ rs[i].reading.account = res[c].account
                       /\ res[c].account # NoAccount}

\* Wrong: readings are told apart by home, not by account.
MergeOneByHome(rs, c) == Append(rs, Alone(c))

\* Wrong: a reading that is merged into another takes its home along.
MergeOneDropsHome(rs, c) ==
    IF SameAccount(rs, c) = {} THEN Append(rs, Alone(c)) ELSE rs

\* One iteration of Merge: the reading of an account that is already there
\* gives up its home, any other reading is appended.
MergeOne(rs, c) ==
    LET same == SameAccount(rs, c)
    IN  IF same = {} THEN Append(rs, Alone(c))
        ELSE [i \in DOMAIN rs |->
                IF i \in same THEN [rs[i] EXCEPT !.homes = @ \cup {HomeOf[c]}]
                              ELSE rs[i]]

Before(x, y) ==
    \/ x.provider < y.provider
    \/ /\ x.provider = y.provider
       /\ Rank[x.reading.account] < Rank[y.reading.account]

\* sort.SliceStable, one entry at a time: behind those that are not after it.
SortIn(sorted, e) ==
    InsertAt(sorted, Cardinality({i \in DOMAIN sorted : ~Before(e, sorted[i])}) + 1, e)

Merge(g) == FoldLeft(SortIn, <<>>, FoldLeft(MergeOne, <<>>, Sources[g]))

-----------------------------------------------------------------------------
FleetInit ==
    /\ Init
    /\ task = [c \in Callers |-> "none"]
    /\ out = [g \in Sweeps |-> <<>>]
    /\ began = [g \in Sweeps |-> [at |-> NoTime, requests |-> [a \in Accounts |-> 0]]]

\* GetAll starts its goroutines.
Start(g) ==
    /\ \A c \in Workers(g) : task[c] = "none"
    /\ task' = [c \in Callers |-> IF c \in Workers(g) THEN "queued" ELSE task[c]]
    /\ began' = [began EXCEPT ![g] = [at |-> now, requests |-> requests]]
    /\ UNCHANGED <<vars, out>>

\* Wrong: a goroutine enters Get without a slot.
AcquireAnyway(g, c) ==
    /\ task[c] = "queued"
    /\ task' = [task EXCEPT ![c] = "running"]
    /\ CallUsable(c, HomeOf[c]) \/ CallExpired(c, HomeOf[c]) \/ CallTerminal(c, HomeOf[c])
    /\ UNCHANGED <<out, began>>

\* sem <- struct{}{}, and Get up to its first lock.
Acquire(g, c) ==
    /\ task[c] = "queued"
    /\ Cardinality(Running(g)) < Slots
    /\ task' = [task EXCEPT ![c] = "running"]
    /\ CallUsable(c, HomeOf[c]) \/ CallExpired(c, HomeOf[c]) \/ CallTerminal(c, HomeOf[c])
    /\ UNCHANGED <<out, began>>

\* The rest of Get.
InGet(c) == Continue(c) /\ UNCHANGED fleetVars

\* Wrong: the slot is given back only after a measured reading.
ReleaseMeasured(c) ==
    /\ task[c] = "running"
    /\ At(c, "idle")
    /\ HasQuota(res[c].state)
    /\ task' = [task EXCEPT ![c] = "done"]
    /\ UNCHANGED <<vars, out, began>>

\* Get returned: the deferred receive from sem and wg.Done.
Release(c) ==
    /\ task[c] = "running"
    /\ At(c, "idle")
    /\ task' = [task EXCEPT ![c] = "done"]
    /\ UNCHANGED <<vars, out, began>>

\* wg.Wait returns, and Merge.
Collect(g) ==
    /\ \A c \in Workers(g) : task[c] = "done"
    /\ out' = [out EXCEPT ![g] = Merge(g)]
    /\ task' = [c \in Callers |-> IF c \in Workers(g) THEN "none" ELSE task[c]]
    /\ UNCHANGED <<vars, began>>

Environment ==
    /\ \/ \E c \in Callers : Cancel(c)
       \/ \E s \in Homes : Relogin(s)
       \/ Tick
    /\ UNCHANGED fleetVars

Worker(g, c) == Acquire(g, c) \/ InGet(c) \/ Release(c)

FleetNext ==
    \/ \E g \in Sweeps :
         \/ Start(g) \/ Collect(g)
         \/ \E c \in Workers(g) : Worker(g, c)
    \/ Environment

FleetSpec == FleetInit /\ [][FleetNext]_allVars

(***************************************************************************)
(* A goroutine that can run does: the mutex starves nobody, the provider's *)
(* deadline (WithTimeout, "timeout" among the Answers) ends every          *)
(* measurement, a closed channel wakes its waiters, and a slot is handed   *)
(* on, each being asked for once a sweep.  Nothing is assumed of contexts, *)
(* logins or the clock, and nobody has to start a sweep.                   *)
(***************************************************************************)
FairFleet ==
    /\ FleetSpec
    /\ \A g \in Sweeps : /\ WF_allVars(Collect(g))
                         /\ \A c \in Workers(g) : WF_allVars(Worker(g, c))

-----------------------------------------------------------------------------
(***************************************************************************)
(* Properties                                                              *)
(***************************************************************************)

\* Goroutines inside Get are those that hold a slot, no more of them than
\* there are slots.
FleetTypeOK ==
    /\ TypeOK
    /\ task \in [Callers -> Tasks]
    /\ \A c \in Callers : pc[c] # "idle" => task[c] = "running"
    /\ \A g \in Sweeps : Cardinality(Running(g)) <= Slots

\* GetAll returns: goroutines that hold a slot while they wait for another's
\* call, in their own sweep or in another, never keep its leader from the slot
\* it needs, and no slot is lost.
SweepReturns ==
    \A g \in Sweeps :
        (\E c \in Workers(g) : task[c] = "queued")
            ~> (\A c \in Workers(g) : task[c] = "none")

\* N homes that share an account make one upstream call (README.md:156): a sweep
\* shorter than any answer or failure keeps an account's gate shut asks at most
\* once in its name, whatever the order of its goroutines, the answers, the
\* contexts and other sweeps.
Quiet(a, span) ==
    /\ span + MinIntervalSlack(MinInterval[a]) < MinInterval[a]
    /\ \A w \in Waits(1, 0) : span < w

OneRequestPerAccount ==
    \A g \in Sweeps, a \in Accounts :
        /\ \E c \in Workers(g) : task[c] # "none"
        /\ Quiet(a, now - began[g].at)
        => requests[a] - began[g].requests[a] <= 1

\* GetAll accounts for every source and reports no account twice: a home is named
\* by the reading of the account it resolved to, no two readings are of one
\* account, and they are listed by provider and account, those without one first.
MergedByAccount ==
    \A g \in Sweeps : out[g] # <<>> =>
        /\ \A i, j \in DOMAIN out[g] :
             i < j => /\ ~Before(out[g][j], out[g][i])
                      /\ out[g][i].reading.account = out[g][j].reading.account
                           => out[g][i].reading.account = NoAccount
        /\ (\A c \in Workers(g) : task[c] = "none") =>
             \A c \in Workers(g) :
                \E i \in DOMAIN out[g] :
                    /\ HomeOf[c] \in out[g][i].homes
                    /\ out[g][i].reading.account = res[c].account

\* A scrape of what GetAll returned has one current state for every account
\* (metrics.go:19), and no series of one reading is also another's, though several
\* homes share the account and each asked for itself.
Who(e) == <<e.provider, e.reading.account>>

OneStatePerAccount ==
    \A g \in Sweeps : \A i, j \in DOMAIN out[g] :
        LET e == out[g][i]
            f == out[g][j]
            current == {s \in DOMAIN StateSeries(Who(e), e.reading) :
                          StateSeries(Who(e), e.reading)[s] = 1}
        IN  e.reading.account # NoAccount =>
              /\ Cardinality(current) = 1
              /\ i # j => ReadingSeries(Who(e), e.reading)
                            \cap ReadingSeries(Who(f), f.reading) = {}
=============================================================================
